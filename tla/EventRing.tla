------------------------------ MODULE EventRing ------------------------------
(***************************************************************************)
(* The ring buffer inside struct am_event_queue                            *)
(* (libs/event/event_queue.c), as operators on a queue value:              *)
(*   q.events     the user's array of event pointers                       *)
(*   q.rd, q.wr   the read and the write index                             *)
(*   q.full       tells a full ring from an empty one when rd = wr         *)
(*   q.nfree      free slots, q.nfree_min the fewest ever seen             *)
(* Reference counting of the queued events is in module EventRef, locking  *)
(* and the order of calls in the modules that use this one.                *)
(***************************************************************************)
EXTENDS Integers, Sequences

\* am_event_queue_init over an array whose slots all hold `fill`.
QueueInit(capacity, fill) ==
  [events |-> [i \in 0 .. capacity - 1 |-> fill],
   capacity |-> capacity,
   rd |-> 0, wr |-> 0, full |-> FALSE,
   nfree |-> capacity, nfree_min |-> capacity]

QueueType(capacity, Event) ==
  [events : [0 .. capacity - 1 -> Event],
   capacity : {capacity},
   rd : 0 .. capacity - 1, wr : 0 .. capacity - 1, full : BOOLEAN,
   nfree : 0 .. capacity, nfree_min : 0 .. capacity]

IsEmpty(q) == q.rd = q.wr /\ ~q.full

\* am_event_queue_get_nbusy_unsafe
NBusy(q) == q.capacity - q.nfree

-----------------------------------------------------------------------------

Wrap(i, capacity) == i % capacity

Next1(q, i) == Wrap(i + 1, q.capacity)
Prev1(q, i) == IF i > 0 THEN i - 1 ELSE q.capacity - 1

FirstEvent(q) == q.events[q.rd]

\* Mutant: the full flag survives the pop.
PopKeepsFull(q) == [q EXCEPT !.rd = Next1(q, q.rd), !.nfree = @ + 1]

\* am_event_queue_pop_front_unsafe of a queue that is not empty.
PopFront(q) ==
  [events |-> q.events, capacity |-> q.capacity,
   rd |-> Next1(q, q.rd), wr |-> q.wr, full |-> FALSE,
   nfree |-> q.nfree + 1, nfree_min |-> q.nfree_min]

\* Mutant: margin zero no longer refuses.
NoRoomOffByOne(q, margin) == q.nfree < margin

\* Whether am_event_queue_push_unsafe refuses the push.
NoRoom(q, margin) == q.nfree <= margin

\* nfree_min after one more push.
NFreeMin(q) == IF q.nfree - 1 < q.nfree_min THEN q.nfree - 1 ELSE q.nfree_min

PushBack(q, e) ==
  LET w == Next1(q, q.wr)
  IN  [events |-> [q.events EXCEPT ![q.wr] = e], capacity |-> q.capacity,
       rd |-> q.rd, wr |-> w, full |-> q.full \/ w = q.rd,
       nfree |-> q.nfree - 1, nfree_min |-> NFreeMin(q)]

\* Mutant: the slot is written before rd moves.
PushFrontWriteFirst(q, e) ==
  LET r == Prev1(q, q.rd)
  IN  [events |-> [q.events EXCEPT ![q.rd] = e], capacity |-> q.capacity,
       rd |-> r, wr |-> q.wr, full |-> q.full \/ q.wr = r,
       nfree |-> q.nfree - 1, nfree_min |-> NFreeMin(q)]

PushFront(q, e) ==
  LET r == Prev1(q, q.rd)
  IN  [events |-> [q.events EXCEPT ![r] = e], capacity |-> q.capacity,
       rd |-> r, wr |-> q.wr, full |-> q.full \/ q.wr = r,
       nfree |-> q.nfree - 1, nfree_min |-> NFreeMin(q)]

\* am_event_queue_push_unsafe once it has found room.
Push(q, e, lifo) == IF lifo THEN PushFront(q, e) ELSE PushBack(q, e)

\* The AM_RC_QUEUE_WAS_EMPTY result of the push, read from nfree.
WasEmpty(q) == q.capacity = q.nfree

-----------------------------------------------------------------------------

\* The queued events in the order in which they are popped.
Contents(q) ==
  [i \in 1 .. NBusy(q) |-> q.events[Wrap(q.rd + (i - 1), q.capacity)]]

\* The redundant fields agree: the distance from rd to wr is the number of busy
\* slots, and full tells the two cases of rd = wr apart.  The busy slots hold
\* events, never a stale NULL.
WellFormed(q, Event) ==
  /\ q.wr = Wrap(q.rd + NBusy(q), q.capacity)
  /\ q.full <=> q.nfree = 0
  /\ q.nfree_min <= q.nfree
  /\ \A i \in 1 .. NBusy(q) : Contents(q)[i] \in Event

=============================================================================
