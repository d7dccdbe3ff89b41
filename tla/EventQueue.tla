------------------------------ MODULE EventQueue ------------------------------
(***************************************************************************)
(* One am_event_queue shared by threads (libs/event/event_queue.c with the *)
(* reference counting of libs/event/event.c).                              *)
(*                                                                         *)
(* Every am_event_crit_enter/exit section is one atomic action; whatever   *)
(* the code does between two sections is left to the scheduler.  Hence     *)
(* am_event_queue_push is one action, am_event_queue_pop_front_with_cb is  *)
(* two (the pop, and the release of the event after the callback), and     *)
(* am_event_queue_flush is a loop of two.  A failing AM_ASSERT sets        *)
(* `halted`, after which nothing moves.                                    *)
(***************************************************************************)
EXTENDS EventRing, EventRef, FiniteSets

CONSTANTS
  Producer,     \* threads that allocate and push
  Consumer,     \* threads that call am_event_queue_pop_front_with_cb
  Flusher,      \* threads that call am_event_queue_flush
  Event,        \* static and dynamic events
  NoEvent,      \* NULL
  Capacity,     \* slots of the queue
  Margins,      \* policy.margin where the caller gives its event away
  HeldMargins   \* policy.margin where the caller still owns the event

Thread == Producer \cup Consumer \cup Flusher

ASSUME EventQueueAssumption ==
  /\ Capacity \in Nat \ {0}
  /\ Margins \subseteq 0 .. Capacity - 1
  /\ HeldMargins \subseteq 0 .. Capacity - 1
  /\ Dynamic \subseteq Event
  /\ NoEvent \notin Event

VARIABLES
  queue,    \* struct am_event_queue
  heap,     \* the dynamic events
  owned,    \* owned[t]: the event t allocated and may still use
  kept,     \* kept[t]: t holds a reference to it (am_event_inc_ref_cnt)
  cur,      \* cur[t]: the event t popped and has not released yet
  pc,       \* where t is in pop_front_with_cb or flush
  flushed,  \* cnt of am_event_queue_flush
  rc,       \* what the last push returned
  halted    \* an AM_ASSERT failed

vars == <<queue, heap, owned, kept, cur, pc, flushed, rc, halted>>

EventOrNull == Event \cup {NoEvent}

Init ==
  /\ queue = QueueInit(Capacity, NoEvent)
  /\ heap = HeapInit
  /\ owned = [t \in Thread |-> NoEvent]
  /\ kept = [t \in Thread |-> FALSE]
  /\ cur = [t \in Thread |-> NoEvent]
  /\ pc = [t \in Thread |-> "idle"]
  /\ flushed = [t \in Thread |-> 0]
  /\ rc = "none"
  /\ halted = FALSE

-----------------------------------------------------------------------------
(* The owner of a dynamic event.                                           *)

\* am_event_allocate_x by a thread that owns no event.
Allocate(t, e) ==
  /\ owned[t] = NoEvent
  /\ e \in Dynamic \ heap.live
  /\ heap' = Allocated(heap, e)
  /\ owned' = [owned EXCEPT ![t] = e]
  /\ UNCHANGED <<queue, kept, cur, pc, flushed, rc, halted>>

\* am_event_inc_ref_cnt: the allocator keeps its event over the pushes.
Keep(t) ==
  /\ owned[t] # NoEvent /\ ~kept[t]
  /\ halted' = ~CanCount(heap, owned[t])
  /\ heap' = IF CanCount(heap, owned[t]) THEN Counted(heap, owned[t]) ELSE heap
  /\ kept' = [kept EXCEPT ![t] = TRUE]
  /\ UNCHANGED <<queue, owned, cur, pc, flushed, rc>>

\* am_event_dec_ref_cnt of a kept event, am_event_free of one never pushed.
Release(t) ==
  /\ owned[t] # NoEvent
  /\ heap' = Freed(heap, owned[t])
  /\ owned' = [owned EXCEPT ![t] = NoEvent]
  /\ kept' = [kept EXCEPT ![t] = FALSE]
  /\ UNCHANGED <<queue, cur, pc, flushed, rc, halted>>

-----------------------------------------------------------------------------
(* am_event_queue_push                                                     *)

\* Mutant: the queue slot is not counted.
PushOKUncounted(e, lifo, margin) ==
  /\ ~NoRoom(queue, margin)
  /\ queue' = Push(queue, e, lifo)
  /\ rc' = IF WasEmpty(queue) THEN "was_empty" ELSE "ok"
  /\ UNCHANGED <<heap, halted>>

PushOK(e, lifo, margin) ==
  /\ ~NoRoom(queue, margin)
  /\ CanCount(heap, e)
  /\ heap' = Counted(heap, e)
  /\ queue' = Push(queue, e, lifo)
  /\ rc' = IF WasEmpty(queue) THEN "was_empty" ELSE "ok"
  /\ UNCHANGED halted

PushRefused(e, margin) ==
  /\ NoRoom(queue, margin)
  /\ heap' = Freed(heap, e)
  /\ rc' = "err"
  /\ halted' = (margin = 0)
  /\ UNCHANGED queue

PushOverflow(e, margin) ==
  /\ ~NoRoom(queue, margin) /\ ~CanCount(heap, e)
  /\ halted' = TRUE
  /\ UNCHANGED <<queue, heap, rc>>

PushEvent(e, lifo, margin) ==
  \/ PushOK(e, lifo, margin)
  \/ PushRefused(e, margin)
  \/ PushOverflow(e, margin)

\* A static event, or the thread's own event which it gives away.
PushGive(t, e, lifo, margin) ==
  /\ IsStatic(e) \/ (e = owned[t] /\ ~kept[t])
  /\ PushEvent(e, lifo, margin)
  /\ owned' = IF IsStatic(e) THEN owned ELSE [owned EXCEPT ![t] = NoEvent]
  /\ UNCHANGED <<kept, cur, pc, flushed>>

\* A dynamic event the thread goes on using: one it keeps, or one it is
\* handling in its callback.
PushHeld(t, e, lifo, margin) ==
  /\ ~IsStatic(e)
  /\ (e = owned[t] /\ kept[t]) \/ (e = cur[t] /\ pc[t] = "handling")
  /\ PushEvent(e, lifo, margin)
  /\ UNCHANGED <<owned, kept, cur, pc, flushed>>

-----------------------------------------------------------------------------
(* am_event_queue_pop_front_with_cb                                        *)

PopBegin(t) ==
  /\ pc[t] = "idle"
  /\ ~IsEmpty(queue)
  /\ cur' = [cur EXCEPT ![t] = FirstEvent(queue)]
  /\ queue' = PopFront(queue)
  /\ pc' = [pc EXCEPT ![t] = "handling"]
  /\ UNCHANGED <<heap, owned, kept, flushed, rc, halted>>

\* The callback has returned; am_event_free.
PopEnd(t) ==
  /\ pc[t] = "handling"
  /\ heap' = Freed(heap, cur[t])
  /\ cur' = [cur EXCEPT ![t] = NoEvent]
  /\ pc' = [pc EXCEPT ![t] = "idle"]
  /\ UNCHANGED <<queue, owned, kept, flushed, rc, halted>>

-----------------------------------------------------------------------------
(* am_event_queue_flush                                                    *)

FlushBegin(t) ==
  /\ pc[t] = "idle"
  /\ pc' = [pc EXCEPT ![t] = "flush_pop"]
  /\ flushed' = [flushed EXCEPT ![t] = 0]
  /\ UNCHANGED <<queue, heap, owned, kept, cur, rc, halted>>

\* am_event_queue_pop_front found an event; the assertion on cnt follows.
FlushPop(t) ==
  /\ pc[t] = "flush_pop"
  /\ ~IsEmpty(queue)
  /\ cur' = [cur EXCEPT ![t] = FirstEvent(queue)]
  /\ queue' = PopFront(queue)
  /\ flushed' = [flushed EXCEPT ![t] = @ + 1]
  /\ halted' = (flushed[t] + 1 > Capacity)
  /\ pc' = [pc EXCEPT ![t] = "flush_free"]
  /\ UNCHANGED <<heap, owned, kept, rc>>

FlushFree(t) ==
  /\ pc[t] = "flush_free"
  /\ heap' = Freed(heap, cur[t])
  /\ cur' = [cur EXCEPT ![t] = NoEvent]
  /\ pc' = [pc EXCEPT ![t] = "flush_pop"]
  /\ UNCHANGED <<queue, owned, kept, flushed, rc, halted>>

FlushEnd(t) ==
  /\ pc[t] = "flush_pop"
  /\ IsEmpty(queue)
  /\ pc' = [pc EXCEPT ![t] = "idle"]
  /\ UNCHANGED <<queue, heap, owned, kept, cur, flushed, rc, halted>>

-----------------------------------------------------------------------------

Produce(t) ==
  \/ \E e \in Dynamic : Allocate(t, e)
  \/ Keep(t)
  \/ Release(t)
  \/ \E e \in Event, lifo \in BOOLEAN, m \in Margins : PushGive(t, e, lifo, m)
  \/ \E e \in Event, lifo \in BOOLEAN, m \in HeldMargins :
       PushHeld(t, e, lifo, m)

Consume(t) ==
  \/ PopBegin(t)
  \/ PopEnd(t)
  \/ \E e \in Event, lifo \in BOOLEAN, m \in HeldMargins :
       PushHeld(t, e, lifo, m)

Flush(t) == FlushBegin(t) \/ FlushPop(t) \/ FlushFree(t) \/ FlushEnd(t)

\* The program ended in a failed assertion, or its memory is corrupt.
Stopped == (halted \/ heap.corrupt) /\ UNCHANGED vars

Next ==
  \/ /\ ~halted /\ ~heap.corrupt
     /\ \/ \E t \in Producer : Produce(t)
        \/ \E t \in Consumer : Consume(t)
        \/ \E t \in Flusher : Flush(t)
  \/ Stopped

Spec == Init /\ [][Next]_vars

-----------------------------------------------------------------------------
(* Properties                                                              *)

\* Every variable stays in the range of its C field.
TypeOK ==
  /\ queue \in QueueType(Capacity, EventOrNull)
  /\ heap \in HeapType
  /\ owned \in [Thread -> Dynamic \cup {NoEvent}]
  /\ kept \in [Thread -> BOOLEAN]
  /\ cur \in [Thread -> EventOrNull]
  /\ pc \in [Thread -> {"idle", "handling", "flush_pop", "flush_free"}]
  /\ flushed \in [Thread -> 0 .. Capacity + 1]
  /\ rc \in {"none", "ok", "was_empty", "err"}
  /\ halted \in BOOLEAN

\* The index, counter and flag fields of the queue agree (WellFormed).  The
\* code updates nfree, rd/wr and full by separate statements of push and pop
\* and reads a different one of them for each decision: is there room, is it
\* empty, was it empty.
RingConsistent == WellFormed(queue, Event)

\* ref_counter counts exactly the parties that will decrement it later: the
\* queue slots, the callbacks and flushes in progress, and the holders of
\* am_event_inc_ref_cnt references.
Holders(e) ==
  Cardinality({i \in 1 .. NBusy(queue) : Contents(queue)[i] = e})
    + Cardinality({t \in Thread : cur[t] = e})
    + Cardinality({t \in Thread : owned[t] = e /\ kept[t]})

RefCountIsHolders ==
  ~halted /\ ~heap.corrupt => \A e \in heap.live : heap.ref[e] = Holders(e)

\* No event is recycled while a queue slot, a callback or its owner can still
\* reach it, and none is freed twice.
NoUseAfterFree ==
  /\ ~heap.corrupt
  /\ ~halted => \A e \in Dynamic \ heap.live :
                  Holders(e) = 0 /\ \A t \in Thread : owned[t] # e

\* No event is lost: a block that is not free is held or still owned.
NoLeak ==
  \A e \in heap.live : Holders(e) > 0 \/ \E t \in Thread : owned[t] = e

\* Each event is where its counter says: counted by all who will release it, not
\* recycled while one of them is left, and recycled when none is.
EventsAccounted == RefCountIsHolders /\ NoUseAfterFree /\ NoLeak

\* A push answers, and a pop returns, what a bounded double-ended queue does.
Deque == INSTANCE EventQueueAbs
           WITH items <- Contents(queue), answer <- rc

RefinesDeque == Deque!Spec

=============================================================================
