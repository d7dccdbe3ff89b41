----------------------------- MODULE EventDeque -----------------------------
(***************************************************************************)
(* An am_event_queue (libs/event/event_queue.c) as the sequence of its     *)
(* events, front first, for the modules in which several queues interact.  *)
(* That the ring buffer behaves like this sequence is theorem Refinement   *)
(* of module EventQueueProofs.                                             *)
(***************************************************************************)
EXTENDS Integers, Sequences

CONSTANT Capacity    \* slots of a queue

ASSUME CapacityAssumption == Capacity \in Nat \ {0}

\* Mutant: margin zero no longer refuses.
NoRoomOffByOne(q, margin) == Capacity - Len(q) < margin

\* am_event_queue_push_unsafe refuses the push.
NoRoom(q, margin) == Capacity - Len(q) <= margin

\* The push itself, to the front or to the back.
Put(q, e, lifo) == IF lifo THEN <<e>> \o q ELSE Append(q, e)

\* What the push answers when it accepts: AM_RC_QUEUE_WAS_EMPTY.
WasEmpty(q) == q = <<>>

Queues(Event) == UNION {[1 .. n -> Event] : n \in 0 .. Capacity}

=============================================================================
