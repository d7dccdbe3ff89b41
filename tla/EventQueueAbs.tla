----------------------------- MODULE EventQueueAbs -----------------------------
(***************************************************************************)
(* What an am_event_queue promises its callers (libs/event/event_queue.h): *)
(* a double-ended queue of at most Capacity events, which accepts an event *)
(* at either end if more than `margin` slots are free and says whether it  *)
(* was empty, and which gives its events out from the front.               *)
(***************************************************************************)
EXTENDS Integers, Sequences

CONSTANTS Event, Capacity

VARIABLES items, answer

Init == items = <<>> /\ answer = "none"

PutAnswer == IF items = <<>> THEN "was_empty" ELSE "ok"

PutBack ==
  \E e \in Event :
    /\ Len(items) < Capacity
    /\ items' = Append(items, e)
    /\ answer' = PutAnswer

PutFront ==
  \E e \in Event :
    /\ Len(items) < Capacity
    /\ items' = <<e>> \o items
    /\ answer' = PutAnswer

\* Every margin is below the capacity: an empty queue never refuses.
Refuse ==
  /\ items # <<>>
  /\ answer' = "err"
  /\ UNCHANGED items

Take ==
  /\ items # <<>>
  /\ items' = Tail(items)
  /\ UNCHANGED answer

Next == PutBack \/ PutFront \/ Refuse \/ Take

Spec == Init /\ [][Next]_<<items, answer>>
=============================================================================
