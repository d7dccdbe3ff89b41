----------------------------- MODULE Mailboxes -----------------------------
(***************************************************************************)
(* Active objects as an application sees them: each object has a queue and *)
(* handles one event at a time.  That posts from several tasks end up in   *)
(* such a queue, and that each of them is handled, is the subject of       *)
(* modules EventQueue and AoPreemptive.                                    *)
(***************************************************************************)
EXTENDS Integers, Sequences

\* am_ao_post_fifo to one object, or am_ao_publish to the subscribers S, of the
\* events es one after the other.
Send(queue, S, es) ==
  [a \in DOMAIN queue |-> IF a \in S THEN queue[a] \o es ELSE queue[a]]

\* The queue that is left when a handles its first event.
Take(queue, a) == [queue EXCEPT ![a] = Tail(@)]

\* The task of a finds an event with this id.
Receives(queue, a, id) == queue[a] # <<>> /\ Head(queue[a]).id = id

Idle(queue) == \A a \in DOMAIN queue : queue[a] = <<>>

=============================================================================
