-------------------------------- MODULE Dpp --------------------------------
(***************************************************************************)
(* The dining philosophers of apps/examples/dpp: a table and philosophers, *)
(* each an active object with a state machine.  A handler is one action: a *)
(* handler runs to completion, and what it sends to several queues could   *)
(* as well arrive there at once, since no two objects send to the same one *)
(* of these queues in a way that the receiver can tell apart.              *)
(*                                                                         *)
(* Time: a tick finds every queue empty, as it does when the handlers take *)
(* less than the 20 ticks of a timer.  Timers that expire in the same tick *)
(* are fired one at a time, interleaved with the handlers.                 *)
(***************************************************************************)
EXTENDS Mailboxes, FiniteSets

CONSTANTS N,           \* PHILO_NUM
          NSessions,   \* sessions the table is created for
          NoPhilo

Philo == 0 .. N - 1
Table == N

VARIABLES state,      \* the active state of every state machine
          queue,
          running,
          philo,      \* the table's record of the philosophers
          nsessions,
          nstops,
          timer,      \* the timeout event of a philosopher
          fired       \* whose event the ticker took and has not posted yet

vars == <<state, queue, running, philo, nsessions, nstops, timer, fired>>
unticked == <<timer, fired>>

Left(p) == IF p = 0 THEN N - 1 ELSE p - 1
Right(p) == IF p = N - 1 THEN 0 ELSE p + 1

Event(id, p) == [id |-> id, philo |-> p]
Stop == Event("STOP", NoPhilo)
Stopped == Event("STOPPED", NoPhilo)

QueueSize == 2 * N

\* A philosopher, and the table, after their initial transitions.
NewPhilo == [state |-> "thinking", subscribes |-> {"EAT", "STOP"}]
NewTable == [state |-> "serving", subscribes |-> {"DONE"}]
New(a) == IF a = Table THEN NewTable ELSE NewPhilo

\* am_ao_publish goes to the active objects that run and subscribed.
Subscribers(id) == {a \in running : id \in New(a).subscribes}

Init ==
  /\ state = [a \in Philo \cup {Table} |-> New(a).state]
  /\ queue = [a \in Philo \cup {Table} |-> <<>>]
  /\ running = Philo \cup {Table}
  /\ philo = [p \in Philo |-> "done"]
  /\ nsessions = NSessions /\ nstops = 0
  /\ timer = [p \in Philo |-> "armed"]
  /\ fired = NoPhilo

-----------------------------------------------------------------------------
(* Philosophers *)

\* Mutant: the philosopher eats whoever is served.
CanEatAnyone(p) == Head(queue[p]).philo # NoPhilo

\* The EAT is for this philosopher.
IsServed(p) == Head(queue[p]).philo = p

Handles(a, id) == a \in running /\ Receives(queue, a, id)

PhiloThinking(p) ==
  /\ state[p] = "thinking" /\ Handles(p, "TIMEOUT")
  /\ queue' = Send(Take(queue, p), {Table}, <<Event("HUNGRY", p)>>)
  /\ state' = [state EXCEPT ![p] = "hungry"]
  /\ UNCHANGED <<running, philo, nsessions, nstops, timer, fired>>

PhiloHungry(p) ==
  /\ state[p] = "hungry" /\ Handles(p, "EAT") /\ IsServed(p)
  /\ queue' = Take(queue, p)
  /\ state' = [state EXCEPT ![p] = "eating"]
  /\ timer' = [timer EXCEPT ![p] = "armed"]
  /\ UNCHANGED <<running, philo, nsessions, nstops, fired>>

PhiloEating(p) ==
  /\ state[p] = "eating" /\ Handles(p, "TIMEOUT")
  /\ queue' = Send(Take(queue, p), Subscribers("DONE"), <<Event("DONE", p)>>)
  /\ state' = [state EXCEPT ![p] = "thinking"]
  /\ timer' = [timer EXCEPT ![p] = "armed"]
  /\ UNCHANGED <<running, philo, nsessions, nstops, fired>>

\* Mutant: the philosopher stops without telling the table.
PhiloTopSilent(p) ==
  /\ Handles(p, "STOP")
  /\ timer' = [timer EXCEPT ![p] = "idle"]
  /\ queue' = Take(queue, p)
  /\ running' = running \ {p}
  /\ UNCHANGED <<state, philo, nsessions, nstops, fired>>

PhiloTop(p) ==
  /\ Handles(p, "STOP")
  /\ timer' = [timer EXCEPT ![p] = "idle"]
  /\ queue' = Send(Take(queue, p), {Table}, <<Stopped>>)
  /\ running' = running \ {p}
  /\ UNCHANGED <<state, philo, nsessions, nstops, fired>>

\* Every other event is passed up to am_hsm_top, which ignores it.
PhiloIgnores(p) ==
  /\ \/ Handles(p, "EAT") /\ ~(state[p] = "hungry" /\ IsServed(p))
     \/ Handles(p, "TIMEOUT") /\ state[p] = "hungry"
  /\ queue' = Take(queue, p)
  /\ UNCHANGED <<state, running, philo, nsessions, nstops, timer, fired>>

-----------------------------------------------------------------------------
(* The table *)

\* Mutant: the right neighbour is forgotten.
CanServeLeftOnly(mark, p) == mark[Left(p)] # "eating"

TableCanServe(mark, p) == mark[Left(p)] # "eating" /\ mark[Right(p)] # "eating"

\* p is served if it is hungry and can be: an EAT or nothing.
ServeIfHungry(mark, p) ==
  IF mark[p] = "hungry" /\ TableCanServe(mark, p) THEN <<Event("EAT", p)>> ELSE <<>>

Marked(mark, served) ==
  [p \in Philo |-> IF \E i \in DOMAIN served : served[i].philo = p
                   THEN "eating" ELSE mark[p]]

\* The end of both handlers of table_serving: the events served are published,
\* and the table stops everybody when it has no sessions left.
Serve(mark, served, mayEnd) ==
  LET left == IF Len(served) < nsessions THEN nsessions - Len(served) ELSE 0
      over == mayEnd /\ left = 0
  IN  /\ philo' = Marked(mark, served)
      /\ nsessions' = left
      /\ queue' = Send(Send(Take(queue, Table), Subscribers("EAT"), served),
                       Subscribers("STOP"), IF over THEN <<Stop>> ELSE <<>>)
      /\ state' = [state EXCEPT ![Table] = IF over THEN "stopping" ELSE @]
      /\ UNCHANGED <<running, nstops, unticked>>

ServingHungry(p) ==
  /\ state[Table] = "serving" /\ Handles(Table, "HUNGRY") /\ Head(queue[Table]).philo = p
  /\ IF TableCanServe(philo, p)
       THEN Serve(philo, <<Event("EAT", p)>>, TRUE)
       ELSE Serve([philo EXCEPT ![p] = "hungry"], <<>>, FALSE)

\* The left neighbour first; the right one with the left one perhaps eating.
ServingDone(p) ==
  /\ state[Table] = "serving" /\ Handles(Table, "DONE") /\ Head(queue[Table]).philo = p
  /\ LET mark == [philo EXCEPT ![p] = "done"]
         left == ServeIfHungry(mark, Left(p))
         right == ServeIfHungry(Marked(mark, left), Right(p))
     IN  Serve(mark, left \o right, TRUE)

TableStopping ==
  /\ state[Table] = "stopping" /\ Handles(Table, "STOPPED")
  /\ nstops' = nstops + 1
  /\ running' = IF nstops + 1 = N THEN running \ {Table} ELSE running
  /\ queue' = Take(queue, Table)
  /\ UNCHANGED <<state, philo, nsessions, unticked>>

TableIgnores ==
  /\ state[Table] = "stopping" /\ (Handles(Table, "HUNGRY") \/ Handles(Table, "DONE"))
  /\ queue' = Take(queue, Table)
  /\ UNCHANGED <<state, running, philo, nsessions, nstops, unticked>>

-----------------------------------------------------------------------------
(* The ticker task: ticker_cb over the timer events *)

Trapped == fired # NoPhilo /\ fired \notin running

TickStart(S) ==
  /\ Idle(queue) /\ fired = NoPhilo /\ \A p \in Philo : timer[p] # "due"
  /\ S # {} /\ \A p \in S : timer[p] = "armed"
  /\ timer' = [p \in Philo |-> IF p \in S THEN "due" ELSE timer[p]]
  /\ UNCHANGED <<state, queue, running, philo, nsessions, nstops, fired>>

\* am_timer_tick_iterator_next returns outside of the critical section ...
TickNext(p) ==
  /\ fired = NoPhilo /\ timer[p] = "due"
  /\ timer' = [timer EXCEPT ![p] = "idle"]
  /\ fired' = p
  /\ UNCHANGED <<state, queue, running, philo, nsessions, nstops>>

\* ... and am_ao_post_fifo asserts that the owner still runs.
TickPost ==
  /\ fired # NoPhilo /\ fired \in running
  /\ queue' = Send(queue, {fired}, <<Event("TIMEOUT", NoPhilo)>>)
  /\ fired' = NoPhilo
  /\ UNCHANGED <<state, running, philo, nsessions, nstops, timer>>

PhiloStep(p) ==
  PhiloThinking(p) \/ PhiloHungry(p) \/ PhiloEating(p) \/ PhiloTop(p) \/ PhiloIgnores(p)

TableStep ==
  \/ \E p \in Philo : ServingHungry(p) \/ ServingDone(p)
  \/ TableStopping \/ TableIgnores

TickStep == TickPost \/ \E p \in Philo : TickNext(p)
TickOf(p) == \E S \in SUBSET Philo : p \in S /\ TickStart(S)

\* main has left its loop, or the program was stopped by an assertion.
Ended == running = {} \/ Trapped

Next ==
  \/ ~Trapped /\ (TableStep \/ TickStep \/ \E p \in Philo : PhiloStep(p) \/ TickOf(p))
  \/ Ended /\ UNCHANGED vars

\* Tasks run, the ticker ticks, and a timer that is armed expires: 20 ticks pass.
Fairness ==
  /\ WF_vars(~Trapped /\ TableStep)
  /\ \A p \in Philo : WF_vars(~Trapped /\ PhiloStep(p))
  /\ WF_vars(~Trapped /\ TickStep)
  /\ \A p \in Philo : SF_vars(TickOf(p))

Spec == Init /\ [][Next]_vars /\ Fairness

-----------------------------------------------------------------------------
TypeOK ==
  /\ state \in [Philo \cup {Table} ->
                  {"thinking", "hungry", "eating", "serving", "stopping"}]
  /\ running \subseteq Philo \cup {Table}
  /\ philo \in [Philo -> {"done", "hungry", "eating"}]
  /\ nsessions \in 0 .. NSessions /\ nstops \in 0 .. N
  /\ timer \in [Philo -> {"idle", "armed", "due"}]
  /\ fired \in Philo \cup {NoPhilo}

\* Philosophers that sit side by side never eat at the same time, although the
\* table decides by a record that lags behind their states.
ForksExclusive == \A p \in Philo : ~(state[p] = "eating" /\ state[Right(p)] = "eating")

\* The assertions of the table, a hungry philosopher is not hungry already and one
\* that is done was eating; no queue overflows; and the table, to which they post, runs
\* as long as any philosopher.  That the ticker posts to objects that run is not so,
\* see TickerFindsRunning.
DppAsserts ==
  /\ running \cap Philo # {} => Table \in running
  /\ \A a \in Philo \cup {Table} : Len(queue[a]) <= QueueSize
  /\ \A p \in Philo :
       state[Table] = "serving" /\ queue[Table] # <<>> =>
         /\ Head(queue[Table]) = Event("HUNGRY", p) => philo[p] # "hungry"
         /\ Head(queue[Table]) = Event("DONE", p) => philo[p] = "eating"

\* All sessions are served and every object stops, the table last, unless the ticker
\* fails the assertion below.
AllStop == <>Ended

\* The ticker posts to active objects that run (AM_ASSERT of am_ao_post_fifo_x).  It
\* is refuted: a philosopher may stop between TickNext and TickPost.
TickerFindsRunning == ~Trapped

=============================================================================
