------------------------------ MODULE Workers ------------------------------
(***************************************************************************)
(* The load balancer of apps/examples/workers.  Every worker has one job   *)
(* at a time: it reports the end of a job and is sent the next one.  The   *)
(* timeout of the balancer comes at any time.  The work itself and the     *)
(* statistics are left out.                                                *)
(***************************************************************************)
EXTENDS Mailboxes, FiniteSets

CONSTANTS NCpus,             \* workers that are started
          WorkerQueue        \* 2 slots

Worker == 0 .. NCpus - 1
Balancer == NCpus
Object == Worker \cup {Balancer}

VARIABLES queue, running,
          stopping,     \* the balancer's state
          nstops,
          timeout       \* the timeout event: "armed", "fired" or "posted"

vars == <<queue, running, stopping, nstops, timeout>>

Event(id, w) == [id |-> id, worker |-> w]
Signal(id) == Event(id, Balancer)

\* A worker, and the balancer, after their initial transitions.
NewWorker == [queue |-> <<>>, subscribes |-> {"JOB_REQ", "STOP"}]
NewBalancer == [queue |-> <<Signal("START")>>, subscribes |-> {"JOB_DONE", "STOPPED"}]
New(a) == IF a = Balancer THEN NewBalancer ELSE NewWorker

Init ==
  /\ queue = [a \in Object |-> New(a).queue]
  /\ running = Object
  /\ stopping = FALSE /\ nstops = 0 /\ timeout = "armed"

Handles(a, id) == a \in running /\ Receives(queue, a, id)

\* a takes its event and publishes e to those who subscribed to it.
Publish(a, e) ==
  queue' = Send(Take(queue, a), {b \in running : e.id \in New(b).subscribes}, <<e>>)

-----------------------------------------------------------------------------
WorkerProc(w) ==
  /\ Handles(w, "JOB_REQ")
  /\ Publish(w, Event("JOB_DONE", w))
  /\ UNCHANGED <<running, stopping, nstops, timeout>>

WorkerStop(w) ==
  /\ Handles(w, "STOP")
  /\ Publish(w, Signal("STOPPED"))
  /\ running' = running \ {w}
  /\ UNCHANGED <<stopping, nstops, timeout>>

\* am_ao_publish_exclude: every worker gets the first job.
BalancerStart ==
  /\ ~stopping /\ Handles(Balancer, "START")
  /\ Publish(Balancer, Signal("JOB_REQ"))
  /\ UNCHANGED <<running, stopping, nstops, timeout>>

\* Mutant: the next job is published, as the first one was.
BalancerDonePublishes(w) ==
  /\ ~stopping /\ Handles(Balancer, "JOB_DONE") /\ Head(queue[Balancer]).worker = w
  /\ Publish(Balancer, Signal("JOB_REQ"))
  /\ UNCHANGED <<running, stopping, nstops, timeout>>

BalancerDone(w) ==
  /\ ~stopping /\ Handles(Balancer, "JOB_DONE") /\ Head(queue[Balancer]).worker = w
  /\ queue' = Send(Take(queue, Balancer), {w}, <<Signal("JOB_REQ")>>)
  /\ UNCHANGED <<running, stopping, nstops, timeout>>

BalancerTimeout ==
  /\ ~stopping /\ Handles(Balancer, "TIMEOUT")
  /\ Publish(Balancer, Signal("STOP"))
  /\ stopping' = TRUE
  /\ UNCHANGED <<running, nstops, timeout>>

BalancerStopping ==
  /\ stopping /\ Handles(Balancer, "STOPPED")
  /\ nstops' = nstops + 1
  /\ running' = IF nstops + 1 = NCpus THEN running \ {Balancer} ELSE running
  /\ queue' = Take(queue, Balancer)
  /\ UNCHANGED <<stopping, timeout>>

\* balancer_stopping passes these on to am_hsm_top.
BalancerIgnores ==
  /\ stopping /\ (Handles(Balancer, "JOB_DONE") \/ Handles(Balancer, "START"))
  /\ queue' = Take(queue, Balancer)
  /\ UNCHANGED <<running, stopping, nstops, timeout>>

\* ticker_cb: the event is taken from the list and posted in two steps.
Tick ==
  /\ \/ timeout = "armed" /\ timeout' = "fired" /\ UNCHANGED queue
     \/ /\ timeout = "fired" /\ timeout' = "posted"
        /\ queue' = Send(queue, {Balancer}, <<Signal("TIMEOUT")>>)
  /\ UNCHANGED <<running, stopping, nstops>>

WorkerStep(w) == WorkerProc(w) \/ WorkerStop(w)
BalancerStep ==
  \/ BalancerStart \/ BalancerTimeout \/ BalancerStopping \/ BalancerIgnores
  \/ \E w \in Worker : BalancerDone(w)

Ended == running = {}

Next ==
  \/ \E w \in Worker : WorkerStep(w)
  \/ BalancerStep
  \/ Tick
  \/ Ended /\ UNCHANGED vars

Fairness ==
  /\ \A w \in Worker : WF_vars(WorkerStep(w))
  /\ WF_vars(BalancerStep) /\ WF_vars(Tick)

Spec == Init /\ [][Next]_vars /\ Fairness

-----------------------------------------------------------------------------
TypeOK ==
  /\ running \subseteq Object /\ stopping \in BOOLEAN /\ nstops \in 0 .. NCpus
  /\ timeout \in {"armed", "fired", "posted"}

\* A job and its report are one token: a worker that runs has at most one of
\* them, and has one as long as the balancer hands out jobs.
Places(a, e) == {i \in DOMAIN queue[a] : queue[a][i] = e}
Jobs(w) == Cardinality(Places(w, Signal("JOB_REQ")))
             + Cardinality(Places(Balancer, Event("JOB_DONE", w)))
Started == \A i \in DOMAIN queue[Balancer] : queue[Balancer][i].id # "START"
OneJobEach ==
  \A w \in Worker : Jobs(w) <= 1 /\ (~stopping /\ Started => Jobs(w) = 1)

\* A job, and the event that stops the worker, fit in the two slots of a worker.  The
\* balancer has to have room for a report and the last word of every worker: the 64
\* slots that main gives it (AM_WORKERS_NUM_MAX) are enough up to 32 workers, and not
\* for more of them, of which main starts up to 63.
QueuesFit ==
  /\ \A w \in Worker : Len(queue[w]) <= WorkerQueue
  /\ Len(queue[Balancer]) <= 2 * NCpus

\* Jobs are for workers that run, and everybody stops, the balancer last.
JobsForRunning == ~stopping => running = Object
AllStop == <>Ended

=============================================================================
