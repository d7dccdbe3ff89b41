------------------------------ MODULE Examples ------------------------------
(***************************************************************************)
(* Model checking of the applications in apps/examples: one of them runs,  *)
(* the others stay as they start.                                          *)
(***************************************************************************)
EXTENDS RingUsers

CONSTANTS
  Apps,
  NPhilo, NSessions,                    \* dpp
  NSmokers, IdModulus,                  \* smokers
  NCpus, WorkerQueue,                   \* workers
  FeedTicks, BarkTicks, Lag,            \* watchdog
  CoroQueue,                            \* coro
  Rounds, Timeout                       \* sync

\* Neighbours are others, there are three resources, the watchdog waits longer than
\* one feed and not for two (watchdog/main.c: 1100 and 1000), the light's queue has
\* two slots, and None is no number.
ASSUME AppsAssumption ==
  /\ NPhilo \in Nat \ {0, 1} /\ NCpus \in Nat
  /\ NSmokers = 3 /\ IdModulus \in Nat \ {0, 1}
  /\ FeedTicks \in Nat \ {0} /\ BarkTicks \in FeedTicks + 1 .. 2 * FeedTicks /\ Lag \in Nat
  /\ CoroQueue \in Nat \ {0, 1}
  /\ Rounds \in Nat /\ Timeout \in Nat \ {0}
  /\ None \notin Nat

VARIABLES
  app,
  dState, dQueue, dRunning, philo, nsessions, dStops, dTimer, dFired,
  sState, sQueue, sRunning, acquired, idSeen, resourceId, sStops, sTimer, sFired,
  kQueue, kRunning, stopping, kStops, timeout,
  wQueue, wLeft, due, wFired, age, feedsNum, barked,
  cState, coro, coro_blinking_green, cQueue, armed, cFired, entered, cRunning, trapped,
  job_pend, rounds, yLeft, yAsked, yPc,
  child, job, fQueue, exited, rc

D == INSTANCE Dpp WITH
       N <- NPhilo, NoPhilo <- None, state <- dState, queue <- dQueue,
       running <- dRunning, nstops <- dStops, timer <- dTimer, fired <- dFired
S == INSTANCE Smokers WITH
       Nobody <- None, state <- sState, queue <- sQueue,
       running <- sRunning, nstops <- sStops, timer <- sTimer, fired <- sFired
K == INSTANCE Workers WITH queue <- kQueue, running <- kRunning, nstops <- kStops
W == INSTANCE Watchdog WITH queue <- wQueue, left <- wLeft, fired <- wFired
C == INSTANCE Coro WITH
       QueueSize <- CoroQueue, state <- cState, queue <- cQueue, fired <- cFired,
       running <- cRunning
Y == INSTANCE Sync WITH left <- yLeft, asked <- yAsked, pc <- yPc
F == INSTANCE Fork WITH queue <- fQueue

AppsInit ==
  /\ app \in Apps
  /\ AppInit /\ D!Init /\ S!Init /\ K!Init /\ W!Init /\ C!Init /\ Y!Init /\ F!Init

dVars == <<dState, dQueue, dRunning, philo, nsessions, dStops, dTimer, dFired>>
sVars ==
  <<sState, sQueue, sRunning, acquired, idSeen, resourceId, sStops, sTimer, sFired>>
kVars == <<kQueue, kRunning, stopping, kStops, timeout>>
wVars == <<wQueue, wLeft, due, wFired, age, feedsNum, barked>>
cVars ==
  <<cState, coro, coro_blinking_green, cQueue, armed, cFired, entered, cRunning, trapped>>
yVars == <<job_pend, rounds, yLeft, yAsked, yPc>>
fVars == <<child, job, fQueue, exited, rc>>

AppsVars == <<app, allVars, dVars, sVars, kVars, wVars, cVars, yVars, fVars>>

AppsNext ==
  /\ UNCHANGED app
  /\ \/ /\ app = "ringbuf" /\ AppNext
        /\ UNCHANGED <<dVars, sVars, kVars, wVars, cVars, yVars, fVars>>
     \/ /\ app = "dpp" /\ D!Next
        /\ UNCHANGED <<allVars, sVars, kVars, wVars, cVars, yVars, fVars>>
     \/ /\ app = "smokers" /\ S!Next
        /\ UNCHANGED <<allVars, dVars, kVars, wVars, cVars, yVars, fVars>>
     \/ /\ app = "workers" /\ K!Next
        /\ UNCHANGED <<allVars, dVars, sVars, wVars, cVars, yVars, fVars>>
     \/ /\ app = "watchdog" /\ W!Next
        /\ UNCHANGED <<allVars, dVars, sVars, kVars, cVars, yVars, fVars>>
     \/ /\ app = "coro" /\ C!Next
        /\ UNCHANGED <<allVars, dVars, sVars, kVars, wVars, yVars, fVars>>
     \/ /\ app = "sync" /\ Y!Next
        /\ UNCHANGED <<allVars, dVars, sVars, kVars, wVars, cVars, fVars>>
     \/ /\ app = "fork" /\ F!Next
        /\ UNCHANGED <<allVars, dVars, sVars, kVars, wVars, cVars, yVars>>

\* The fairness that each module asks for, of the application that runs.
AppsFairness ==
  /\ WF_allVars(app = "ringbuf" /\ WriterTurn) /\ WF_allVars(app = "ringbuf" /\ ReaderTurn)
  /\ WF_dVars(app = "dpp" /\ ~D!Trapped /\ D!TableStep)
  /\ WF_dVars(app = "dpp" /\ ~D!Trapped /\ D!TickStep)
  /\ \A p \in D!Philo :
       /\ WF_dVars(app = "dpp" /\ ~D!Trapped /\ D!PhiloStep(p))
       /\ SF_dVars(app = "dpp" /\ D!TickOf(p))
  /\ WF_sVars(app = "smokers" /\ ~S!Trapped /\ S!AgentStep)
  /\ WF_sVars(app = "smokers" /\ ~S!Trapped /\ S!TickStep)
  /\ \A s \in S!Smoker : WF_sVars(app = "smokers" /\ ~S!Trapped /\ S!SmokerStep(s))
  /\ \A a \in S!Object : SF_sVars(app = "smokers" /\ S!TickOf(a))
  /\ \A k \in K!Worker : WF_kVars(app = "workers" /\ K!WorkerStep(k))
  /\ WF_kVars(app = "workers" /\ K!BalancerStep) /\ WF_kVars(app = "workers" /\ K!Tick)
  /\ WF_wVars(app = "watchdog" /\ W!Step)
  /\ WF_yVars(app = "sync" /\ Y!Iterate)
  /\ WF_fVars(app = "fork" /\ F!JobStep) /\ WF_fVars(app = "fork" /\ F!ChildStep)
  /\ WF_fVars(app = "fork" /\ F!ProgressEnds)

AppsSpec == AppsInit /\ [][AppsNext]_AppsVars /\ AppsFairness

-----------------------------------------------------------------------------
\* What is exclusive stays so although those who decide know the others by events
\* only: neighbours never eat at the same time (table.c), one smoker smokes in each
\* round and no round is lost (smokers/main.c), a job and its report are one token,
\* so that each worker that runs has one (workers/main.c), and a job is pending
\* exactly while low's timer runs (sync/low.c).
Exclusive ==
  /\ D!ForksExclusive /\ S!OneSmokes
  /\ K!OneJobEach /\ Y!OneJobPending

\* What the applications assert or rely on: the table's record of a philosopher is
\* what its handlers expect, jobs go to workers that run, those who count the stops
\* are the last to stop, the reader of the ring buffer finds the bytes that were
\* written, and the program that runs another one returns 0 exactly for the status 0,
\* although it publishes a success behind every failure.  The queues of dpp and
\* smokers do not overflow, nor do those of workers on 32 processors or less (two
\* slots of the balancer for each).  Left out is what fails: the ticker of dpp, smokers
\* and coro may post to an object that stopped (Trapped), and main.c of fork promises
\* -1 for a program that cannot be started (ReportsOutcome).
AssertsHold ==
  /\ D!DppAsserts
  /\ S!QueuesFit /\ S!AgentLast
  /\ K!QueuesFit /\ K!JobsForRunning
  /\ PiecesMatch
  /\ F!ReportsStatus

\* Timers and those they wake do not lose each other: the watchdog barks at a
\* task that stopped feeding and at no other (watchdog/main.c), and the traffic
\* light always has a timer or an event to go on (coro/main.c).
TimersServe == W!NoFalseAlarm /\ C!LightRuns

\* Each application comes to its end: the tasks of ringbuf do not wait for each
\* other for good, the objects of workers all stop, and so do those of dpp and smokers
\* unless the assertion on the ticker's post has stopped the program (Trapped); the
\* watchdog notices that it is not fed, sync does its rounds and fork ends with its
\* child.
Finished ==
  /\ app = "ringbuf" => ~Running
  /\ app = "dpp" => D!Ended
  /\ app = "smokers" => S!Ended
  /\ app = "workers" => K!Ended
  /\ app = "watchdog" => barked
  /\ app = "sync" => rounds = 0
  /\ app = "fork" => exited
AppsEnd == []<>Finished

=============================================================================
