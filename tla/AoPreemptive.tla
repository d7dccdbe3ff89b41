----------------------------- MODULE AoPreemptive -----------------------------
(***************************************************************************)
(* Active objects with a task each (libs/ao/preemptive/port.c, with        *)
(* libs/ao/ao.c, libs/event/event_async.c, and the tasks, notifications    *)
(* and startup gate of libs/pal/posix/pal.c).                              *)
(*                                                                         *)
(* The main task runs the loop of the tests and examples:                  *)
(*   am_ao_init, am_ao_start; while (am_ao_get_cnt() > 0) am_ao_run_all(); *)
(* and may go through it again, as libs/ao/tests/stop.c does.  Posters are *)
(* any other threads or interrupts that post and publish.  An action is a  *)
(* critical section, one access to an atomic variable, or a blocking call; *)
(* reference counts are in modules EventQueue and EventAsync.              *)
(***************************************************************************)
EXTENDS EventDeque, FiniteSets

CONSTANTS
  AO,           \* active objects, each named by the priority it is started with
  NTasks,       \* task descriptors of the PAL
  Main,         \* the main task, AM_TASK_ID_MAIN
  Poster,       \* other threads
  Event, Stop,  \* all events, and those on which an active object stops itself
  Dynamic,      \* the events from a pool
  NoEvent,      \* NULL
  Boot,         \* what an init handler posts to its own active object
  Subscriber,   \* active objects that subscribe in their init handler
  Margins,      \* margins of posts other than those of stop events
  Posted,       \* what posters post; they wait for the start, let an active object
                \* be once one of them told it to stop, and tell it when none of
                \* them is posting or publishing to it
  Published,    \* what they publish, under the same conditions
  Rounds        \* how often main starts the active objects

Task == 1 .. NTasks
NoTask == 0                  \* AM_TASK_ID_NONE

ASSUME AoPreemptiveAssumption ==
  /\ AO \subseteq Nat \ {0} /\ NTasks \in Nat \ {0}
  /\ Main \notin Poster \cup Task /\ Poster \cap Task = {}
  /\ Stop \subseteq Event /\ Dynamic \subseteq Event
  /\ Boot \subseteq Event \ Stop /\ NoEvent \notin Event
  /\ Subscriber \subseteq AO
  /\ Margins \subseteq 0 .. Capacity - 1
  /\ Posted \subseteq Event /\ Published \subseteq Event \ Stop
  /\ Rounds \in Nat \ {0}

VARIABLES
  queue, valid, running, taskId, prio,  \* struct am_ao
  registered, sub,                      \* handlers with an fn, subscribers
  aos, cnt, initDone,                   \* struct am_ao_state
  created, notified, initComplete, gate,\* the PAL
  arg, waitOn, cur,                     \* locals of a task: ao, task_id, event
  pc,
  toStart, round,                       \* locals of main
  post,                                 \* what a poster is about to post
  todo,                                 \* subscribers its publish has not reached
  told,                                 \* who was posted a stop event
  failed                                \* which AM_ASSERT failed

aoVars   == <<queue, valid, running, taskId, prio>>
regVars  == <<registered, sub>>
cntVars  == <<aos, cnt, initDone>>
palVars  == <<created, notified, initComplete, gate>>
taskVars == <<arg, waitOn, cur>>
mainVars == <<toStart, round>>
postVars == <<post, todo, told>>
vars == <<aoVars, regVars, cntVars, palVars, taskVars, pc, mainVars, postVars,
          failed>>

NoPost == [dest |-> 0, event |-> NoEvent, margin |-> 0]

Init ==
  /\ queue = [a \in AO |-> <<>>] /\ valid = [a \in AO |-> FALSE]
  /\ running = [a \in AO |-> FALSE] /\ taskId = [a \in AO |-> NoTask]
  /\ prio = [a \in AO |-> 0]
  /\ registered = {} /\ sub = {}
  /\ aos = {} /\ cnt = 0 /\ initDone = FALSE
  /\ created = {} /\ notified = {} /\ initComplete = {} /\ gate = FALSE
  /\ arg = [k \in Task |-> 0] /\ waitOn = [k \in Task |-> k]
  /\ cur = [k \in Task |-> NoEvent]
  /\ pc = [x \in Task \cup Poster \cup {Main} |->
             IF x = Main THEN "init" ELSE IF x \in Task THEN "none" ELSE "idle"]
  /\ toStart = AO /\ round = 1
  /\ post = [p \in Poster |-> NoPost] /\ todo = [p \in Poster |-> {}]
  /\ told = {}
  /\ failed = "none"

Goto(x, label) == pc' = [pc EXCEPT ![x] = label]
Require(ok, name) == failed' = IF ok THEN failed ELSE name

-----------------------------------------------------------------------------
(* handler->fn: am_ao_event_handler_unsafe inside a critical section       *)

\* Mutant: the push that fills the queue notifies, not the one into an empty one.
NotifyOnFull(b) == notified' = notified \cup
  (IF Len(queue[b]) + 1 = Capacity /\ taskId[b] # NoTask THEN {taskId[b]} ELSE {})

\* am_ao_notify_unsafe after AM_RC_QUEUE_WAS_EMPTY
NotifyOwner(b) == notified' = notified \cup
  (IF WasEmpty(queue[b]) /\ taskId[b] # NoTask THEN {taskId[b]} ELSE {})

HandlerFn(b, e, margin) ==
  \/ /\ ~running[b]
     /\ failed' = "not_running"
     /\ UNCHANGED <<queue, notified>>
  \/ /\ running[b] /\ NoRoom(queue[b], margin)
     /\ Require(margin > 0, "queue_full")
     /\ UNCHANGED <<queue, notified>>
  \/ /\ running[b] /\ ~NoRoom(queue[b], margin)
     /\ queue' = [queue EXCEPT ![b] = Append(@, e)]
     /\ NotifyOwner(b)
     /\ UNCHANGED failed

-----------------------------------------------------------------------------
(* The main task                                                           *)

Lowest(a, S) == a \in S /\ \A b \in S : a <= b
Highest(a, S) == a \in S /\ \A b \in S : b <= a

\* am_ao_init: memset of the struct.
AoInit(a) ==
  /\ pc[Main] = "init" /\ Lowest(a, toStart)
  /\ queue' = [queue EXCEPT ![a] = <<>>]
  /\ valid' = [valid EXCEPT ![a] = FALSE]
  /\ running' = [running EXCEPT ![a] = FALSE]
  /\ taskId' = [taskId EXCEPT ![a] = NoTask]
  /\ prio' = [prio EXCEPT ![a] = 0]
  /\ Goto(Main, "start")
  /\ UNCHANGED <<regVars, cntVars, palVars, taskVars, mainVars, postVars, failed>>

\* am_ao_start, up to and with am_task_create.  A task descriptor that is used
\* again keeps its notified and init_complete flags.
AoStart(a) ==
  /\ pc[Main] = "start" /\ Lowest(a, toStart)
  /\ \/ /\ a \in aos \/ created = Task
        /\ failed' = IF a \in aos THEN "slot_taken" ELSE "no_task"
        /\ UNCHANGED <<aoVars, cntVars, created, arg, pc, toStart>>
     \/ \E k \in Task \ created :
        /\ a \notin aos /\ Lowest(k, Task \ created)
        /\ queue' = [queue EXCEPT ![a] = <<>>]
        /\ valid' = [valid EXCEPT ![a] = TRUE]
        /\ prio' = [prio EXCEPT ![a] = a]
        /\ aos' = aos \cup {a} /\ cnt' = cnt + 1
        /\ created' = created \cup {k}
        /\ arg' = [arg EXCEPT ![k] = a]
        /\ taskId' = [taskId EXCEPT ![a] = k]
        /\ toStart' = toStart \ {a}
        /\ pc' = [pc EXCEPT ![k] = "running",
                   ![Main] = IF toStart = {a} THEN "loop" ELSE "init"]
        /\ UNCHANGED <<running, initDone, failed>>
  /\ UNCHANGED <<regVars, notified, initComplete, gate, waitOn, cur, round,
                 postVars>>

\* The condition of the loop in main(), am_ao_get_cnt() > 0.
MainLoop ==
  /\ pc[Main] = "loop"
  /\ \/ cnt > 0 /\ Goto(Main, "run_all") /\ UNCHANGED mainVars
     \/ cnt = 0 /\ round < Rounds /\ Goto(Main, "init")
          /\ toStart' = AO /\ round' = round + 1
     \/ cnt = 0 /\ round = Rounds /\ Goto(Main, "done") /\ UNCHANGED mainVars
  /\ UNCHANGED <<aoVars, regVars, cntVars, palVars, taskVars, postVars, failed>>

\* am_ao_run_all: the exchange of init_complete.
RunAll ==
  /\ pc[Main] = "run_all"
  /\ initDone' = TRUE
  /\ Goto(Main, IF initDone THEN "wait_all" ELSE "init_wait")
  /\ UNCHANGED <<aoVars, regVars, aos, cnt, palVars, taskVars, mainVars,
                 postVars, failed>>

\* Mutant: one task that is ready opens the gate.
InitWaitAny ==
  /\ pc[Main] = "init_wait"
  /\ \/ /\ created \cap initComplete # {}
        /\ gate' = TRUE /\ Goto(Main, "wait_all")
     \/ /\ created \cap initComplete = {}
        /\ Goto(Main, "init_sleep") /\ UNCHANGED gate
  /\ UNCHANGED <<aoVars, regVars, cntVars, created, notified, initComplete,
                 taskVars, mainVars, postVars, failed>>

\* am_task_init_wait of the main task: all tasks are ready, or it waits.
InitWait ==
  /\ pc[Main] = "init_wait"
  /\ \/ /\ created \subseteq initComplete
        /\ gate' = TRUE /\ Goto(Main, "wait_all")
     \/ /\ ~(created \subseteq initComplete)
        /\ Goto(Main, "init_sleep") /\ UNCHANGED gate
  /\ UNCHANGED <<aoVars, regVars, cntVars, created, notified, initComplete,
                 taskVars, mainVars, postVars, failed>>

\* am_task_wait(AM_TASK_ID_MAIN), in am_task_init_wait and in am_ao_run_all.
MainWait(from, to) ==
  /\ pc[Main] = from /\ Main \in notified
  /\ notified' = notified \ {Main}
  /\ Goto(Main, to)
  /\ UNCHANGED <<aoVars, regVars, cntVars, created, initComplete, gate,
                 taskVars, mainVars, postVars, failed>>

InitSleep == MainWait("init_sleep", "init_wait")

\* am_ao_run_all returns.
RunAllReturns == MainWait("wait_all", "loop")

-----------------------------------------------------------------------------
(* The task of an active object: am_ao_task_init in thread_entry_wrapper   *)

TaskRunning(k) ==
  /\ pc[k] = "running"
  /\ taskId' = [taskId EXCEPT ![arg[k]] = k]
  /\ running' = [running EXCEPT ![arg[k]] = TRUE]
  /\ Goto(k, "register")
  /\ UNCHANGED <<queue, valid, prio, regVars, cntVars, palVars, taskVars,
                 mainVars, postVars, failed>>

\* am_event_async_register_with_id
TaskRegister(k) ==
  /\ pc[k] = "register"
  /\ Require(prio[arg[k]] \notin registered, "handler_taken")
  /\ registered' = registered \cup {prio[arg[k]]}
  /\ Goto(k, "subscribe")
  /\ UNCHANGED <<aoVars, sub, cntVars, palVars, taskVars, mainVars, postVars>>

\* The user's init handler subscribes ...
TaskSubscribe(k) ==
  /\ pc[k] = "subscribe"
  /\ sub' = IF arg[k] \in Subscriber THEN sub \cup {prio[arg[k]]} ELSE sub
  /\ Goto(k, "boot")
  /\ UNCHANGED <<aoVars, registered, cntVars, palVars, taskVars, mainVars,
                 postVars, failed>>

\* ... and posts to its own active object.
TaskBoot(k) ==
  /\ pc[k] = "boot"
  /\ \/ \E e \in Boot : HandlerFn(arg[k], e, 0)
     \/ Boot = {} /\ UNCHANGED <<queue, notified, failed>>
  /\ Goto(k, "init_done")
  /\ UNCHANGED <<valid, running, taskId, prio, regVars, cntVars, created,
                 initComplete, gate, taskVars, mainVars, postVars>>

\* am_task_init_wait of a task: it is ready, ...
TaskInitDone(k) ==
  /\ pc[k] = "init_done"
  /\ initComplete' = initComplete \cup {k}
  /\ Goto(k, "notify_main")
  /\ UNCHANGED <<aoVars, regVars, cntVars, created, notified, gate, taskVars,
                 mainVars, postVars, failed>>

\* ... tells the main task, ...
TaskNotifyMain(k) ==
  /\ pc[k] = "notify_main"
  /\ notified' = notified \cup {Main}
  /\ Goto(k, "gate")
  /\ UNCHANGED <<aoVars, regVars, cntVars, created, initComplete, gate,
                 taskVars, mainVars, postVars, failed>>

\* ... and passes through the mutex that main holds until all are ready.
TaskGate(k) ==
  /\ pc[k] = "gate" /\ gate
  /\ Goto(k, "loop")
  /\ UNCHANGED <<aoVars, regVars, cntVars, palVars, taskVars, mainVars,
                 postVars, failed>>

-----------------------------------------------------------------------------
(* am_ao_task                                                              *)

TaskLoop(k) ==
  /\ pc[k] = "loop"
  /\ Goto(k, IF running[arg[k]] THEN "check" ELSE "exit")
  /\ UNCHANGED <<aoVars, regVars, cntVars, palVars, taskVars, mainVars,
                 postVars, failed>>

\* am_event_queue_is_empty; am_task_wait is called with ao->task_id, which
\* stands for the calling task when it is AM_TASK_ID_NONE.
TaskCheck(k) ==
  /\ pc[k] = "check"
  /\ Require(valid[arg[k]], "queue_invalid")
  /\ Goto(k, IF queue[arg[k]] = <<>> THEN "wait" ELSE "pop")
  /\ waitOn' = [waitOn EXCEPT
                  ![k] = IF taskId[arg[k]] = NoTask THEN k ELSE taskId[arg[k]]]
  /\ UNCHANGED <<aoVars, regVars, cntVars, palVars, arg, cur, mainVars, postVars>>

\* am_task_wait returns with the notification and clears it.
TaskWait(k) ==
  /\ pc[k] = "wait" /\ waitOn[k] \in notified
  /\ notified' = notified \ {waitOn[k]}
  /\ Goto(k, "check")
  /\ UNCHANGED <<aoVars, regVars, cntVars, created, initComplete, gate,
                 taskVars, mainVars, postVars, failed>>

\* am_event_queue_pop_front; AM_ASSERT(AM_RC_OK == rc) if there is no event.
TaskPop(k) ==
  /\ pc[k] = "pop"
  /\ \/ /\ queue[arg[k]] = <<>>
        /\ failed' = "pop_empty"
        /\ UNCHANGED <<queue, cur, pc>>
     \/ /\ queue[arg[k]] # <<>>
        /\ cur' = [cur EXCEPT ![k] = Head(queue[arg[k]])]
        /\ queue' = [queue EXCEPT ![arg[k]] = Tail(@)]
        /\ Goto(k, "handle")
        /\ UNCHANGED failed
  /\ UNCHANGED <<valid, running, taskId, prio, regVars, cntVars, palVars, arg,
                 waitOn, mainVars, postVars>>

\* The event handler posts to its own active object, ...
HandlePost(k, e, margin) ==
  /\ pc[k] = "handle" /\ cur[k] \notin Stop /\ e \notin Stop
  /\ HandlerFn(arg[k], e, margin)
  /\ Goto(k, "release")
  /\ UNCHANGED <<valid, running, taskId, prio, regVars, cntVars, created,
                 initComplete, gate, taskVars, mainVars, postVars>>

\* ... or only returns.
HandleReturn(k) ==
  /\ pc[k] = "handle" /\ cur[k] \notin Stop
  /\ Goto(k, "release")
  /\ UNCHANGED <<aoVars, regVars, cntVars, palVars, taskVars, mainVars,
                 postVars, failed>>

\* am_event_free after the handler; a queue that was deinitialised has no
\* allocator any more.
TaskRelease(k) ==
  /\ pc[k] = "release"
  /\ Require(cur[k] \in Dynamic => valid[arg[k]], "no_alloc")
  /\ cur' = [cur EXCEPT ![k] = NoEvent]
  /\ Goto(k, "loop")
  /\ UNCHANGED <<aoVars, regVars, cntVars, palVars, arg, waitOn, mainVars,
                 postVars>>

\* The end of thread_entry_wrapper.
TaskExit(k) ==
  /\ pc[k] = "exit"
  /\ created' = created \ {k}
  /\ Goto(k, "none")
  /\ UNCHANGED <<aoVars, regVars, cntVars, notified, initComplete, gate,
                 taskVars, mainVars, postVars, failed>>

-----------------------------------------------------------------------------
(* am_ao_stop, called by the event handler                                 *)

\* am_ao_unsubscribe_all
StopUnsubscribe(k) ==
  /\ pc[k] = "handle" /\ cur[k] \in Stop
  /\ sub' = sub \ {prio[arg[k]]}
  /\ Goto(k, "stop_flush")
  /\ UNCHANGED <<aoVars, registered, cntVars, palVars, taskVars, mainVars,
                 postVars, failed>>

\* The critical section: flush and deinit of the queue, and running = false.
StopFlush(k) ==
  /\ pc[k] = "stop_flush"
  /\ queue' = [queue EXCEPT ![arg[k]] = <<>>]
  /\ valid' = [valid EXCEPT ![arg[k]] = FALSE]
  /\ aos' = aos \ {prio[arg[k]]}
  /\ cnt' = cnt - 1
  /\ running' = [running EXCEPT ![arg[k]] = FALSE]
  /\ Goto(k, "stop_unregister")
  /\ UNCHANGED <<taskId, prio, regVars, initDone, palVars, taskVars, mainVars,
                 postVars, failed>>

\* am_event_async_unregister(ao->prio.ao), after the critical section
StopUnregister(k) ==
  /\ pc[k] = "stop_unregister"
  /\ Require(prio[arg[k]] \in registered, "not_registered")
  /\ registered' = registered \ {prio[arg[k]]}
  /\ sub' = sub \ {prio[arg[k]]}
  /\ Goto(k, "stop_notify")
  /\ UNCHANGED <<aoVars, cntVars, palVars, taskVars, mainVars, postVars>>

\* Mutant: the counter is compared with its value before the decrement.
StopNotifyNever(k) ==
  /\ pc[k] = "stop_notify"
  /\ notified' = IF cnt = 1 THEN notified \cup {Main} ELSE notified
  /\ Goto(k, "release")
  /\ UNCHANGED <<aoVars, regVars, cntVars, created, initComplete, gate,
                 taskVars, mainVars, postVars, failed>>

StopNotify(k) ==
  /\ pc[k] = "stop_notify"
  /\ notified' = IF cnt = 0 THEN notified \cup {Main} ELSE notified
  /\ Goto(k, "release")
  /\ UNCHANGED <<aoVars, regVars, cntVars, created, initComplete, gate,
                 taskVars, mainVars, postVars, failed>>

-----------------------------------------------------------------------------
(* Other threads                                                           *)

\* No poster is about to post or to deliver to b.
Unposted(b) == \A q \in Poster : post[q].dest # b /\ b \notin todo[q]

\* am_ao_post_fifo_x up to its check of ao->running.
PostCheck(p, b, e, margin) ==
  /\ pc[p] = "idle" /\ running[b]
  /\ gate /\ b \notin told
  /\ e \in Stop => Unposted(b)
  /\ post' = [post EXCEPT ![p] = [dest |-> b, event |-> e, margin |-> margin]]
  /\ told' = IF e \in Stop THEN told \cup {b} ELSE told
  /\ Goto(p, "push")
  /\ UNCHANGED <<aoVars, regVars, cntVars, palVars, taskVars, mainVars, todo,
                 failed>>

\* am_event_async_post
PostPush(p) ==
  /\ pc[p] = "push"
  /\ \/ /\ post[p].dest \notin registered
        /\ failed' = "handler_gone"
        /\ UNCHANGED <<queue, notified>>
     \/ /\ post[p].dest \in registered
        /\ HandlerFn(post[p].dest, post[p].event, post[p].margin)
  /\ post' = [post EXCEPT ![p] = NoPost]
  /\ Goto(p, "idle")
  /\ UNCHANGED <<valid, running, taskId, prio, regVars, cntVars, created,
                 initComplete, gate, taskVars, mainVars, todo, told>>

\* am_event_async_publish takes its copy of the subscriber list ...
PublishSnapshot(p, e, margin) ==
  /\ pc[p] = "idle"
  /\ gate /\ told = {}
  /\ todo' = [todo EXCEPT ![p] = sub]
  /\ post' = [post EXCEPT ![p] = [dest |-> 0, event |-> e, margin |-> margin]]
  /\ Goto(p, "deliver")
  /\ UNCHANGED <<aoVars, regVars, cntVars, palVars, taskVars, mainVars, told,
                 failed>>

\* ... and walks it, handler by handler.
PublishDeliver(p) ==
  /\ pc[p] = "deliver"
  /\ \E b \in todo[p] :
       /\ Highest(b, todo[p])
       /\ \/ b \in registered /\ HandlerFn(b, post[p].event, post[p].margin)
          \/ b \notin registered /\ UNCHANGED <<queue, notified, failed>>
       /\ todo' = [todo EXCEPT ![p] = @ \ {b}]
  /\ UNCHANGED <<valid, running, taskId, prio, regVars, cntVars, created,
                 initComplete, gate, taskVars, pc, mainVars, post, told>>

PublishEnd(p) ==
  /\ pc[p] = "deliver" /\ todo[p] = {}
  /\ post' = [post EXCEPT ![p] = NoPost]
  /\ Goto(p, "idle")
  /\ UNCHANGED <<aoVars, regVars, cntVars, palVars, taskVars, mainVars, todo,
                 told, failed>>

-----------------------------------------------------------------------------

MainStep ==
  \/ \E a \in AO : AoInit(a) \/ AoStart(a)
  \/ MainLoop \/ RunAll \/ InitWait \/ InitSleep \/ RunAllReturns

StopStep(k) ==
  StopUnsubscribe(k) \/ StopFlush(k) \/ StopUnregister(k) \/ StopNotify(k)

TaskStep(k) ==
  \/ TaskRunning(k) \/ TaskRegister(k) \/ TaskSubscribe(k) \/ TaskBoot(k)
  \/ TaskInitDone(k) \/ TaskNotifyMain(k) \/ TaskGate(k)
  \/ TaskLoop(k) \/ TaskCheck(k) \/ TaskWait(k) \/ TaskPop(k)
  \/ HandleReturn(k) \/ TaskRelease(k) \/ TaskExit(k) \/ StopStep(k)

PosterStep(p) == PostPush(p) \/ PublishDeliver(p) \/ PublishEnd(p)

\* What the application may do, and does not have to.
Free ==
  \/ \E k \in Task, e \in Event, m \in Margins : HandlePost(k, e, m)
  \/ \E p \in Poster, b \in AO, e \in Posted \ Stop, m \in Margins :
       PostCheck(p, b, e, m)
  \/ \E p \in Poster, b \in AO, e \in Posted \cap Stop : PostCheck(p, b, e, 0)
  \/ \E p \in Poster, e \in Published, m \in Margins : PublishSnapshot(p, e, m)

Running == failed = "none"

\* An assertion failed, or main() returned.
Ended == ~Running \/ pc[Main] = "done"

Next ==
  \/ /\ Running
     /\ \/ MainStep
        \/ \E k \in Task : TaskStep(k)
        \/ \E p \in Poster : PosterStep(p)
        \/ Free
  \/ Ended /\ UNCHANGED vars

Spec == Init /\ [][Next]_vars

\* Every thread that can run goes on running.
Fairness ==
  /\ WF_vars(Running /\ MainStep)
  /\ \A k \in Task : WF_vars(Running /\ TaskStep(k))
  /\ \A p \in Poster : WF_vars(Running /\ PosterStep(p))

FairSpec == Spec /\ Fairness

-----------------------------------------------------------------------------
(* Properties                                                              *)

Label == {"none", "running", "register", "subscribe", "boot", "init_done",
          "notify_main", "gate", "loop", "check", "wait", "pop", "handle",
          "release", "exit", "stop_flush", "stop_unregister", "stop_notify"}

\* Every variable stays in the range of its C counterpart; aos_cnt counts the
\* slots of aos[] that are taken.
TypeOK ==
  /\ queue \in [AO -> Queues(Event)]
  /\ valid \in [AO -> BOOLEAN] /\ running \in [AO -> BOOLEAN]
  /\ taskId \in [AO -> Task \cup {NoTask}] /\ prio \in [AO -> AO \cup {0}]
  /\ registered \subseteq AO \cup {0} /\ sub \subseteq AO \cup {0}
  /\ aos \subseteq AO \cup {0} /\ cnt = Cardinality(aos) /\ initDone \in BOOLEAN
  /\ created \subseteq Task /\ notified \subseteq Task \cup {Main}
  /\ initComplete \subseteq Task /\ gate \in BOOLEAN
  /\ arg \in [Task -> AO \cup {0}] /\ waitOn \in [Task -> Task]
  /\ cur \in [Task -> Event \cup {NoEvent}]
  /\ \A k \in Task : pc[k] \in Label
  /\ toStart \subseteq AO /\ round \in 1 .. Rounds

\* As long as nobody posts to an active object that was told to stop, none of
\* the assertions of the modelled code fails: a task finds an event when it was
\* told of one, and an active object is registered and running when it is
\* posted to.
NoAssertFails == failed = "none"

\* Posts notify only on the change from empty to not empty, and the task looks at
\* the queue and waits in two steps; still it never waits without a notification
\* while there is an event.
NoLostWakeup ==
  \A k \in Task :
    pc[k] = "wait" /\ queue[arg[k]] # <<>> => waitOn[k] \in notified

\* am_task_init_wait: no event is handled before every active object has run its
\* init handler, so that handlers may post to each other.
StartupGate ==
  \A k \in Task :
    pc[k] \in {"pop", "handle"} => toStart = {} /\ created \subseteq initComplete

\* An event in a queue is handled, unless its active object stops first.
EventsHandled ==
  \A a \in AO, e \in Event :
    e \in {queue[a][i] : i \in DOMAIN queue[a]}
      ~> (~running[a] \/ \E k \in Task : arg[k] = a /\ cur[k] = e)

\* When every active object was told to stop, am_ao_run_all returns to main and
\* main leaves its loop: the last notification of AM_TASK_ID_MAIN is not lost.
MainReturns == told = AO ~> pc[Main] = "done"

\* "Blocks for preemptive AO library build and returns when all active objects
\* were stopped" (libs/ao/ao.h). It does not hold: README.md, section 5.
RunAllBlocks == [][RunAllReturns => cnt = 0]_vars

\* The library frees an event once its active object handled it, also when the
\* handler stops the active object.
FreedWithAllocator == failed # "no_alloc"

\* AM_ASSERT(ao->running) of am_ao_event_handler_unsafe: publishing is thread
\* safe, also while a subscriber stops itself.
PublishFindsRunning == failed # "not_running"

=============================================================================
