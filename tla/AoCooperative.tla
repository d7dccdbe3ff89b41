----------------------------- MODULE AoCooperative -----------------------------
(***************************************************************************)
(* Active objects that share the main task (libs/ao/cooperative/port.c     *)
(* with libs/ao/ao.c and the notification of libs/pal/posix/pal.c).        *)
(*                                                                         *)
(* am_ao_run_all dispatches one event to the active object of the highest  *)
(* priority whose bit is set in am_ready_aos_, or calls on_idle, which     *)
(* waits for a notification.  Posters are interrupts or other threads, let *)
(* in between any two critical sections of the main task.  All events are  *)
(* static; publishing is in modules EventAsync and AoPreemptive.           *)
(***************************************************************************)
EXTENDS EventDeque, FiniteSets

CONSTANTS
  AO,          \* active objects, each named by its priority
  Main,        \* the main task
  Poster,      \* interrupts and other threads
  Event, Stop, \* all events, and those on which an active object stops itself
  NoEvent,     \* NULL
  Margins,     \* margins of the posts of all but stop events, for which it is 0
  Rounds       \* how often main starts the active objects

NoAo == 0

ASSUME AoCooperativeAssumption ==
  /\ AO \subseteq Nat \ {NoAo} /\ Main \notin Poster
  /\ Stop \subseteq Event /\ NoEvent \notin Event
  /\ Margins \subseteq 0 .. Capacity - 1
  /\ Rounds \in Nat \ {0}

VARIABLES
  queue, running,   \* struct am_ao; taskId is always that of main
  registered,       \* the handlers that have an fn
  aos, cnt,         \* struct am_ao_state
  initDone,         \* init_complete: posters have passed the startup gate
  ready,            \* am_ready_aos_
  notified,         \* the notification of AM_TASK_ID_MAIN
  pc,
  sel, cur,         \* locals of am_ao_run_all: ao and its event
  toStart, round,   \* locals of main
  post,             \* what a poster is about to post
  told,             \* who was posted a stop event
  failed            \* which AM_ASSERT failed

aoVars   == <<queue, running, registered, aos, cnt>>
wakeVars == <<ready, notified>>
runVars  == <<sel, cur>>
mainVars == <<toStart, round>>
postVars == <<post, told>>
vars == <<aoVars, initDone, wakeVars, pc, runVars, mainVars, postVars, failed>>

NoPost == [dest |-> NoAo, event |-> NoEvent, margin |-> 0]

Init ==
  /\ queue = [a \in AO |-> <<>>] /\ running = [a \in AO |-> FALSE]
  /\ registered = {} /\ aos = {} /\ cnt = 0 /\ initDone = FALSE
  /\ ready = {} /\ notified = FALSE
  /\ pc = [x \in Poster \cup {Main} |-> IF x = Main THEN "start" ELSE "idle"]
  /\ sel = NoAo /\ cur = NoEvent
  /\ toStart = AO /\ round = 1
  /\ post = [p \in Poster |-> NoPost] /\ told = {}
  /\ failed = "none"

Goto(x, label) == pc' = [pc EXCEPT ![x] = label]
Require(ok, name) == failed' = IF ok THEN failed ELSE name

Lowest(a, S) == a \in S /\ \A b \in S : a <= b
Highest(a, S) == a \in S /\ \A b \in S : b <= a

-----------------------------------------------------------------------------

\* Mutant: the bit is set without a notification.
SetReady(b) == ready' = ready \cup {b} /\ UNCHANGED notified

\* am_ao_notify_unsafe
NotifyUnsafe(b) == ready' = ready \cup {b} /\ notified' = TRUE

\* Mutant: it is taken for a change from empty if one slot was taken.
HandlerFnLate(b, e, margin) ==
  /\ Require(running[b] /\ (NoRoom(queue[b], margin) => margin > 0), "refused")
  /\ IF running[b] /\ ~NoRoom(queue[b], margin)
     THEN /\ queue' = [queue EXCEPT ![b] = Append(@, e)]
          /\ IF Len(queue[b]) = 1 THEN NotifyUnsafe(b) ELSE UNCHANGED wakeVars
     ELSE UNCHANGED <<queue, wakeVars>>

\* handler->fn: am_ao_event_handler_unsafe inside a critical section.
HandlerFn(b, e, margin) ==
  /\ Require(running[b] /\ (NoRoom(queue[b], margin) => margin > 0), "refused")
  /\ IF running[b] /\ ~NoRoom(queue[b], margin)
     THEN /\ queue' = [queue EXCEPT ![b] = Append(@, e)]
          /\ IF WasEmpty(queue[b]) THEN NotifyUnsafe(b) ELSE UNCHANGED wakeVars
     ELSE UNCHANGED <<queue, wakeVars>>

-----------------------------------------------------------------------------
(* main()                                                                  *)

\* am_ao_init and am_ao_start of the next active object.
AoStart(a) ==
  /\ pc[Main] = "start" /\ Lowest(a, toStart)
  /\ Require(a \notin aos /\ a \notin registered, "slot_taken")
  /\ queue' = [queue EXCEPT ![a] = <<>>]
  /\ running' = [running EXCEPT ![a] = TRUE]
  /\ registered' = registered \cup {a}
  /\ aos' = aos \cup {a} /\ cnt' = cnt + 1
  /\ told' = told \ {a}
  /\ sel' = a
  /\ Goto(Main, "init_handler")
  /\ UNCHANGED <<initDone, wakeVars, cur, mainVars, post>>

\* The init handler posts to its own active object, or does not.
InitHandler ==
  /\ pc[Main] = "init_handler"
  /\ \/ \E e \in Event \ Stop, m \in Margins : HandlerFn(sel, e, m)
     \/ UNCHANGED <<queue, wakeVars, failed>>
  /\ sel' = NoAo
  /\ toStart' = toStart \ {sel}
  /\ Goto(Main, IF toStart = {sel} THEN "loop" ELSE "start")
  /\ UNCHANGED <<running, registered, aos, cnt, initDone, cur, round, postVars>>

\* while (am_ao_get_cnt() > 0), and the start of am_ao_run_all.
MainLoop ==
  /\ pc[Main] = "loop"
  /\ \/ cnt > 0 /\ Goto(Main, "select") /\ initDone' = TRUE /\ UNCHANGED mainVars
     \/ cnt = 0 /\ round < Rounds /\ Goto(Main, "start")
          /\ toStart' = AO /\ round' = round + 1 /\ UNCHANGED initDone
     \/ cnt = 0 /\ round = Rounds /\ Goto(Main, "done")
          /\ UNCHANGED <<mainVars, initDone>>
  /\ UNCHANGED <<aoVars, wakeVars, runVars, postVars, failed>>

-----------------------------------------------------------------------------
(* am_ao_run_all: its critical section                                     *)

\* Nothing is ready: on_idle leaves the critical section and waits.
SelectIdle ==
  /\ pc[Main] = "select" /\ ready = {}
  /\ Goto(Main, "idle")
  /\ UNCHANGED <<aoVars, initDone, wakeVars, runVars, mainVars, postVars, failed>>

\* A bit whose queue has become empty is cleared, and the loop goes on.
SelectClear ==
  /\ pc[Main] = "select"
  /\ \E b \in ready :
       /\ Highest(b, ready)
       /\ Require(b \in aos, "no_ao")
       /\ queue[b] = <<>>
       /\ ready' = ready \ {b}
  /\ UNCHANGED <<aoVars, initDone, notified, pc, runVars, mainVars, postVars>>

\* Mutant: the bits are served from the lowest priority on.
SelectLowest ==
  /\ pc[Main] = "select"
  /\ \E b \in ready :
       /\ Lowest(b, ready)
       /\ Require(b \in aos, "no_ao")
       /\ queue[b] # <<>>
       /\ sel' = b
  /\ Goto(Main, "pop")
  /\ UNCHANGED <<aoVars, initDone, wakeVars, cur, mainVars, postVars>>

Select ==
  /\ pc[Main] = "select"
  /\ \E b \in ready :
       /\ Highest(b, ready)
       /\ Require(b \in aos, "no_ao")
       /\ queue[b] # <<>>
       /\ sel' = b
  /\ Goto(Main, "pop")
  /\ UNCHANGED <<aoVars, initDone, wakeVars, cur, mainVars, postVars>>

\* am_on_idle: am_task_wait returns, and so does am_ao_run_all.
IdleReturns ==
  /\ pc[Main] = "idle" /\ notified
  /\ notified' = FALSE
  /\ Goto(Main, "loop")
  /\ UNCHANGED <<aoVars, initDone, ready, runVars, mainVars, postVars, failed>>

-----------------------------------------------------------------------------
(* am_event_queue_pop_front_with_cb, the handler, am_ao_stop               *)

Pop ==
  /\ pc[Main] = "pop"
  /\ Require(queue[sel] # <<>>, "pop_empty")
  /\ queue[sel] # <<>> =>
       /\ cur' = Head(queue[sel])
       /\ queue' = [queue EXCEPT ![sel] = Tail(@)]
  /\ queue[sel] = <<>> => UNCHANGED <<cur, queue>>
  /\ Goto(Main, "handle")
  /\ UNCHANGED <<running, registered, aos, cnt, initDone, wakeVars, sel,
                 mainVars, postVars>>

\* The handler posts to an active object that runs, ...
HandlePost(b, e, margin) ==
  /\ pc[Main] = "handle" /\ cur \notin Stop /\ running[b]
  /\ HandlerFn(b, e, margin)
  /\ Goto(Main, "handled")
  /\ UNCHANGED <<running, registered, aos, cnt, initDone, runVars, mainVars,
                 postVars>>

\* ... and returns; am_ao_run_all returns true.
HandleReturn ==
  /\ (pc[Main] = "handle" /\ cur \notin Stop) \/ pc[Main] = "handled"
  /\ sel' = NoAo /\ cur' = NoEvent
  /\ Goto(Main, "loop")
  /\ UNCHANGED <<aoVars, initDone, wakeVars, mainVars, postVars, failed>>

\* Mutant: the ready bit is forgotten.
StopFlushKeepsBit ==
  /\ pc[Main] = "handle" /\ cur \in Stop
  /\ queue' = [queue EXCEPT ![sel] = <<>>]
  /\ running' = [running EXCEPT ![sel] = FALSE]
  /\ aos' = aos \ {sel} /\ cnt' = cnt - 1
  /\ Goto(Main, "unregister")
  /\ UNCHANGED <<registered, initDone, wakeVars, runVars, mainVars,
                 postVars, failed>>

\* am_ao_stop: its critical section, ...
StopFlush ==
  /\ pc[Main] = "handle" /\ cur \in Stop
  /\ queue' = [queue EXCEPT ![sel] = <<>>]
  /\ ready' = ready \ {sel}
  /\ running' = [running EXCEPT ![sel] = FALSE]
  /\ aos' = aos \ {sel} /\ cnt' = cnt - 1
  /\ Goto(Main, "unregister")
  /\ UNCHANGED <<registered, initDone, notified, runVars, mainVars,
                 postVars, failed>>

\* ... and am_event_async_unregister.
StopUnregister ==
  /\ pc[Main] = "unregister"
  /\ Require(sel \in registered, "not_registered")
  /\ registered' = registered \ {sel}
  /\ Goto(Main, "handled")
  /\ UNCHANGED <<queue, running, aos, cnt, initDone, wakeVars, runVars,
                 mainVars, postVars>>

-----------------------------------------------------------------------------
(* Posters, which leave an active object alone once one of them told it to *)
(* stop, and tell it when none of them is posting to it                    *)

\* am_ao_post_fifo_x up to its check of ao->running.
PostCheck(p, b, e, margin) ==
  /\ pc[p] = "idle" /\ initDone /\ running[b] /\ b \in registered \ told
  /\ e \in Stop => \A q \in Poster : post[q].dest # b
  /\ post' = [post EXCEPT ![p] = [dest |-> b, event |-> e, margin |-> margin]]
  /\ told' = IF e \in Stop THEN told \cup {b} ELSE told
  /\ Goto(p, "push")
  /\ UNCHANGED <<aoVars, initDone, wakeVars, runVars, mainVars, failed>>

\* am_event_async_post, whose assertion of handler->fn is subsumed: running is
\* cleared before the handler is unregistered.
PostPush(p) ==
  /\ pc[p] = "push"
  /\ HandlerFn(post[p].dest, post[p].event, post[p].margin)
  /\ post' = [post EXCEPT ![p] = NoPost]
  /\ Goto(p, "idle")
  /\ UNCHANGED <<running, registered, aos, cnt, initDone, runVars, mainVars, told>>

-----------------------------------------------------------------------------

MainStep ==
  \/ \E a \in AO : AoStart(a)
  \/ InitHandler \/ MainLoop
  \/ SelectIdle \/ SelectClear \/ Select \/ IdleReturns
  \/ Pop \/ HandleReturn \/ StopFlush \/ StopUnregister

\* What the application may do, and does not have to.
Free ==
  \/ \E b \in AO, e \in Event \ Stop, m \in Margins : HandlePost(b, e, m)
  \/ \E p \in Poster, b \in AO, e \in Event \ Stop, m \in Margins :
       PostCheck(p, b, e, m)
  \/ \E p \in Poster, b \in AO, e \in Stop : PostCheck(p, b, e, 0)

Running == failed = "none"

\* An assertion failed, or main() returned.
Ended == ~Running \/ pc[Main] = "done"

Next ==
  \/ Running /\ (MainStep \/ (\E p \in Poster : PostPush(p)) \/ Free)
  \/ Ended /\ UNCHANGED vars

Spec == Init /\ [][Next]_vars

\* The main task and the posters go on with what they began.
Fairness ==
  /\ WF_vars(Running /\ MainStep)
  /\ \A p \in Poster : WF_vars(Running /\ PostPush(p))

FairSpec == Spec /\ Fairness

-----------------------------------------------------------------------------
(* Properties                                                              *)

\* Every variable stays in the range of its C counterpart; aos_cnt counts the
\* slots of aos[] that are taken.
TypeOK ==
  /\ queue \in [AO -> Queues(Event)] /\ running \in [AO -> BOOLEAN]
  /\ registered \subseteq AO /\ aos \subseteq AO /\ cnt = Cardinality(aos)
  /\ initDone \in BOOLEAN /\ ready \subseteq AO /\ notified \in BOOLEAN
  /\ sel \in AO \cup {NoAo} /\ cur \in Event \cup {NoEvent}
  /\ toStart \subseteq AO /\ round \in 1 .. Rounds /\ told \subseteq AO

\* None of the assertions of the modelled code fails, also when the active
\* objects are started a second time: a bit in am_ready_aos_ belongs to an active
\* object, a selected one has an event, a slot is free when it is taken.
NoAssertFails == failed = "none"

\* No event is left waiting: the ready bit of an active object is set on the
\* change from empty only and cleared when the queue is found empty, yet a queue
\* with an event always has its bit; and the main task, which left the critical
\* section before it waits in on_idle, does not wait while there is a bit and no
\* notification.
NoLostWakeup ==
  /\ \A a \in AO : queue[a] # <<>> => a \in ready
  /\ pc[Main] = "idle" /\ ready # {} => notified

\* When an active object is selected, no queue of higher priority has an event.
SelectsHighest ==
  [][Select => \A b \in AO : b > sel' => queue[b] = <<>>]_vars

\* An event is handled in the end, unless its active object stops or those of
\* higher priority are busy for ever.
EventsHandled ==
  \A a \in AO, e \in Event :
    <>[](\A b \in AO : b > a => queue[b] = <<>>) =>
      (e \in {queue[a][i] : i \in DOMAIN queue[a]}
         ~> (~running[a] \/ (sel = a /\ cur = e) \/ ~Running))

\* When every active object was told to stop for the last time, main leaves its
\* loop: each of them gets to its stop event, whatever the others post to it.
MainReturns ==
  (told = AO /\ round = Rounds /\ toStart = {}) ~>
    (pc[Main] = "done" \/ ~Running)

=============================================================================
