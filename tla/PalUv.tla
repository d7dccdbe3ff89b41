------------------------------- MODULE PalUv -------------------------------
(***************************************************************************)
(* Tasks of the libuv platform layer (libs/pal/libuv/pal.c).  Unlike the   *)
(* POSIX one (module Pal) it notifies with a counting semaphore that each  *)
(* am_task_create initialises, the ticker may be started again, and its    *)
(* mutexes are given back to the slots they came from.  One thread, main,  *)
(* creates the tasks and the mutexes; am_ticker_create belongs to Init.    *)
(***************************************************************************)
EXTENDS Integers, FiniteSetsExt

CONSTANTS Slots,       \* AM_TASK_NUM_MAX
          Handles,     \* number of values of uv_thread_t
          Mutexes,     \* AM_PAL_MUTEX_NUM_MAX
          MaxCreate,   \* calls of am_task_create and am_ticker_start
          MaxNotify    \* calls of am_task_notify by tasks

Slot == 1 .. Slots
Main == 0
Handle == 1 .. Handles
NoHandle == 0
InitMutex == 1         \* init_complete_mutex_, the first one that is created

VARIABLES task,       \* tasks_ without the semaphores
          sem,        \* the semaphores of task_main_ and tasks_
          th,         \* the threads
          valid,      \* the valid slots of mutexes_
          pc,         \* where main is
          cur,        \* the descriptor that main works on
          acquired,   \* init_complete_mutex_acquired_: main holds InitMutex
          ticker,     \* tickers[0]
          user,       \* history: the mutexes that the application has
          created, sent    \* calls so far, up to MaxCreate and MaxNotify

vars == <<task, sem, th, valid, pc, cur, acquired, ticker, user, created, sent>>

\* owed: history, the notifications of the task that it did not wait for.
NoThread == [pc |-> "none", slot |-> 1, wait |-> FALSE, detached |-> FALSE, tick |-> FALSE,
             owed |-> 0]

NoTask == [created |-> FALSE, running |-> FALSE, joinable |-> FALSE, waitInit |-> FALSE,
           initComplete |-> FALSE, thread |-> NoHandle]

Init ==
  /\ task = [i \in Slot |-> NoTask]
  /\ sem = [i \in Slot \cup {Main} |-> [alive |-> i = Main, count |-> 0]]
  /\ th = [h \in Handle |-> NoThread]
  /\ valid = {InitMutex} /\ user = {}
  /\ pc = "run" /\ cur = 1 /\ acquired = TRUE
  /\ ticker = [running |-> FALSE, slot |-> 1]
  /\ created = 0 /\ sent = 0

Becomes(h, label) == th' = [th EXCEPT ![h].pc = label]
Post(i) == sem' = [sem EXCEPT ![i].count = @ + 1]
Take(i) == sem[i].count > 0 /\ sem' = [sem EXCEPT ![i].count = @ - 1]

\* am_task_get_own_id: the first descriptor that ran this thread.
OwnIds(h) == {i \in Slot : task[i].running /\ task[i].thread = h}
OwnId(h) == Min(OwnIds(h))

-----------------------------------------------------------------------------
(* am_mutex_create, am_mutex_destroy: nothing else reads or writes the slots, so *)
(* it is enough to call them before the first task, and to have none by then.  *)

MutexCreate ==
  /\ pc = "run" /\ created = 0 /\ valid # 1 .. Mutexes
  /\ LET free == Min((1 .. Mutexes) \ valid)
     IN  valid' = valid \cup {free} /\ user' = user \cup {free}
  /\ UNCHANGED <<task, sem, th, pc, cur, acquired, ticker, created, sent>>

\* Mutant: the POSIX layer's slip, the slot after the mutex becomes invalid.
NextDestroy(m) ==
  /\ pc = "run" /\ created = 0 /\ m \in user
  /\ valid' = valid \ {m + 1} /\ user' = user \ {m}
  /\ UNCHANGED <<task, sem, th, pc, cur, acquired, ticker, created, sent>>

MutexDestroy(m) ==
  /\ pc = "run" /\ created = 0 /\ m \in user
  /\ valid' = valid \ {m} /\ user' = user \ {m}
  /\ UNCHANGED <<task, sem, th, pc, cur, acquired, ticker, created, sent>>

-----------------------------------------------------------------------------
(* am_task_create, am_ticker_start *)

\* The next free value of uv_thread_t: they are interchangeable.
IsNext(h) == th[h].pc = "none" /\ \A k \in 1 .. h - 1 : th[k].pc # "none"

\* The descriptor of a new task; running and init_complete keep what its previous
\* owner left, and joinable does until CreateDone.
Claim(i, h, wait) ==
  task' = [task EXCEPT ![i] = [@ EXCEPT !.created = TRUE, !.waitInit = wait, !.thread = h]]

\* Mutant: the semaphore of a descriptor that is used again keeps its count.
SemKept(i) == sem' = [sem EXCEPT ![i].alive = TRUE]

SemInit(i) == sem' = [sem EXCEPT ![i] = [alive |-> TRUE, count |-> 0]]

\* The first descriptor that is not created.
\* A ticker task is created by am_ticker_start, at first and after am_ticker_stop.
CreateThread(h, wait, detach, tick) ==
  /\ pc = "run" /\ created < MaxCreate /\ user = {}
  /\ IsNext(h) /\ \E i \in Slot : ~task[i].created
  /\ tick => wait /\ ~detach /\ ~ticker.running
  /\ LET i == Min({j \in Slot : ~task[j].created})
     IN  /\ Claim(i, h, wait) /\ SemInit(i) /\ cur' = i
         /\ th' = [th EXCEPT ![h] = [pc |-> "start", slot |-> i, wait |-> wait,
                                     detached |-> detach, tick |-> tick, owed |-> 0]]
         /\ ticker' = IF tick THEN [running |-> TRUE, slot |-> i] ELSE ticker
  /\ pc' = "created" /\ created' = created + 1
  /\ UNCHANGED <<valid, acquired, user, sent>>

\* joinable is stored when the thread runs already, and may have ended.
CreateDone ==
  /\ pc = "created"
  /\ task' = [task EXCEPT ![cur].joinable = ~th[task[cur].thread].detached]
  /\ pc' = "run"
  /\ UNCHANGED <<sem, th, valid, cur, acquired, ticker, user, created, sent>>

-----------------------------------------------------------------------------
(* task_entry_wrapper *)

Start(h) ==
  /\ th[h].pc = "start"
  /\ task' = [task EXCEPT ![th[h].slot].running = TRUE]
  /\ Becomes(h, IF th[h].wait THEN "gate" ELSE "body")
  /\ UNCHANGED <<sem, valid, pc, cur, acquired, ticker, user, created, sent>>

\* am_task_init_wait of a task: its init function is complete, which it tells main;
\* then it takes the mutex that main holds, and gives it back.
InitComplete(h) ==
  /\ th[h].pc = "gate"
  /\ task' = [task EXCEPT ![OwnId(h)].initComplete = TRUE]
  /\ Becomes(h, "tell")
  /\ UNCHANGED <<sem, valid, pc, cur, acquired, ticker, user, created, sent>>

InitTell(h) ==
  /\ th[h].pc = "tell"
  /\ Post(Main)
  /\ Becomes(h, "lock")
  /\ UNCHANGED <<task, valid, pc, cur, acquired, ticker, user, created, sent>>

InitPass(h) ==
  /\ th[h].pc = "lock" /\ ~acquired
  /\ Becomes(h, "body")
  /\ UNCHANGED <<task, sem, valid, pc, cur, acquired, ticker, user, created, sent>>

\* The entry function: it waits, notifies a task that runs or main, or returns.
TaskWait(h) ==
  /\ th[h].pc = "body" /\ ~th[h].tick
  /\ Becomes(h, "wait")
  /\ UNCHANGED <<task, sem, valid, pc, cur, acquired, ticker, user, created, sent>>

TaskWake(h) ==
  /\ th[h].pc = "wait" /\ Take(OwnId(h))
  /\ th' = [th EXCEPT ![h].pc = "body", ![h].owed = @ - 1]
  /\ UNCHANGED <<task, valid, pc, cur, acquired, ticker, user, created, sent>>

TaskNotify(h, t) ==
  /\ th[h].pc = "body" /\ sent < MaxNotify
  /\ IF t = Main THEN UNCHANGED th
     ELSE \E k \in Handle :
            /\ th[k].slot = t /\ th[k].pc \in {"body", "wait"}
            /\ th' = [th EXCEPT ![k].owed = @ + 1]
  /\ Post(t)
  /\ sent' = sent + 1
  /\ UNCHANGED <<task, valid, pc, cur, acquired, ticker, user, created>>

\* am_ticker_task returns when it is told to.
TaskReturn(h) ==
  /\ th[h].pc = "body" /\ (th[h].tick => ~ticker.running)
  /\ Becomes(h, "end")
  /\ UNCHANGED <<task, sem, valid, pc, cur, acquired, ticker, user, created, sent>>

\* A task that is not joinable, or not yet, destroys its semaphore.
TaskDestroy(h) ==
  /\ th[h].pc = "end"
  /\ sem' = [sem EXCEPT ![th[h].slot].alive = @ /\ task[th[h].slot].joinable]
  /\ Becomes(h, "free")
  /\ UNCHANGED <<task, valid, pc, cur, acquired, ticker, user, created, sent>>

TaskEnd(h) ==
  /\ th[h].pc = "free"
  /\ task' = [task EXCEPT ![th[h].slot].created = FALSE]
  /\ Becomes(h, "ended")
  /\ UNCHANGED <<sem, valid, pc, cur, acquired, ticker, user, created, sent>>

\* The system takes the identifier of a detached thread back.
Detached(h) ==
  /\ th[h].pc = "ended" /\ th[h].detached
  /\ (pc = "created" => task[cur].thread # h)
  /\ th' = [th EXCEPT ![h] = NoThread]
  /\ UNCHANGED <<task, sem, valid, pc, cur, acquired, ticker, user, created, sent>>

-----------------------------------------------------------------------------
(* main: the gate, am_ticker_stop, am_pal_global_deinit *)

Pending == {i \in Slot : task[i].created /\ task[i].waitInit /\ ~task[i].initComplete}

GateEnter ==
  /\ pc = "run" /\ acquired
  /\ pc' = "gate"
  /\ UNCHANGED <<task, sem, th, valid, cur, acquired, ticker, user, created, sent>>

\* am_task_init_wait of main.
GateScan ==
  /\ pc = "gate"
  /\ IF Pending = {} THEN acquired' = FALSE /\ pc' = "run"
                     ELSE pc' = "gateWait" /\ UNCHANGED acquired
  /\ UNCHANGED <<task, sem, th, valid, cur, ticker, user, created, sent>>

GateWait ==
  /\ pc = "gateWait" /\ Take(Main)
  /\ pc' = "gate"
  /\ UNCHANGED <<task, th, valid, cur, acquired, ticker, user, created, sent>>

\* uv_thread_join and what follows it.
Join(i) ==
  /\ th[task[i].thread].pc = "ended"
  /\ th' = [th EXCEPT ![task[i].thread] = NoThread]
  /\ sem' = [sem EXCEPT ![i].alive = FALSE]
  /\ task' = [task EXCEPT ![i].joinable = FALSE]

JoinIfJoinable(i) == IF task[i].joinable THEN Join(i) ELSE UNCHANGED <<task, sem, th>>

TickerStop ==
  /\ pc = "run" /\ ~acquired /\ ticker.running
  /\ ticker' = [ticker EXCEPT !.running = FALSE]
  /\ pc' = "tickerJoin"
  /\ UNCHANGED <<task, sem, th, valid, cur, acquired, user, created, sent>>

TickerJoin ==
  /\ pc = "tickerJoin"
  /\ JoinIfJoinable(ticker.slot)
  /\ pc' = "run"
  /\ UNCHANGED <<valid, cur, acquired, ticker, user, created, sent>>

\* Applications stop the ticker first.
Deinit ==
  /\ pc = "run" /\ ~ticker.running
  /\ acquired' = FALSE /\ pc' = "deinit" /\ cur' = 1
  /\ UNCHANGED <<task, sem, th, valid, ticker, user, created, sent>>

DeinitJoin ==
  /\ pc = "deinit"
  /\ JoinIfJoinable(cur)
  /\ IF cur = Slots THEN pc' = "done" /\ valid' = {} /\ user' = {} /\ UNCHANGED cur
                    ELSE cur' = cur + 1 /\ UNCHANGED <<pc, valid, user>>
  /\ UNCHANGED <<acquired, ticker, created, sent>>

MainStep ==
  \/ \E h \in Handle, wait, detach, tick \in BOOLEAN : CreateThread(h, wait, detach, tick)
  \/ MutexCreate \/ (\E m \in 1 .. Mutexes : MutexDestroy(m))
  \/ CreateDone \/ GateScan \/ GateEnter \/ GateWait
  \/ TickerStop \/ TickerJoin \/ Deinit \/ DeinitJoin

\* What main does once it is in a call of the library.
MainGoesOn == CreateDone \/ GateScan \/ GateWait \/ TickerJoin \/ DeinitJoin

Runs(h) ==
  Start(h) \/ InitComplete(h) \/ InitTell(h) \/ InitPass(h) \/ TaskWake(h)
    \/ TaskReturn(h) \/ TaskDestroy(h) \/ TaskEnd(h) \/ Detached(h)

\* Nothing is left to do, or the program waits for a task that nobody notifies.
Stopped ==
  pc = "done" \/ \E h \in Handle : th[h].pc = "wait" /\ sem[OwnId(h)].count = 0

Next ==
  \/ MainStep
  \/ \E h \in Handle : Runs(h) \/ TaskWait(h) \/ \E t \in Slot \cup {Main} : TaskNotify(h, t)
  \/ Stopped /\ UNCHANGED vars

-----------------------------------------------------------------------------
\* A task waits for its own semaphore, which is alive, and holds exactly the
\* notifications of this task, none that was meant for an earlier owner of the
\* descriptor.
NotifiedItself ==
  \A h \in Handle :
    th[h].pc \in {"body", "wait"} =>
      /\ OwnIds(h) # {} /\ OwnId(h) = th[h].slot
      /\ sem[OwnId(h)] = [alive |-> TRUE, count |-> th[h].owed]

\* What main joins is a thread of that descriptor that was not detached and not
\* joined before, also when the ticker was started again.
JoinsOnce ==
  \A i \in Slot :
    /\ \/ pc = "deinit" /\ cur = i
       \/ pc = "tickerJoin" /\ ticker.slot = i
    /\ task[i].joinable
    => LET h == task[i].thread
       IN  th[h].pc # "none" /\ ~th[h].detached /\ th[h].slot = i

\* The mutexes in use are valid, the gate's among them, and no two share a slot.
MutexesKept == pc # "done" => valid = user \cup {InitMutex} /\ InitMutex \notin user

\* The gate opens when every task that waits for it has run its init function,
\* unless main shuts down without having waited.
GateWaitsForAll ==
  [][~acquired' /\ acquired /\ pc = "gate" =>
       \A h \in Handle : th[h].wait => th[h].pc \notin {"start", "gate"}]_vars

\* Waits of main for the gate, for the ticker and at the end do not last for ever
\* unless a task comes to wait for a notification, which nobody has to send.
ShutdownEnds ==
  pc \in {"gate", "gateWait", "tickerJoin", "deinit"}
    ~> pc \in {"run", "done"} \/ \E h \in Handle : th[h].pc = "wait"

=============================================================================
