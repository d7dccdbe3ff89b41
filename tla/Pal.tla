-------------------------------- MODULE Pal --------------------------------
(***************************************************************************)
(* Tasks of the POSIX platform layer (libs/pal/posix/pal.c): descriptors   *)
(* that are used again, the start-up gate, the ticker and the shutdown.    *)
(* One thread, main, creates the tasks, as the applications and am_ao_start*)
(* do.  A task may wait, notify others and end.  Thread identifiers are    *)
(* used again by the system once a thread is joined, or detached and gone. *)
(***************************************************************************)
EXTENDS Integers, FiniteSetsExt

CONSTANTS Slots,       \* AM_TASK_NUM_MAX
          Handles,     \* number of values of pthread_t
          MaxCreate,   \* calls of am_task_create and am_ticker_start
          MaxNotify    \* calls of am_task_notify by tasks

Slot == 1 .. Slots
Main == 0
Handle == 1 .. Handles
NoHandle == 0

VARIABLES task,       \* am_tasks_, and which of its pthread objects are alive
          th,         \* the threads
          notified,   \* the flag of task_main_ and of each task
          pc,         \* where main is
          cur,        \* the descriptor that main works on
          gate,       \* main unlocked init_complete_mutex_
          ticker,     \* tickers[0]
          created, sent    \* calls so far, up to MaxCreate and MaxNotify

vars == <<task, th, notified, pc, cur, gate, ticker, created, sent>>

NoThread == [pc |-> "none", slot |-> 1, wait |-> FALSE, detached |-> FALSE, tick |-> FALSE]

Init ==
  /\ task = [i \in Slot |-> [created |-> FALSE, running |-> FALSE, joinable |-> FALSE,
                             waitInit |-> FALSE, initComplete |-> FALSE,
                             thread |-> NoHandle]]
  /\ th = [h \in Handle |-> NoThread]
  /\ notified = [i \in Slot \cup {Main} |-> FALSE]
  /\ pc = "run" /\ cur = 1 /\ gate = FALSE
  /\ ticker = [busy |-> FALSE, running |-> FALSE, slot |-> 1]
  /\ created = 0 /\ sent = 0

FreeSlots == {i \in Slot : ~task[i].created}

\* Mutant: the last free descriptor instead of the first.
LastFree == Max(FreeSlots)

FirstFree == Min(FreeSlots)

\* am_task_get_own_id: the first descriptor that ran this thread.
OwnIds(h) == {i \in Slot : task[i].running /\ task[i].thread = h}
OwnId(h) == Min(OwnIds(h))

Becomes(h, label) == th' = [th EXCEPT ![h].pc = label]

-----------------------------------------------------------------------------
(* am_task_create, am_ticker_start *)

\* Identifiers are interchangeable, so which free one the system takes does not
\* matter as long as it uses them again.
IsNext(h) == th[h].pc = "none" /\ \A k \in 1 .. h - 1 : th[k].pc # "none"

\* running, notified, joinable and init_complete keep what the previous owner of
\* the descriptor left.
CreateThread(h, wait, detach, tick) ==
  /\ pc = "run" /\ created < MaxCreate /\ FreeSlots # {} /\ IsNext(h)
  /\ tick => wait /\ ~detach /\ ~ticker.busy
  /\ task' = [task EXCEPT ![FirstFree] =
                [@ EXCEPT !.created = TRUE, !.waitInit = wait, !.thread = h]]
  /\ th' = [th EXCEPT ![h] = [pc |-> "start", slot |-> FirstFree, wait |-> wait,
                              detached |-> detach, tick |-> tick]]
  /\ ticker' = IF tick THEN [busy |-> TRUE, running |-> TRUE, slot |-> FirstFree] ELSE ticker
  /\ cur' = FirstFree /\ pc' = "created" /\ created' = created + 1
  /\ UNCHANGED <<notified, gate, sent>>

CreateDone ==
  /\ pc = "created"
  /\ task' = [task EXCEPT ![cur].joinable = ~th[task[cur].thread].detached]
  /\ pc' = "run"
  /\ UNCHANGED <<th, notified, cur, gate, ticker, created, sent>>

-----------------------------------------------------------------------------
(* thread_entry_wrapper *)

Start(h) ==
  /\ th[h].pc = "start"
  /\ task' = [task EXCEPT ![th[h].slot].running = TRUE]
  /\ Becomes(h, IF th[h].wait THEN "gate" ELSE "body")
  /\ UNCHANGED <<notified, pc, cur, gate, ticker, created, sent>>

\* am_task_init_wait of a task: tell main, then wait for the mutex that main has.
InitComplete(h) ==
  /\ th[h].pc = "gate"
  /\ task' = [task EXCEPT ![OwnId(h)].initComplete = TRUE]
  /\ Becomes(h, "tell")
  /\ UNCHANGED <<notified, pc, cur, gate, ticker, created, sent>>

\* Mutant: the task does not tell main.
InitTellLost(h) ==
  /\ th[h].pc = "tell"
  /\ Becomes(h, "lock")
  /\ UNCHANGED <<task, notified, pc, cur, gate, ticker, created, sent>>

InitTell(h) ==
  /\ th[h].pc = "tell"
  /\ notified' = [notified EXCEPT ![Main] = TRUE]
  /\ Becomes(h, "lock")
  /\ UNCHANGED <<task, pc, cur, gate, ticker, created, sent>>

InitPass(h) ==
  /\ th[h].pc = "lock" /\ gate
  /\ Becomes(h, "body")
  /\ UNCHANGED <<task, notified, pc, cur, gate, ticker, created, sent>>

\* The entry function: it waits, notifies a task that runs or main, or returns.
\* A ticker task returns when it is told to.
TaskWait(h) ==
  /\ th[h].pc = "body" /\ ~th[h].tick
  /\ Becomes(h, "wait")
  /\ UNCHANGED <<task, notified, pc, cur, gate, ticker, created, sent>>

TaskWake(h) ==
  /\ th[h].pc = "wait" /\ notified[OwnId(h)]
  /\ notified' = [notified EXCEPT ![OwnId(h)] = FALSE]
  /\ Becomes(h, "body")
  /\ UNCHANGED <<task, pc, cur, gate, ticker, created, sent>>

TaskNotify(h, t) ==
  /\ th[h].pc = "body" /\ sent < MaxNotify
  /\ t # Main => \E k \in Handle : th[k].slot = t /\ th[k].pc \in {"body", "wait"}
  /\ notified' = [notified EXCEPT ![t] = TRUE]
  /\ sent' = sent + 1
  /\ UNCHANGED <<task, th, pc, cur, gate, ticker, created>>

TaskReturn(h) ==
  /\ th[h].pc = "body" /\ (th[h].tick => ~ticker.running)
  /\ Becomes(h, "end")
  /\ UNCHANGED <<task, notified, pc, cur, gate, ticker, created, sent>>

\* The descriptor is free before the thread is gone.
TaskEnd(h) ==
  /\ th[h].pc = "end"
  /\ task' = [task EXCEPT ![th[h].slot].created = FALSE]
  /\ Becomes(h, "ended")
  /\ UNCHANGED <<notified, pc, cur, gate, ticker, created, sent>>

\* The system takes the identifier of a detached thread back.
Detached(h) ==
  /\ th[h].pc = "ended" /\ th[h].detached
  /\ (pc = "created" => task[cur].thread # h)
  /\ th' = [th EXCEPT ![h] = NoThread]
  /\ UNCHANGED <<task, notified, pc, cur, gate, ticker, created, sent>>

-----------------------------------------------------------------------------
(* main: the gate, the ticker, am_pal_global_deinit *)

Pending == {i \in Slot : task[i].created /\ task[i].waitInit /\ ~task[i].initComplete}

\* am_task_init_wait of main.
GateScan ==
  /\ pc = "gate"
  /\ IF Pending = {} THEN gate' = TRUE /\ pc' = "run"
                     ELSE pc' = "gateWait" /\ UNCHANGED gate
  /\ UNCHANGED <<task, th, notified, cur, ticker, created, sent>>

GateEnter ==
  /\ pc = "run" /\ ~gate
  /\ pc' = "gate"
  /\ UNCHANGED <<task, th, notified, cur, gate, ticker, created, sent>>

GateWait ==
  /\ pc = "gateWait" /\ notified[Main]
  /\ notified' = [notified EXCEPT ![Main] = FALSE]
  /\ pc' = "gate"
  /\ UNCHANGED <<task, th, cur, gate, ticker, created, sent>>

\* Mutant: the descriptor stays joinable.
JoinForgotten(i) ==
  /\ th[task[i].thread].pc = "ended"
  /\ th' = [th EXCEPT ![task[i].thread] = NoThread]
  /\ UNCHANGED task

\* pthread_join and what follows it.
Join(i) ==
  /\ th[task[i].thread].pc = "ended"
  /\ th' = [th EXCEPT ![task[i].thread] = NoThread]
  /\ task' = [task EXCEPT ![i].joinable = FALSE]

TickerStop ==
  /\ pc = "run" /\ gate /\ ticker.running
  /\ ticker' = [ticker EXCEPT !.running = FALSE]
  /\ pc' = "tickerJoin"
  /\ UNCHANGED <<task, th, notified, cur, gate, created, sent>>

TickerJoin ==
  /\ pc = "tickerJoin"
  /\ IF task[ticker.slot].joinable THEN Join(ticker.slot) ELSE UNCHANGED <<task, th>>
  /\ pc' = "run"
  /\ UNCHANGED <<notified, cur, gate, ticker, created, sent>>

\* Applications stop the ticker first.
Deinit ==
  /\ pc = "run" /\ ~ticker.running
  /\ gate' = TRUE /\ pc' = "deinit" /\ cur' = 1
  /\ UNCHANGED <<task, th, notified, ticker, created, sent>>

DeinitJoin ==
  /\ pc = "deinit"
  /\ IF task[cur].joinable THEN Join(cur) ELSE UNCHANGED <<task, th>>
  /\ IF cur = Slots THEN pc' = "done" /\ UNCHANGED cur ELSE cur' = cur + 1 /\ UNCHANGED pc
  /\ UNCHANGED <<notified, gate, ticker, created, sent>>

MainStep ==
  \/ \E h \in Handle, wait, detach, tick \in BOOLEAN : CreateThread(h, wait, detach, tick)
  \/ CreateDone \/ GateScan \/ GateEnter \/ GateWait
  \/ TickerStop \/ TickerJoin \/ Deinit \/ DeinitJoin

\* What main does once it is in a call of the library.
MainGoesOn == CreateDone \/ GateScan \/ GateWait \/ TickerJoin \/ DeinitJoin

Runs(h) ==
  Start(h) \/ InitComplete(h) \/ InitTell(h) \/ InitPass(h) \/ TaskWake(h)
    \/ TaskReturn(h) \/ TaskEnd(h) \/ Detached(h)

\* Nothing is left to do, or the program waits for a task that nobody notifies.
Stopped ==
  \/ pc = "done"
  \/ \E h \in Handle : th[h].pc = "wait" /\ ~notified[OwnId(h)]

Next ==
  \/ MainStep
  \/ \E h \in Handle : Runs(h) \/ TaskWait(h) \/ \E t \in Slot \cup {Main} : TaskNotify(h, t)
  \/ Stopped /\ UNCHANGED vars

\* Threads run, entry functions return.
Spec ==
  /\ Init /\ [][Next]_vars
  /\ WF_vars(MainGoesOn)
  /\ \A h \in Handle : WF_vars(Runs(h))

-----------------------------------------------------------------------------
TypeOK ==
  /\ \A i \in Slot : task[i].thread \in Handle \cup {NoHandle}
  /\ \A h \in Handle : th[h].slot \in Slot /\ th[h].wait \in BOOLEAN
  /\ notified \in [Slot \cup {Main} -> BOOLEAN] /\ gate \in BOOLEAN /\ cur \in Slot

\* A thread finds its own descriptor, although descriptors of tasks that ended
\* still say running and hold identifiers that the system used again.
OwnIdFound ==
  \A h \in Handle :
    th[h].pc \in {"gate", "body", "wait"} => OwnIds(h) # {} /\ OwnId(h) = th[h].slot

\* What main joins is a thread of that descriptor that was not detached and not
\* joined before; each other use of the identifier is undefined.
JoinsOnce ==
  \A i \in Slot :
    /\ \/ pc = "deinit" /\ cur = i
       \/ pc = "tickerJoin" /\ ticker.slot = i
    /\ task[i].joinable
    => LET h == task[i].thread
       IN  th[h].pc # "none" /\ ~th[h].detached /\ th[h].slot = i

\* The gate opens when every task that waits for it has run its init function,
\* unless main shuts down without having waited.
GateWaitsForAll ==
  [][gate' /\ ~gate /\ pc = "gate" =>
       \A h \in Handle : th[h].wait => th[h].pc \notin {"start", "gate"}]_vars

\* Shutdown ends, and so does every wait for the gate and for the ticker, unless a task
\* comes to wait for a notification: nothing says that somebody sends one.
ShutdownEnds ==
  pc \in {"gate", "gateWait", "tickerJoin", "deinit"}
    ~> pc \in {"run", "done"} \/ \E h \in Handle : th[h].pc = "wait"

=============================================================================
