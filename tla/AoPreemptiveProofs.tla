-------------------------- MODULE AoPreemptiveProofs --------------------------
(***************************************************************************)
(* Proofs about AoPreemptive, for every set of active objects, of tasks    *)
(* and of posters, every set of events and every capacity of the queues.   *)
(* Main starts the active objects once, which is what Started says: when   *)
(* it starts them again the gate is open already (README.md, section 5).   *)
(***************************************************************************)
EXTENDS AoPreemptive, FiniteSetTheorems, TLAPS

\* A post that may be refused by a full queue is one with a positive margin.
Refusable == 0 \notin Margins

\* What an init handler posts leaves a slot for a stop event.
Bootable == Boot # {} => Capacity > 1

\* An event that stops its active object is static.
StaticStop == Dynamic \cap Stop = {}

\* There is a task for each active object, and main starts them once.
Started == Rounds = 1 /\ IsFiniteSet(AO) /\ Cardinality(AO) <= NTasks

MainPc == {"init", "start", "loop", "run_all", "init_wait", "init_sleep", "wait_all",
           "done"}
PosterPc == {"idle", "push", "deliver"}

\* A task between its creation and the gate.
SetupPc == {"running", "register", "subscribe", "boot", "init_done", "notify_main",
            "gate"}

\* A task whose active object is registered and not stopped.
LivePc == {"subscribe", "boot", "init_done", "notify_main", "gate", "check", "wait",
           "pop", "handle", "stop_flush"}

PostType ==
  [dest : AO \cup {0}, event : Event \cup {NoEvent}, margin : 0 .. Capacity - 1]

Values ==
  /\ queue \in [AO -> Seq(Event)] /\ \A a \in AO : Len(queue[a]) <= Capacity
  /\ valid \in [AO -> BOOLEAN] /\ running \in [AO -> BOOLEAN]
  /\ taskId \in [AO -> Task \cup {NoTask}] /\ prio \in [AO -> AO \cup {0}]
  /\ registered \subseteq AO /\ sub \subseteq AO
  /\ aos \subseteq AO /\ initDone \in BOOLEAN
  /\ created \subseteq Task /\ notified \subseteq Task \cup {Main}
  /\ initComplete \subseteq Task /\ gate \in BOOLEAN
  /\ arg \in [Task -> AO \cup {0}] /\ waitOn \in [Task -> Task]
  /\ cur \in [Task -> Event \cup {NoEvent}]
  /\ toStart \subseteq AO /\ round = 1
  /\ post \in [Poster -> PostType] /\ todo \in [Poster -> SUBSET AO]
  /\ told \subseteq AO

Places ==
  /\ pc \in [Task \cup Poster \cup {Main} -> Label \cup MainPc \cup PosterPc]
  /\ pc[Main] \in MainPc /\ \A k \in Task : pc[k] \in Label
  /\ \A p \in Poster : pc[p] \in PosterPc

Types == Values /\ Places

\* aos_cnt counts the slots that are taken, and the tasks suffice for the active
\* objects that are still to be started.
Counts ==
  /\ IsFiniteSet(aos) /\ cnt = Cardinality(aos)
  /\ Cardinality(created) + Cardinality(toStart) <= NTasks

\* An active object that can be posted to.
Alive(a) == running[a] /\ valid[a] /\ a \in aos /\ a \in registered

\* A task has its active object to itself, ...
Owned(k) ==
  /\ k \in created <=> pc[k] # "none"
  /\ pc[k] # "none" =>
       arg[k] \in AO \ toStart /\ taskId[arg[k]] = k /\ prio[arg[k]] = arg[k]

\* ... brings it to life, ...
Born(k) ==
  /\ pc[k] \in {"running", "register"} =>
       arg[k] \notin registered /\ arg[k] \in aos /\ valid[arg[k]]
  /\ pc[k] = "register" => running[arg[k]]
  /\ pc[k] \in LivePc => Alive(arg[k])
  /\ pc[k] \in {"release", "loop"} /\ running[arg[k]] => Alive(arg[k])

\* ... and ends it when it handles a stop event.
Stopped(k) ==
  /\ pc[k] \in {"stop_flush", "stop_unregister", "stop_notify"} => cur[k] \in Stop
  /\ pc[k] = "release" /\ ~running[arg[k]] => cur[k] \in Stop
  /\ pc[k] \in {"stop_unregister", "stop_notify"} => ~running[arg[k]]
  /\ pc[k] = "stop_unregister" => arg[k] \in registered
  /\ pc[k] = "stop_flush" => arg[k] \notin sub

Tasks == \A k \in Task : Owned(k) /\ Born(k) /\ Stopped(k)

\* Who is to be started is not there yet; who runs can be posted to, but for the
\* step in which its task registers it; subscribers can be posted to.
Objects ==
  /\ \A a \in toStart : a \notin registered /\ a \notin aos /\ ~running[a]
  /\ \A a \in AO : running[a] => Alive(a) \/ \E k \in Task : arg[k] = a /\ pc[k] = "register"
  /\ \A a \in sub : Alive(a)

\* Before the gate opens, tasks are being set up; afterwards none is, and there is
\* nothing left to start.
Gate ==
  /\ pc[Main] \in {"init", "start"} => ~gate
  /\ pc[Main] \notin {"init", "start"} => toStart = {}
  /\ \A k \in Task : ~gate => pc[k] \in {"none"} \cup SetupPc
  /\ ~gate => initComplete \subseteq created
  /\ \A k \in initComplete :
       pc[k] \notin {"running", "register", "subscribe", "boot", "init_done"}
  /\ gate => toStart = {} /\ created \subseteq initComplete
  /\ \A p \in Poster : pc[p] # "idle" => gate

\* What a task knows about its queue, the event it holds and its own name.
Hand ==
  \A k \in Task :
    /\ pc[k] \in {"running", "register", "subscribe", "boot"} => queue[arg[k]] = <<>>
    /\ pc[k] = "pop" => queue[arg[k]] # <<>>
    /\ pc[k] = "handle" => cur[k] \in Event
    /\ waitOn[k] = k

\* The posts in flight, each of which finds its active object alive; one that
\* carries a stop event is the last to its active object.
Posting(p) == pc[p] = "push" =>
  /\ post[p].dest \in AO /\ Alive(post[p].dest)
  /\ post[p].event \in Event /\ todo[p] = {}
  /\ post[p].event \notin Stop => post[p].margin \in Margins

Stopping(p) == pc[p] = "push" /\ post[p].event \in Stop =>
  /\ post[p].margin = 0 /\ post[p].dest \in told
  /\ Len(queue[post[p].dest]) < Capacity
  /\ \A q \in Poster \ {p} :
       post[q].dest # post[p].dest /\ post[p].dest \notin todo[q]

Posts == \A p \in Poster : Posting(p) /\ Stopping(p)

\* The same of a publish, which carries no stop event.
Publishes ==
  \A p \in Poster : pc[p] = "deliver" =>
    /\ \A b \in todo[p] : Alive(b)
    /\ post[p].dest = 0 /\ post[p].event \in Event \ Stop
    /\ post[p].margin \in Margins

Idlers == \A p \in Poster : pc[p] = "idle" => post[p] = NoPost /\ todo[p] = {}

\* A stop event is in a queue, or being handled, only of who was told, and nobody
\* is about to post to it any more; until it was told, its queue has a slot left.
Told ==
  /\ \A a \in AO : \A i \in 1 .. Len(queue[a]) :
       queue[a][i] \in Stop => a \in told /\ Unposted(a)
  /\ \A k \in Task : pc[k] = "stop_flush" \/ (pc[k] = "handle" /\ cur[k] \in Stop) =>
       arg[k] \in told /\ Unposted(arg[k])
  /\ \A a \in AO : a \notin told => Len(queue[a]) < Capacity

IInv ==
  /\ Types /\ Counts /\ Tasks /\ Objects /\ Gate /\ Hand
  /\ Posts /\ Publishes /\ Idlers /\ Told
  /\ NoAssertFails /\ NoLostWakeup

LEMMA AoInitInv ==
  ASSUME IInv, NEW a \in AO, AoInit(a)
  PROVE  IInv'
<1> USE AoPreemptiveAssumption, CapacityAssumption DEF IInv, Goto, Require, AoInit, Lowest, aoVars, regVars, cntVars, palVars, taskVars, mainVars, postVars
<1>1. Types'
  <2>1. Values'
    BY DEF Types, Values, Places, Label, MainPc, PosterPc, Tasks, Owned
  <2>2. Places'
    BY DEF Types, Places, Label, MainPc, PosterPc
  <2> QED
    BY <2>1, <2>2 DEF Types
<1>2. Counts'
  BY DEF Types, Values, Places, Label, MainPc, PosterPc, Counts, Tasks, Owned, Born, Alive
<1>3. Tasks'
  BY DEF Types, Values, Places, Label, MainPc, PosterPc, SetupPc, LivePc, Alive, Tasks, Owned, Born, Stopped, Objects
<1>4. Objects'
  BY DEF Types, Values, Places, Label, MainPc, PosterPc, SetupPc, LivePc, Alive, Tasks, Owned, Born, Stopped, Objects
<1>5. Gate'
  BY DEF Types, Values, Places, Label, MainPc, PosterPc, SetupPc, Tasks, Owned, Gate
<1>6. Hand'
  BY DEF Types, Values, Places, Label, MainPc, PosterPc, SetupPc, LivePc, Tasks, Owned, Hand
<1>7. Posts'
  BY DEF Types, Values, Places, Label, MainPc, PosterPc, Alive, Posts, Posting, Stopping, Tasks, Owned, Born, LivePc, Objects
<1>8. Publishes'
  BY DEF Types, Values, Places, Label, MainPc, PosterPc, Alive, Publishes, Tasks, Owned, Born, LivePc, Objects
<1>9. Idlers'
  BY DEF Types, Values, Places, Label, MainPc, PosterPc, Idlers
<1>10. Told'
  BY DEF Types, Values, Places, Label, MainPc, PosterPc, Tasks, Owned, Told, Unposted
<1>11. NoAssertFails'
  BY DEF Types, Values, Places, Label, MainPc, PosterPc, LivePc, Alive, Tasks, Owned, Born, Stopped, Hand, NoAssertFails
<1>12. NoLostWakeup'
  BY DEF Types, Values, Places, Label, MainPc, PosterPc, Tasks, Owned, Hand, NoLostWakeup
<1> QED
  BY <1>1, <1>2, <1>3, <1>4, <1>5, <1>6, <1>7, <1>8, <1>9, <1>10, <1>11, <1>12

LEMMA AoStartInv ==
  ASSUME IInv, Started, NEW a \in AO, AoStart(a)
  PROVE  IInv'
<1> USE AoPreemptiveAssumption, CapacityAssumption DEF IInv
<1>1. a \in toStart /\ a \notin aos /\ ~running[a] /\ a \notin registered
  BY DEF Types, Values, Places, Objects, AoStart, Lowest
<1>2. IsFiniteSet(toStart) /\ IsFiniteSet(created) /\ created \subseteq Task
  <2>1. toStart \subseteq AO /\ created \subseteq Task
    BY DEF Types, Values, Places
  <2>2. IsFiniteSet(Task)
    BY FS_Interval DEF Task
  <2> QED
    BY <2>1, <2>2, FS_Subset DEF Started
<1>3. created # Task
  <2>1. Cardinality(toStart) # 0 /\ Cardinality(toStart) \in Nat
    BY <1>1, <1>2, FS_EmptySet, FS_CardinalityType
  <2>2. Cardinality(Task) = NTasks
    BY FS_Interval DEF Task
  <2> QED
    BY <2>1, <2>2, <1>2, FS_CardinalityType DEF Counts
<1>4. PICK k \in Task \ created :
        /\ queue' = [queue EXCEPT ![a] = <<>>]
        /\ valid' = [valid EXCEPT ![a] = TRUE]
        /\ prio' = [prio EXCEPT ![a] = a]
        /\ aos' = aos \cup {a} /\ cnt' = cnt + 1
        /\ created' = created \cup {k}
        /\ arg' = [arg EXCEPT ![k] = a]
        /\ taskId' = [taskId EXCEPT ![a] = k]
        /\ toStart' = toStart \ {a}
        /\ pc' = [pc EXCEPT ![k] = "running",
                   ![Main] = IF toStart = {a} THEN "loop" ELSE "init"]
        /\ UNCHANGED <<running, initDone, failed>>
  BY <1>1, <1>3 DEF AoStart
<1>5. /\ pc[Main] = "start" /\ ~gate
      /\ UNCHANGED <<registered, sub, notified, initComplete, gate, waitOn, cur, round,
                     post, todo, told>>
  BY DEF AoStart, regVars, postVars, Gate
<1>6. pc[k] = "none" /\ k # Main /\ k \notin Poster
  BY <1>4 DEF Tasks, Owned
<1>7. /\ pc'[k] = "running" /\ pc'[Main] = IF toStart = {a} THEN "loop" ELSE "init"
      /\ \A x \in Task \cup Poster : x # k => pc'[x] = pc[x]
  BY <1>4, <1>6 DEF Types, Values, Places
<1>8. \A j \in Task : j # k /\ pc[j] # "none" => arg'[j] = arg[j] /\ arg[j] # a
  BY <1>1, <1>4 DEF Types, Values, Places, Tasks, Owned
<1>9. \A b \in AO : b # a => 
        /\ queue'[b] = queue[b] /\ valid'[b] = valid[b]
        /\ prio'[b] = prio[b] /\ taskId'[b] = taskId[b]
        /\ b \in aos' <=> b \in aos
  BY <1>4 DEF Types, Values, Places
<1>10. /\ queue'[a] = <<>> /\ valid'[a] /\ prio'[a] = a /\ taskId'[a] = k
       /\ a \in aos' /\ arg'[k] = a /\ a \notin toStart'
  BY <1>4 DEF Types, Values, Places
<1>11. \A b \in AO : Alive(b) => b # a /\ Alive(b)'
  BY <1>1, <1>4, <1>5, <1>9 DEF Alive
<1>12. Types'
  <2>1. queue' \in [AO -> Seq(Event)] /\ \A b \in AO : Len(queue'[b]) <= Capacity
    BY <1>4 DEF Types, Values, Places
  <2>2. pc' \in [Task \cup Poster \cup {Main} -> Label \cup MainPc \cup PosterPc]
    BY <1>4 DEF Types, Values, Places, Label, MainPc
  <2>3. /\ pc'[Main] \in MainPc /\ \A j \in Task : pc'[j] \in Label
        /\ \A p \in Poster : pc'[p] \in PosterPc
    BY <1>6, <1>7 DEF Types, Values, Places, Label, MainPc
  <2> QED
    BY <1>4, <1>5, <2>1, <2>2, <2>3 DEF Types, Values, Places
<1>13. Counts'
  <2>1. IsFiniteSet(aos') /\ cnt' = Cardinality(aos')
    BY <1>1, <1>4, FS_AddElement DEF Counts
  <2>2. Cardinality(created') = Cardinality(created) + 1
    BY <1>2, <1>4, FS_AddElement
  <2>3. Cardinality(toStart') = Cardinality(toStart) - 1
    BY <1>1, <1>2, <1>4, FS_RemoveElement
  <2>4. Cardinality(created) \in Nat /\ Cardinality(toStart) \in Nat
    BY <1>2, FS_CardinalityType
  <2> QED
    BY <2>1, <2>2, <2>3, <2>4 DEF Counts
<1>14. Tasks'
  <2> SUFFICES ASSUME NEW j \in Task PROVE (Owned(j) /\ Born(j) /\ Stopped(j))'
    BY DEF Tasks
  <2>1. CASE j = k
    BY <1>1, <1>4, <1>5, <1>7, <1>10, <2>1 DEF Owned, Born, Stopped, LivePc
  <2>2. CASE j # k /\ pc[j] = "none"
    BY <1>4, <1>7, <2>2 DEF Tasks, Owned, Born, Stopped, LivePc
  <2>3. CASE j # k /\ pc[j] # "none"
    <3>1. /\ Owned(j) /\ Born(j) /\ Stopped(j) /\ pc'[j] = pc[j]
          /\ arg'[j] = arg[j] /\ arg[j] # a /\ arg[j] \in AO
      BY <1>7, <1>8, <2>3 DEF Tasks, Owned
    <3>2. Owned(j)'
      BY <1>4, <1>9, <2>3, <3>1 DEF Owned
    <3>3. Born(j)'
      <4>1. /\ registered' = registered /\ running' = running
            /\ valid'[arg[j]] = valid[arg[j]] /\ arg[j] \in aos' <=> arg[j] \in aos
        BY <1>4, <1>5, <1>9, <3>1
      <4> QED
        BY <3>1, <4>1 DEF Born, LivePc, Alive
    <3>4. Stopped(j)'
      BY <1>4, <1>5, <3>1 DEF Stopped
    <3> QED
      BY <3>2, <3>3, <3>4
  <2> QED
    BY <2>1, <2>2, <2>3
<1>15. Objects'
  <2>1. \A b \in toStart' : b \notin registered' /\ b \notin aos' /\ ~running'[b]
    BY <1>4, <1>5 DEF Objects
  <2>2. ASSUME NEW b \in AO, running'[b]
        PROVE  Alive(b)' \/ \E j \in Task : arg'[j] = b /\ pc'[j] = "register"
    <3>1. running[b]
      BY <1>4, <2>2
    <3>2. CASE Alive(b)
      BY <1>11, <3>2
    <3>3. CASE ~Alive(b)
      <4>1. PICK j \in Task : arg[j] = b /\ pc[j] = "register"
        BY <3>1, <3>3 DEF Objects
      <4> QED
        BY <1>6, <1>7, <1>8, <4>1
    <3> QED
      BY <3>2, <3>3
  <2>3. \A b \in sub' : Alive(b)'
    BY <1>5, <1>11 DEF Objects, Types, Values, Places
  <2> QED
    BY <2>1, <2>2, <2>3 DEF Objects
<1>16. Gate'
  BY SMTT(30), <1>1, <1>4, <1>5, <1>6, <1>7 DEF Gate, Types, Values, Places, SetupPc, PosterPc
<1>17. Hand'
  <2> SUFFICES ASSUME NEW j \in Task
               PROVE  /\ pc'[j] \in {"running", "register", "subscribe", "boot"} =>
                           queue'[arg'[j]] = <<>>
                      /\ pc'[j] = "pop" => queue'[arg'[j]] # <<>>
                      /\ pc'[j] = "handle" => cur'[j] \in Event
                      /\ waitOn'[j] = j
    BY DEF Hand
  <2>1. CASE j = k
    BY <1>5, <1>7, <1>10, <2>1 DEF Hand
  <2>2. CASE j # k
    <3>1. pc'[j] = pc[j] /\ cur' = cur /\ waitOn' = waitOn
      BY <1>5, <1>7, <2>2
    <3>2. pc[j] # "none" => queue'[arg'[j]] = queue[arg[j]]
      BY <1>8, <1>9, <2>2 DEF Tasks, Owned
    <3> QED
      BY <3>1, <3>2 DEF Hand
  <2> QED
    BY <2>1, <2>2
<1>18. \A p \in Poster : pc[p] = "idle" /\ pc'[p] = "idle"
  BY <1>5, <1>6, <1>7 DEF Gate
<1>19. Posts' /\ Publishes'
  BY <1>18 DEF Posts, Posting, Stopping, Publishes
<1>20. Idlers'
  BY <1>5, <1>18 DEF Idlers
<1>21. Told'
  <2>1. \A b \in AO : \A i \in 1 .. Len(queue'[b]) : queue'[b][i] \in Stop => b \in told' /\ Unposted(b)'
    BY <1>5, <1>9, <1>10 DEF Told, Unposted
  <2>2. \A j \in Task : pc'[j] # "stop_flush" /\ pc'[j] # "handle"
    BY <1>5, <1>7 DEF Gate, SetupPc
  <2>3. \A b \in AO : b \notin told' => Len(queue'[b]) < Capacity
    BY <1>5, <1>9, <1>10 DEF Told
  <2> QED
    BY <2>1, <2>2, <2>3 DEF Told
<1>22. NoAssertFails'
  BY <1>4 DEF NoAssertFails
<1>23. NoLostWakeup'
  <2>1. \A j \in Task : pc'[j] # "wait"
    BY <1>5, <1>7 DEF Gate, SetupPc
  <2> QED
    BY <2>1 DEF NoLostWakeup
<1> QED
  BY <1>12, <1>13, <1>14, <1>15, <1>16, <1>17, <1>19, <1>20, <1>21, <1>22, <1>23

LEMMA MainLoopInv ==
  ASSUME IInv, Started, MainLoop
  PROVE  IInv'
<1> USE AoPreemptiveAssumption, CapacityAssumption DEF IInv, aoVars, regVars, cntVars, palVars, taskVars, mainVars, postVars
<1>0. PICK label \in {"run_all", "done"} :
        /\ pc[Main] = "loop" /\ pc' = [pc EXCEPT ![Main] = label]
        /\ UNCHANGED <<aoVars, regVars, cntVars, palVars, taskVars, mainVars, postVars, failed>>
  <2>1. ~(round < Rounds)
    BY <1>0 DEF Started, Types, Values
  <2> QED
    BY <2>1 DEF MainLoop, Goto
<1>1. Types'
  <2>1. Values'
    BY <1>0 DEF Types, Values, Places, Label, MainPc, PosterPc, Tasks, Owned
  <2>2. Places'
    BY <1>0 DEF Types, Places, Label, MainPc, PosterPc
  <2> QED
    BY <2>1, <2>2 DEF Types
<1>2. Counts'
  BY <1>0 DEF Types, Values, Places, Label, MainPc, PosterPc, Counts, Tasks, Owned, Born, Alive
<1>3. Tasks'
  BY <1>0 DEF Types, Values, Places, Label, MainPc, PosterPc, SetupPc, LivePc, Alive, Tasks, Owned, Born, Stopped, Objects
<1>4. Objects'
  BY <1>0 DEF Types, Values, Places, Label, MainPc, PosterPc, SetupPc, LivePc, Alive, Tasks, Owned, Born, Stopped, Objects
<1>5. Gate'
  BY <1>0 DEF Types, Values, Places, Label, MainPc, PosterPc, SetupPc, Tasks, Owned, Gate
<1>6. Hand'
  BY <1>0 DEF Types, Values, Places, Label, MainPc, PosterPc, SetupPc, LivePc, Tasks, Owned, Hand
<1>7. Posts'
  BY <1>0 DEF Types, Values, Places, Label, MainPc, PosterPc, Alive, Posts, Posting, Stopping, Tasks, Owned, Born, LivePc, Objects
<1>8. Publishes'
  BY <1>0 DEF Types, Values, Places, Label, MainPc, PosterPc, Alive, Publishes, Tasks, Owned, Born, LivePc, Objects
<1>9. Idlers'
  BY <1>0 DEF Types, Values, Places, Label, MainPc, PosterPc, Idlers
<1>10. Told'
  BY <1>0 DEF Types, Values, Places, Label, MainPc, PosterPc, Tasks, Owned, Told, Unposted
<1>11. NoAssertFails'
  BY <1>0 DEF Types, Values, Places, Label, MainPc, PosterPc, LivePc, Alive, Tasks, Owned, Born, Stopped, Hand, NoAssertFails
<1>12. NoLostWakeup'
  BY <1>0 DEF Types, Values, Places, Label, MainPc, PosterPc, Tasks, Owned, Hand, NoLostWakeup
<1> QED
  BY <1>1, <1>2, <1>3, <1>4, <1>5, <1>6, <1>7, <1>8, <1>9, <1>10, <1>11, <1>12

LEMMA RunAllInv ==
  ASSUME IInv, RunAll
  PROVE  IInv'
<1> USE AoPreemptiveAssumption, CapacityAssumption DEF IInv, Goto, Require, RunAll, aoVars, regVars, cntVars, palVars, taskVars, mainVars, postVars
<1>1. Types'
  <2>1. Values'
    BY DEF Types, Values, Places, Label, MainPc, PosterPc, Tasks, Owned
  <2>2. Places'
    BY DEF Types, Places, Label, MainPc, PosterPc
  <2> QED
    BY <2>1, <2>2 DEF Types
<1>2. Counts'
  BY DEF Types, Values, Places, Label, MainPc, PosterPc, Counts, Tasks, Owned, Born, Alive
<1>3. Tasks'
  BY DEF Types, Values, Places, Label, MainPc, PosterPc, SetupPc, LivePc, Alive, Tasks, Owned, Born, Stopped, Objects
<1>4. Objects'
  BY DEF Types, Values, Places, Label, MainPc, PosterPc, SetupPc, LivePc, Alive, Tasks, Owned, Born, Stopped, Objects
<1>5. Gate'
  BY DEF Types, Values, Places, Label, MainPc, PosterPc, SetupPc, Tasks, Owned, Gate
<1>6. Hand'
  BY DEF Types, Values, Places, Label, MainPc, PosterPc, SetupPc, LivePc, Tasks, Owned, Hand
<1>7. Posts'
  BY DEF Types, Values, Places, Label, MainPc, PosterPc, Alive, Posts, Posting, Stopping, Tasks, Owned, Born, LivePc, Objects
<1>8. Publishes'
  BY DEF Types, Values, Places, Label, MainPc, PosterPc, Alive, Publishes, Tasks, Owned, Born, LivePc, Objects
<1>9. Idlers'
  BY DEF Types, Values, Places, Label, MainPc, PosterPc, Idlers
<1>10. Told'
  BY DEF Types, Values, Places, Label, MainPc, PosterPc, Tasks, Owned, Told, Unposted
<1>11. NoAssertFails'
  BY DEF Types, Values, Places, Label, MainPc, PosterPc, LivePc, Alive, Tasks, Owned, Born, Stopped, Hand, NoAssertFails
<1>12. NoLostWakeup'
  BY DEF Types, Values, Places, Label, MainPc, PosterPc, Tasks, Owned, Hand, NoLostWakeup
<1> QED
  BY <1>1, <1>2, <1>3, <1>4, <1>5, <1>6, <1>7, <1>8, <1>9, <1>10, <1>11, <1>12

LEMMA InitWaitInv ==
  ASSUME IInv, InitWait
  PROVE  IInv'
<1> USE AoPreemptiveAssumption, CapacityAssumption DEF IInv, Goto, Require, InitWait, aoVars, regVars, cntVars, palVars, taskVars, mainVars, postVars
<1>1. Types'
  <2>1. Values'
    BY DEF Types, Values, Places, Label, MainPc, PosterPc, Tasks, Owned
  <2>2. Places'
    BY DEF Types, Places, Label, MainPc, PosterPc
  <2> QED
    BY <2>1, <2>2 DEF Types
<1>2. Counts'
  BY DEF Types, Values, Places, Label, MainPc, PosterPc, Counts, Tasks, Owned, Born, Alive
<1>3. Tasks'
  BY DEF Types, Values, Places, Label, MainPc, PosterPc, SetupPc, LivePc, Alive, Tasks, Owned, Born, Stopped, Objects
<1>4. Objects'
  BY DEF Types, Values, Places, Label, MainPc, PosterPc, SetupPc, LivePc, Alive, Tasks, Owned, Born, Stopped, Objects
<1>5. Gate'
  BY DEF Types, Values, Places, Label, MainPc, PosterPc, SetupPc, Tasks, Owned, Gate
<1>6. Hand'
  BY DEF Types, Values, Places, Label, MainPc, PosterPc, SetupPc, LivePc, Tasks, Owned, Hand
<1>7. Posts'
  BY DEF Types, Values, Places, Label, MainPc, PosterPc, Alive, Posts, Posting, Stopping, Tasks, Owned, Born, LivePc, Objects
<1>8. Publishes'
  BY DEF Types, Values, Places, Label, MainPc, PosterPc, Alive, Publishes, Tasks, Owned, Born, LivePc, Objects
<1>9. Idlers'
  BY DEF Types, Values, Places, Label, MainPc, PosterPc, Idlers
<1>10. Told'
  BY DEF Types, Values, Places, Label, MainPc, PosterPc, Tasks, Owned, Told, Unposted
<1>11. NoAssertFails'
  BY DEF Types, Values, Places, Label, MainPc, PosterPc, LivePc, Alive, Tasks, Owned, Born, Stopped, Hand, NoAssertFails
<1>12. NoLostWakeup'
  BY DEF Types, Values, Places, Label, MainPc, PosterPc, Tasks, Owned, Hand, NoLostWakeup
<1> QED
  BY <1>1, <1>2, <1>3, <1>4, <1>5, <1>6, <1>7, <1>8, <1>9, <1>10, <1>11, <1>12

LEMMA InitSleepInv ==
  ASSUME IInv, InitSleep
  PROVE  IInv'
<1> USE AoPreemptiveAssumption, CapacityAssumption DEF IInv, Goto, Require, InitSleep, MainWait, aoVars, regVars, cntVars, palVars, taskVars, mainVars, postVars
<1>1. Types'
  <2>1. Values'
    BY DEF Types, Values, Places, Label, MainPc, PosterPc, Tasks, Owned
  <2>2. Places'
    BY DEF Types, Places, Label, MainPc, PosterPc
  <2> QED
    BY <2>1, <2>2 DEF Types
<1>2. Counts'
  BY DEF Types, Values, Places, Label, MainPc, PosterPc, Counts, Tasks, Owned, Born, Alive
<1>3. Tasks'
  BY DEF Types, Values, Places, Label, MainPc, PosterPc, SetupPc, LivePc, Alive, Tasks, Owned, Born, Stopped, Objects
<1>4. Objects'
  BY DEF Types, Values, Places, Label, MainPc, PosterPc, SetupPc, LivePc, Alive, Tasks, Owned, Born, Stopped, Objects
<1>5. Gate'
  BY DEF Types, Values, Places, Label, MainPc, PosterPc, SetupPc, Tasks, Owned, Gate
<1>6. Hand'
  BY DEF Types, Values, Places, Label, MainPc, PosterPc, SetupPc, LivePc, Tasks, Owned, Hand
<1>7. Posts'
  BY DEF Types, Values, Places, Label, MainPc, PosterPc, Alive, Posts, Posting, Stopping, Tasks, Owned, Born, LivePc, Objects
<1>8. Publishes'
  BY DEF Types, Values, Places, Label, MainPc, PosterPc, Alive, Publishes, Tasks, Owned, Born, LivePc, Objects
<1>9. Idlers'
  BY DEF Types, Values, Places, Label, MainPc, PosterPc, Idlers
<1>10. Told'
  BY DEF Types, Values, Places, Label, MainPc, PosterPc, Tasks, Owned, Told, Unposted
<1>11. NoAssertFails'
  BY DEF Types, Values, Places, Label, MainPc, PosterPc, LivePc, Alive, Tasks, Owned, Born, Stopped, Hand, NoAssertFails
<1>12. NoLostWakeup'
  BY DEF Types, Values, Places, Label, MainPc, PosterPc, Tasks, Owned, Hand, NoLostWakeup
<1> QED
  BY <1>1, <1>2, <1>3, <1>4, <1>5, <1>6, <1>7, <1>8, <1>9, <1>10, <1>11, <1>12

LEMMA RunAllReturnsInv ==
  ASSUME IInv, RunAllReturns
  PROVE  IInv'
<1> USE AoPreemptiveAssumption, CapacityAssumption DEF IInv, Goto, Require, RunAllReturns, MainWait, aoVars, regVars, cntVars, palVars, taskVars, mainVars, postVars
<1>1. Types'
  <2>1. Values'
    BY DEF Types, Values, Places, Label, MainPc, PosterPc, Tasks, Owned
  <2>2. Places'
    BY DEF Types, Places, Label, MainPc, PosterPc
  <2> QED
    BY <2>1, <2>2 DEF Types
<1>2. Counts'
  BY DEF Types, Values, Places, Label, MainPc, PosterPc, Counts, Tasks, Owned, Born, Alive
<1>3. Tasks'
  BY DEF Types, Values, Places, Label, MainPc, PosterPc, SetupPc, LivePc, Alive, Tasks, Owned, Born, Stopped, Objects
<1>4. Objects'
  BY DEF Types, Values, Places, Label, MainPc, PosterPc, SetupPc, LivePc, Alive, Tasks, Owned, Born, Stopped, Objects
<1>5. Gate'
  BY DEF Types, Values, Places, Label, MainPc, PosterPc, SetupPc, Tasks, Owned, Gate
<1>6. Hand'
  BY DEF Types, Values, Places, Label, MainPc, PosterPc, SetupPc, LivePc, Tasks, Owned, Hand
<1>7. Posts'
  BY DEF Types, Values, Places, Label, MainPc, PosterPc, Alive, Posts, Posting, Stopping, Tasks, Owned, Born, LivePc, Objects
<1>8. Publishes'
  BY DEF Types, Values, Places, Label, MainPc, PosterPc, Alive, Publishes, Tasks, Owned, Born, LivePc, Objects
<1>9. Idlers'
  BY DEF Types, Values, Places, Label, MainPc, PosterPc, Idlers
<1>10. Told'
  BY DEF Types, Values, Places, Label, MainPc, PosterPc, Tasks, Owned, Told, Unposted
<1>11. NoAssertFails'
  BY DEF Types, Values, Places, Label, MainPc, PosterPc, LivePc, Alive, Tasks, Owned, Born, Stopped, Hand, NoAssertFails
<1>12. NoLostWakeup'
  BY DEF Types, Values, Places, Label, MainPc, PosterPc, Tasks, Owned, Hand, NoLostWakeup
<1> QED
  BY <1>1, <1>2, <1>3, <1>4, <1>5, <1>6, <1>7, <1>8, <1>9, <1>10, <1>11, <1>12

LEMMA TaskRunningInv ==
  ASSUME IInv, NEW k \in Task, TaskRunning(k)
  PROVE  IInv'
<1> USE AoPreemptiveAssumption, CapacityAssumption DEF IInv, Goto, Require, TaskRunning, aoVars, regVars, cntVars, palVars, taskVars, mainVars, postVars
<1>1. Types'
  <2>1. Values'
    BY DEF Types, Values, Places, Label, MainPc, PosterPc, Tasks, Owned
  <2>2. Places'
    BY DEF Types, Places, Label, MainPc, PosterPc
  <2> QED
    BY <2>1, <2>2 DEF Types
<1>2. Counts'
  BY DEF Types, Values, Places, Label, MainPc, PosterPc, Counts, Tasks, Owned, Born, Alive
<1>3. Tasks'
  BY DEF Types, Values, Places, Label, MainPc, PosterPc, SetupPc, LivePc, Alive, Tasks, Owned, Born, Stopped, Objects
<1>4. Objects'
  BY DEF Types, Values, Places, Label, MainPc, PosterPc, SetupPc, LivePc, Alive, Tasks, Owned, Born, Stopped, Objects
<1>5. Gate'
  BY DEF Types, Values, Places, Label, MainPc, PosterPc, SetupPc, Tasks, Owned, Gate
<1>6. Hand'
  BY DEF Types, Values, Places, Label, MainPc, PosterPc, SetupPc, LivePc, Tasks, Owned, Hand
<1>7. Posts'
  BY DEF Types, Values, Places, Label, MainPc, PosterPc, Alive, Posts, Posting, Stopping, Tasks, Owned, Born, LivePc, Objects
<1>8. Publishes'
  BY DEF Types, Values, Places, Label, MainPc, PosterPc, Alive, Publishes, Tasks, Owned, Born, LivePc, Objects
<1>9. Idlers'
  BY DEF Types, Values, Places, Label, MainPc, PosterPc, Idlers
<1>10. Told'
  BY DEF Types, Values, Places, Label, MainPc, PosterPc, Tasks, Owned, Told, Unposted
<1>11. NoAssertFails'
  BY DEF Types, Values, Places, Label, MainPc, PosterPc, LivePc, Alive, Tasks, Owned, Born, Stopped, Hand, NoAssertFails
<1>12. NoLostWakeup'
  BY DEF Types, Values, Places, Label, MainPc, PosterPc, Tasks, Owned, Hand, NoLostWakeup
<1> QED
  BY <1>1, <1>2, <1>3, <1>4, <1>5, <1>6, <1>7, <1>8, <1>9, <1>10, <1>11, <1>12

LEMMA TaskRegisterInv ==
  ASSUME IInv, NEW k \in Task, TaskRegister(k)
  PROVE  IInv'
<1> USE AoPreemptiveAssumption, CapacityAssumption DEF IInv, Goto, Require, TaskRegister, aoVars, regVars, cntVars, palVars, taskVars, mainVars, postVars
<1>1. Types'
  <2>1. Values'
    <3>1. prio[arg[k]] \in AO
      BY DEF Types, Places, Tasks, Owned
    <3>2. registered' = registered \cup {prio[arg[k]]} /\ sub' = sub
      OBVIOUS
    <3>3. registered \subseteq AO /\ sub \subseteq AO
      BY DEF Types, Values
    <3>4. registered' \subseteq AO /\ sub' \subseteq AO
      BY <3>1, <3>2, <3>3
    <3> QED
      BY <3>4 DEF Types, Values
  <2>2. Places'
    BY DEF Types, Places, Label, MainPc, PosterPc
  <2> QED
    BY <2>1, <2>2 DEF Types
<1>2. Counts'
  BY DEF Types, Values, Places, Label, MainPc, PosterPc, Counts, Tasks, Owned, Born, Alive
<1>3. Tasks'
  BY DEF Types, Values, Places, Label, MainPc, PosterPc, SetupPc, LivePc, Alive, Tasks, Owned, Born, Stopped, Objects
<1>4. Objects'
  BY DEF Types, Values, Places, Label, MainPc, PosterPc, SetupPc, LivePc, Alive, Tasks, Owned, Born, Stopped, Objects
<1>5. Gate'
  BY DEF Types, Values, Places, Label, MainPc, PosterPc, SetupPc, Tasks, Owned, Gate
<1>6. Hand'
  BY DEF Types, Values, Places, Label, MainPc, PosterPc, SetupPc, LivePc, Tasks, Owned, Hand
<1>7. Posts'
  BY DEF Types, Values, Places, Label, MainPc, PosterPc, Alive, Posts, Posting, Stopping, Tasks, Owned, Born, LivePc, Objects
<1>8. Publishes'
  BY DEF Types, Values, Places, Label, MainPc, PosterPc, Alive, Publishes, Tasks, Owned, Born, LivePc, Objects
<1>9. Idlers'
  BY DEF Types, Values, Places, Label, MainPc, PosterPc, Idlers
<1>10. Told'
  BY DEF Types, Values, Places, Label, MainPc, PosterPc, Tasks, Owned, Told, Unposted
<1>11. NoAssertFails'
  BY DEF Types, Values, Places, Label, MainPc, PosterPc, LivePc, Alive, Tasks, Owned, Born, Stopped, Hand, NoAssertFails
<1>12. NoLostWakeup'
  BY DEF Types, Values, Places, Label, MainPc, PosterPc, Tasks, Owned, Hand, NoLostWakeup
<1> QED
  BY <1>1, <1>2, <1>3, <1>4, <1>5, <1>6, <1>7, <1>8, <1>9, <1>10, <1>11, <1>12

LEMMA TaskSubscribeInv ==
  ASSUME IInv, NEW k \in Task, TaskSubscribe(k)
  PROVE  IInv'
<1> USE AoPreemptiveAssumption, CapacityAssumption DEF IInv, Goto, Require, TaskSubscribe, aoVars, regVars, cntVars, palVars, taskVars, mainVars, postVars
<1>1. Types'
  <2>1. Values'
    <3>1. prio[arg[k]] \in AO
      BY DEF Types, Places, Tasks, Owned
    <3>2. registered' = registered /\ sub' \subseteq sub \cup {prio[arg[k]]}
      OBVIOUS
    <3>3. registered \subseteq AO /\ sub \subseteq AO
      BY DEF Types, Values
    <3>4. registered' \subseteq AO /\ sub' \subseteq AO
      BY <3>1, <3>2, <3>3
    <3> QED
      BY <3>4 DEF Types, Values
  <2>2. Places'
    BY DEF Types, Places, Label, MainPc, PosterPc
  <2> QED
    BY <2>1, <2>2 DEF Types
<1>2. Counts'
  BY DEF Types, Values, Places, Label, MainPc, PosterPc, Counts, Tasks, Owned, Born, Alive
<1>3. Tasks'
  BY DEF Types, Values, Places, Label, MainPc, PosterPc, SetupPc, LivePc, Alive, Tasks, Owned, Born, Stopped, Objects
<1>4. Objects'
  BY DEF Types, Values, Places, Label, MainPc, PosterPc, SetupPc, LivePc, Alive, Tasks, Owned, Born, Stopped, Objects
<1>5. Gate'
  BY DEF Types, Values, Places, Label, MainPc, PosterPc, SetupPc, Tasks, Owned, Gate
<1>6. Hand'
  BY DEF Types, Values, Places, Label, MainPc, PosterPc, SetupPc, LivePc, Tasks, Owned, Hand
<1>7. Posts'
  BY DEF Types, Values, Places, Label, MainPc, PosterPc, Alive, Posts, Posting, Stopping, Tasks, Owned, Born, LivePc, Objects
<1>8. Publishes'
  BY DEF Types, Values, Places, Label, MainPc, PosterPc, Alive, Publishes, Tasks, Owned, Born, LivePc, Objects
<1>9. Idlers'
  BY DEF Types, Values, Places, Label, MainPc, PosterPc, Idlers
<1>10. Told'
  BY DEF Types, Values, Places, Label, MainPc, PosterPc, Tasks, Owned, Told, Unposted
<1>11. NoAssertFails'
  BY DEF Types, Values, Places, Label, MainPc, PosterPc, LivePc, Alive, Tasks, Owned, Born, Stopped, Hand, NoAssertFails
<1>12. NoLostWakeup'
  BY DEF Types, Values, Places, Label, MainPc, PosterPc, Tasks, Owned, Hand, NoLostWakeup
<1> QED
  BY <1>1, <1>2, <1>3, <1>4, <1>5, <1>6, <1>7, <1>8, <1>9, <1>10, <1>11, <1>12

LEMMA TaskInitDoneInv ==
  ASSUME IInv, NEW k \in Task, TaskInitDone(k)
  PROVE  IInv'
<1> USE AoPreemptiveAssumption, CapacityAssumption DEF IInv, Goto, Require, TaskInitDone, aoVars, regVars, cntVars, palVars, taskVars, mainVars, postVars
<1>1. Types'
  <2>1. Values'
    BY DEF Types, Values, Places, Label, MainPc, PosterPc, Tasks, Owned
  <2>2. Places'
    BY DEF Types, Places, Label, MainPc, PosterPc
  <2> QED
    BY <2>1, <2>2 DEF Types
<1>2. Counts'
  BY DEF Types, Values, Places, Label, MainPc, PosterPc, Counts, Tasks, Owned, Born, Alive
<1>3. Tasks'
  BY DEF Types, Values, Places, Label, MainPc, PosterPc, SetupPc, LivePc, Alive, Tasks, Owned, Born, Stopped, Objects
<1>4. Objects'
  BY DEF Types, Values, Places, Label, MainPc, PosterPc, SetupPc, LivePc, Alive, Tasks, Owned, Born, Stopped, Objects
<1>5. Gate'
  BY DEF Types, Values, Places, Label, MainPc, PosterPc, SetupPc, Tasks, Owned, Gate
<1>6. Hand'
  BY DEF Types, Values, Places, Label, MainPc, PosterPc, SetupPc, LivePc, Tasks, Owned, Hand
<1>7. Posts'
  BY DEF Types, Values, Places, Label, MainPc, PosterPc, Alive, Posts, Posting, Stopping, Tasks, Owned, Born, LivePc, Objects
<1>8. Publishes'
  BY DEF Types, Values, Places, Label, MainPc, PosterPc, Alive, Publishes, Tasks, Owned, Born, LivePc, Objects
<1>9. Idlers'
  BY DEF Types, Values, Places, Label, MainPc, PosterPc, Idlers
<1>10. Told'
  BY DEF Types, Values, Places, Label, MainPc, PosterPc, Tasks, Owned, Told, Unposted
<1>11. NoAssertFails'
  BY DEF Types, Values, Places, Label, MainPc, PosterPc, LivePc, Alive, Tasks, Owned, Born, Stopped, Hand, NoAssertFails
<1>12. NoLostWakeup'
  BY DEF Types, Values, Places, Label, MainPc, PosterPc, Tasks, Owned, Hand, NoLostWakeup
<1> QED
  BY <1>1, <1>2, <1>3, <1>4, <1>5, <1>6, <1>7, <1>8, <1>9, <1>10, <1>11, <1>12

LEMMA TaskNotifyMainInv ==
  ASSUME IInv, NEW k \in Task, TaskNotifyMain(k)
  PROVE  IInv'
<1> USE AoPreemptiveAssumption, CapacityAssumption DEF IInv, Goto, Require, TaskNotifyMain, aoVars, regVars, cntVars, palVars, taskVars, mainVars, postVars
<1>1. Types'
  <2>1. Values'
    BY DEF Types, Values, Places, Label, MainPc, PosterPc, Tasks, Owned
  <2>2. Places'
    BY DEF Types, Places, Label, MainPc, PosterPc
  <2> QED
    BY <2>1, <2>2 DEF Types
<1>2. Counts'
  BY DEF Types, Values, Places, Label, MainPc, PosterPc, Counts, Tasks, Owned, Born, Alive
<1>3. Tasks'
  BY DEF Types, Values, Places, Label, MainPc, PosterPc, SetupPc, LivePc, Alive, Tasks, Owned, Born, Stopped, Objects
<1>4. Objects'
  BY DEF Types, Values, Places, Label, MainPc, PosterPc, SetupPc, LivePc, Alive, Tasks, Owned, Born, Stopped, Objects
<1>5. Gate'
  BY DEF Types, Values, Places, Label, MainPc, PosterPc, SetupPc, Tasks, Owned, Gate
<1>6. Hand'
  BY DEF Types, Values, Places, Label, MainPc, PosterPc, SetupPc, LivePc, Tasks, Owned, Hand
<1>7. Posts'
  BY DEF Types, Values, Places, Label, MainPc, PosterPc, Alive, Posts, Posting, Stopping, Tasks, Owned, Born, LivePc, Objects
<1>8. Publishes'
  BY DEF Types, Values, Places, Label, MainPc, PosterPc, Alive, Publishes, Tasks, Owned, Born, LivePc, Objects
<1>9. Idlers'
  BY DEF Types, Values, Places, Label, MainPc, PosterPc, Idlers
<1>10. Told'
  BY DEF Types, Values, Places, Label, MainPc, PosterPc, Tasks, Owned, Told, Unposted
<1>11. NoAssertFails'
  BY DEF Types, Values, Places, Label, MainPc, PosterPc, LivePc, Alive, Tasks, Owned, Born, Stopped, Hand, NoAssertFails
<1>12. NoLostWakeup'
  BY DEF Types, Values, Places, Label, MainPc, PosterPc, Tasks, Owned, Hand, NoLostWakeup
<1> QED
  BY <1>1, <1>2, <1>3, <1>4, <1>5, <1>6, <1>7, <1>8, <1>9, <1>10, <1>11, <1>12

LEMMA TaskGateInv ==
  ASSUME IInv, NEW k \in Task, TaskGate(k)
  PROVE  IInv'
<1> USE AoPreemptiveAssumption, CapacityAssumption DEF IInv, Goto, Require, TaskGate, aoVars, regVars, cntVars, palVars, taskVars, mainVars, postVars
<1>1. Types'
  <2>1. Values'
    BY DEF Types, Values, Places, Label, MainPc, PosterPc, Tasks, Owned
  <2>2. Places'
    BY DEF Types, Places, Label, MainPc, PosterPc
  <2> QED
    BY <2>1, <2>2 DEF Types
<1>2. Counts'
  BY DEF Types, Values, Places, Label, MainPc, PosterPc, Counts, Tasks, Owned, Born, Alive
<1>3. Tasks'
  BY DEF Types, Values, Places, Label, MainPc, PosterPc, SetupPc, LivePc, Alive, Tasks, Owned, Born, Stopped, Objects
<1>4. Objects'
  BY DEF Types, Values, Places, Label, MainPc, PosterPc, SetupPc, LivePc, Alive, Tasks, Owned, Born, Stopped, Objects
<1>5. Gate'
  BY DEF Types, Values, Places, Label, MainPc, PosterPc, SetupPc, Tasks, Owned, Gate
<1>6. Hand'
  BY DEF Types, Values, Places, Label, MainPc, PosterPc, SetupPc, LivePc, Tasks, Owned, Hand
<1>7. Posts'
  BY DEF Types, Values, Places, Label, MainPc, PosterPc, Alive, Posts, Posting, Stopping, Tasks, Owned, Born, LivePc, Objects
<1>8. Publishes'
  BY DEF Types, Values, Places, Label, MainPc, PosterPc, Alive, Publishes, Tasks, Owned, Born, LivePc, Objects
<1>9. Idlers'
  BY DEF Types, Values, Places, Label, MainPc, PosterPc, Idlers
<1>10. Told'
  BY DEF Types, Values, Places, Label, MainPc, PosterPc, Tasks, Owned, Told, Unposted
<1>11. NoAssertFails'
  BY DEF Types, Values, Places, Label, MainPc, PosterPc, LivePc, Alive, Tasks, Owned, Born, Stopped, Hand, NoAssertFails
<1>12. NoLostWakeup'
  BY DEF Types, Values, Places, Label, MainPc, PosterPc, Tasks, Owned, Hand, NoLostWakeup
<1> QED
  BY <1>1, <1>2, <1>3, <1>4, <1>5, <1>6, <1>7, <1>8, <1>9, <1>10, <1>11, <1>12

LEMMA TaskLoopInv ==
  ASSUME IInv, NEW k \in Task, TaskLoop(k)
  PROVE  IInv'
<1> USE AoPreemptiveAssumption, CapacityAssumption DEF IInv, Goto, Require, TaskLoop, aoVars, regVars, cntVars, palVars, taskVars, mainVars, postVars
<1>1. Types'
  <2>1. Values'
    BY DEF Types, Values, Places, Label, MainPc, PosterPc, Tasks, Owned
  <2>2. Places'
    BY DEF Types, Places, Label, MainPc, PosterPc
  <2> QED
    BY <2>1, <2>2 DEF Types
<1>2. Counts'
  BY DEF Types, Values, Places, Label, MainPc, PosterPc, Counts, Tasks, Owned, Born, Alive
<1>3. Tasks'
  BY DEF Types, Values, Places, Label, MainPc, PosterPc, SetupPc, LivePc, Alive, Tasks, Owned, Born, Stopped, Objects
<1>4. Objects'
  BY DEF Types, Values, Places, Label, MainPc, PosterPc, SetupPc, LivePc, Alive, Tasks, Owned, Born, Stopped, Objects
<1>5. Gate'
  BY DEF Types, Values, Places, Label, MainPc, PosterPc, SetupPc, Tasks, Owned, Gate
<1>6. Hand'
  BY DEF Types, Values, Places, Label, MainPc, PosterPc, SetupPc, LivePc, Tasks, Owned, Hand
<1>7. Posts'
  BY DEF Types, Values, Places, Label, MainPc, PosterPc, Alive, Posts, Posting, Stopping, Tasks, Owned, Born, LivePc, Objects
<1>8. Publishes'
  BY DEF Types, Values, Places, Label, MainPc, PosterPc, Alive, Publishes, Tasks, Owned, Born, LivePc, Objects
<1>9. Idlers'
  BY DEF Types, Values, Places, Label, MainPc, PosterPc, Idlers
<1>10. Told'
  BY DEF Types, Values, Places, Label, MainPc, PosterPc, Tasks, Owned, Told, Unposted
<1>11. NoAssertFails'
  BY DEF Types, Values, Places, Label, MainPc, PosterPc, LivePc, Alive, Tasks, Owned, Born, Stopped, Hand, NoAssertFails
<1>12. NoLostWakeup'
  BY DEF Types, Values, Places, Label, MainPc, PosterPc, Tasks, Owned, Hand, NoLostWakeup
<1> QED
  BY <1>1, <1>2, <1>3, <1>4, <1>5, <1>6, <1>7, <1>8, <1>9, <1>10, <1>11, <1>12

LEMMA TaskCheckInv ==
  ASSUME IInv, NEW k \in Task, TaskCheck(k)
  PROVE  IInv'
<1> USE AoPreemptiveAssumption, CapacityAssumption DEF IInv, Goto, Require, TaskCheck, aoVars, regVars, cntVars, palVars, taskVars, mainVars, postVars
<1>1. Types'
  <2>1. Values'
    BY DEF Types, Values, Places, Label, MainPc, PosterPc, Tasks, Owned
  <2>2. Places'
    BY DEF Types, Places, Label, MainPc, PosterPc
  <2> QED
    BY <2>1, <2>2 DEF Types
<1>2. Counts'
  BY DEF Types, Values, Places, Label, MainPc, PosterPc, Counts, Tasks, Owned, Born, Alive
<1>3. Tasks'
  BY DEF Types, Values, Places, Label, MainPc, PosterPc, SetupPc, LivePc, Alive, Tasks, Owned, Born, Stopped, Objects
<1>4. Objects'
  BY DEF Types, Values, Places, Label, MainPc, PosterPc, SetupPc, LivePc, Alive, Tasks, Owned, Born, Stopped, Objects
<1>5. Gate'
  BY DEF Types, Values, Places, Label, MainPc, PosterPc, SetupPc, Tasks, Owned, Gate
<1>6. Hand'
  BY DEF Types, Values, Places, Label, MainPc, PosterPc, SetupPc, LivePc, Tasks, Owned, Hand
<1>7. Posts'
  BY DEF Types, Values, Places, Label, MainPc, PosterPc, Alive, Posts, Posting, Stopping, Tasks, Owned, Born, LivePc, Objects
<1>8. Publishes'
  BY DEF Types, Values, Places, Label, MainPc, PosterPc, Alive, Publishes, Tasks, Owned, Born, LivePc, Objects
<1>9. Idlers'
  BY DEF Types, Values, Places, Label, MainPc, PosterPc, Idlers
<1>10. Told'
  BY DEF Types, Values, Places, Label, MainPc, PosterPc, Tasks, Owned, Told, Unposted
<1>11. NoAssertFails'
  BY DEF Types, Values, Places, Label, MainPc, PosterPc, LivePc, Alive, Tasks, Owned, Born, Stopped, Hand, NoAssertFails
<1>12. NoLostWakeup'
  BY DEF Types, Values, Places, Label, MainPc, PosterPc, Tasks, Owned, Hand, NoLostWakeup
<1> QED
  BY <1>1, <1>2, <1>3, <1>4, <1>5, <1>6, <1>7, <1>8, <1>9, <1>10, <1>11, <1>12

LEMMA TaskWaitInv ==
  ASSUME IInv, NEW k \in Task, TaskWait(k)
  PROVE  IInv'
<1> USE AoPreemptiveAssumption, CapacityAssumption DEF IInv, Goto, Require, TaskWait, aoVars, regVars, cntVars, palVars, taskVars, mainVars, postVars
<1>1. Types'
  <2>1. Values'
    BY DEF Types, Values, Places, Label, MainPc, PosterPc, Tasks, Owned
  <2>2. Places'
    BY DEF Types, Places, Label, MainPc, PosterPc
  <2> QED
    BY <2>1, <2>2 DEF Types
<1>2. Counts'
  BY DEF Types, Values, Places, Label, MainPc, PosterPc, Counts, Tasks, Owned, Born, Alive
<1>3. Tasks'
  BY DEF Types, Values, Places, Label, MainPc, PosterPc, SetupPc, LivePc, Alive, Tasks, Owned, Born, Stopped, Objects
<1>4. Objects'
  BY DEF Types, Values, Places, Label, MainPc, PosterPc, SetupPc, LivePc, Alive, Tasks, Owned, Born, Stopped, Objects
<1>5. Gate'
  BY DEF Types, Values, Places, Label, MainPc, PosterPc, SetupPc, Tasks, Owned, Gate
<1>6. Hand'
  BY DEF Types, Values, Places, Label, MainPc, PosterPc, SetupPc, LivePc, Tasks, Owned, Hand
<1>7. Posts'
  BY DEF Types, Values, Places, Label, MainPc, PosterPc, Alive, Posts, Posting, Stopping, Tasks, Owned, Born, LivePc, Objects
<1>8. Publishes'
  BY DEF Types, Values, Places, Label, MainPc, PosterPc, Alive, Publishes, Tasks, Owned, Born, LivePc, Objects
<1>9. Idlers'
  BY DEF Types, Values, Places, Label, MainPc, PosterPc, Idlers
<1>10. Told'
  BY DEF Types, Values, Places, Label, MainPc, PosterPc, Tasks, Owned, Told, Unposted
<1>11. NoAssertFails'
  BY DEF Types, Values, Places, Label, MainPc, PosterPc, LivePc, Alive, Tasks, Owned, Born, Stopped, Hand, NoAssertFails
<1>12. NoLostWakeup'
  BY DEF Types, Values, Places, Label, MainPc, PosterPc, Tasks, Owned, Hand, NoLostWakeup
<1> QED
  BY <1>1, <1>2, <1>3, <1>4, <1>5, <1>6, <1>7, <1>8, <1>9, <1>10, <1>11, <1>12

LEMMA TaskPopInv ==
  ASSUME IInv, NEW k \in Task, TaskPop(k)
  PROVE  IInv'
<1> USE AoPreemptiveAssumption, CapacityAssumption DEF IInv, Goto, Require, TaskPop, aoVars, regVars, cntVars, palVars, taskVars, mainVars, postVars
<1>a. /\ arg[k] \in AO /\ queue[arg[k]] \in Seq(Event) /\ queue[arg[k]] # <<>>
      /\ Tail(queue[arg[k]]) \in Seq(Event) /\ Head(queue[arg[k]]) \in Event
      /\ Len(Tail(queue[arg[k]])) = Len(queue[arg[k]]) - 1
      /\ \A i \in 1 .. Len(Tail(queue[arg[k]])) :
           i + 1 \in 1 .. Len(queue[arg[k]]) /\ Tail(queue[arg[k]])[i] = queue[arg[k]][i + 1]
      /\ 1 \in 1 .. Len(queue[arg[k]]) /\ Head(queue[arg[k]]) = queue[arg[k]][1]
  <2>1. arg[k] \in AO /\ queue[arg[k]] \in Seq(Event) /\ queue[arg[k]] # <<>>
    BY DEF Types, Values, Tasks, Owned, Hand
  <2> QED
    BY <2>1
<1>b. /\ cur' = [cur EXCEPT ![k] = Head(queue[arg[k]])]
      /\ queue' = [queue EXCEPT ![arg[k]] = Tail(@)]
      /\ pc' = [pc EXCEPT ![k] = "handle"] /\ UNCHANGED failed
  BY <1>a
<1>c. \A j \in Task : j # k => pc'[j] = pc[j] /\ cur'[j] = cur[j]
  BY <1>b DEF Types, Values, Places
<1>d. \A a \in AO : a # arg[k] => queue'[a] = queue[a]
  BY <1>b DEF Types, Values
<1>e. pc'[k] = "handle" /\ cur'[k] = Head(queue[arg[k]]) /\ queue'[arg[k]] = Tail(queue[arg[k]])
  BY <1>a, <1>b DEF Types, Values, Places
<1>f. \A j \in Task : j # k /\ pc[j] # "none" => arg[j] # arg[k] /\ arg[j] \in AO
  BY DEF Tasks, Owned
<1>g. ASSUME NEW a \in AO, Len(queue[a]) < Capacity PROVE Len(queue'[a]) < Capacity
  <2>1. CASE a = arg[k]
    <3>1. Len(queue'[a]) = Len(queue[arg[k]]) - 1
      BY <1>a, <1>e, <2>1
    <3>2. Len(queue[arg[k]]) \in Nat
      BY <1>a
    <3> QED
      BY <1>g, <2>1, <3>1, <3>2
  <2>2. CASE a # arg[k]
    BY <1>d, <1>g, <2>2
  <2> QED
    BY <2>1, <2>2
<1>1. Types'
  <2>1. Values'
    <3>1. queue' \in [AO -> Seq(Event)] /\ \A a \in AO : Len(queue'[a]) <= Capacity
      <4>1. Len(queue[arg[k]]) \in Nat /\ Capacity \in Nat
        BY <1>a
      <4>2. queue' \in [AO -> Seq(Event)]
        BY <1>a, <1>b DEF Types, Values
      <4> QED
        BY <1>a, <1>d, <1>e, <4>1, <4>2 DEF Types, Values
    <3>2. cur' \in [Task -> Event \cup {NoEvent}]
      BY <1>a, <1>b DEF Types, Values
    <3> QED
      BY <3>1, <3>2 DEF Types, Values
  <2>2. Places'
    BY DEF Types, Places, Label, MainPc, PosterPc
  <2> QED
    BY <2>1, <2>2 DEF Types
<1>2. Counts'
  BY DEF Types, Values, Places, Label, MainPc, PosterPc, Counts, Tasks, Owned, Born, Alive
<1>3. Tasks'
  BY DEF Types, Values, Places, Label, MainPc, PosterPc, SetupPc, LivePc, Alive, Tasks, Owned, Born, Stopped, Objects
<1>4. Objects'
  BY DEF Types, Values, Places, Label, MainPc, PosterPc, SetupPc, LivePc, Alive, Tasks, Owned, Born, Stopped, Objects
<1>5. Gate'
  BY DEF Types, Values, Places, Label, MainPc, PosterPc, SetupPc, Tasks, Owned, Gate
<1>6. Hand'
  <2> SUFFICES ASSUME NEW j \in Task
               PROVE  /\ pc'[j] \in {"running", "register", "subscribe", "boot"} =>
                           queue'[arg'[j]] = <<>>
                      /\ pc'[j] = "pop" => queue'[arg'[j]] # <<>>
                      /\ pc'[j] = "handle" => cur'[j] \in Event
                      /\ waitOn'[j] = j
    BY DEF Hand
  <2>1. CASE j = k
    BY <1>a, <1>e, <2>1 DEF Hand
  <2>2. CASE j # k
    BY <1>c, <1>d, <1>f, <2>2 DEF Hand
  <2> QED
    BY <2>1, <2>2
<1>7. Posts'
  <2>2. (\A q \in Poster : pc'[q] = pc[q]) /\ UNCHANGED <<post, todo, told, running, valid, registered, aos>>
    BY DEF Types, Places
  <2> SUFFICES ASSUME NEW q \in Poster PROVE (Posting(q) /\ Stopping(q))'
    BY DEF Posts
  <2>4. Posting(q)'
    BY <2>2 DEF Posts, Posting, Alive
  <2>5. Stopping(q)'
    <3>1. pc[q] = "push" => post[q].dest \in AO
      BY DEF Posts, Posting
    <3> QED
      BY <1>g, <2>2, <3>1 DEF Posts, Stopping
  <2> QED
    BY <2>4, <2>5
<1>8. Publishes'
  BY DEF Types, Values, Places, Label, MainPc, PosterPc, Alive, Publishes, Tasks, Owned, Born, LivePc, Objects
<1>9. Idlers'
  BY DEF Types, Values, Places, Label, MainPc, PosterPc, Idlers
<1>10. Told'
  <2>2. ASSUME NEW a \in AO, NEW i \in 1 .. Len(queue'[a])
        PROVE  \E n \in 1 .. Len(queue[a]) : queue'[a][i] = queue[a][n]
    <3>1. CASE a = arg[k]
      <4>1. i \in 1 .. Len(Tail(queue[arg[k]])) /\ queue'[a][i] = Tail(queue[arg[k]])[i]
        BY <1>e, <2>2, <3>1
      <4> QED
        BY <1>a, <3>1, <4>1
    <3>2. CASE a # arg[k]
      BY <1>d, <2>2, <3>2
    <3> QED
      BY <3>1, <3>2
  <2>3. UNCHANGED <<post, todo, told, arg>>
    OBVIOUS
  <2>4. ASSUME NEW a \in AO, NEW i \in 1 .. Len(queue'[a]), queue'[a][i] \in Stop
        PROVE  a \in told' /\ Unposted(a)'
    <3>1. PICK n \in 1 .. Len(queue[a]) : queue'[a][i] = queue[a][n]
      BY <2>2
    <3>2. a \in told /\ Unposted(a)
      BY <2>4, <3>1 DEF Told
    <3> QED
      BY <2>3, <3>2 DEF Unposted
  <2>5. ASSUME NEW j \in Task, pc'[j] = "stop_flush" \/ (pc'[j] = "handle" /\ cur'[j] \in Stop)
        PROVE  arg'[j] \in told' /\ Unposted(arg[j])'
    <3>1. CASE j = k
      BY <1>a, <1>e, <2>3, <2>5, <3>1 DEF Told, Unposted
    <3>2. CASE j # k
      BY <1>c, <2>3, <2>5, <3>2 DEF Told, Unposted
    <3> QED
      BY <3>1, <3>2
  <2> QED
    BY <1>g, <2>3, <2>4, <2>5 DEF Told
<1>11. NoAssertFails'
  BY DEF Types, Values, Places, Label, MainPc, PosterPc, LivePc, Alive, Tasks, Owned, Born, Stopped, Hand, NoAssertFails
<1>12. NoLostWakeup'
  <2>1. \A j \in Task : pc'[j] = "wait" => j # k /\ arg[j] # arg[k] /\ arg[j] \in AO
    BY <1>c, <1>e, <1>f
  <2> QED
    BY <1>c, <1>d, <2>1 DEF NoLostWakeup
<1> QED
  BY <1>1, <1>2, <1>3, <1>4, <1>5, <1>6, <1>7, <1>8, <1>9, <1>10, <1>11, <1>12

LEMMA HandleReturnInv ==
  ASSUME IInv, NEW k \in Task, HandleReturn(k)
  PROVE  IInv'
<1> USE AoPreemptiveAssumption, CapacityAssumption DEF IInv, Goto, Require, HandleReturn, aoVars, regVars, cntVars, palVars, taskVars, mainVars, postVars
<1>1. Types'
  <2>1. Values'
    BY DEF Types, Values, Places, Label, MainPc, PosterPc, Tasks, Owned
  <2>2. Places'
    BY DEF Types, Places, Label, MainPc, PosterPc
  <2> QED
    BY <2>1, <2>2 DEF Types
<1>2. Counts'
  BY DEF Types, Values, Places, Label, MainPc, PosterPc, Counts, Tasks, Owned, Born, Alive
<1>3. Tasks'
  BY DEF Types, Values, Places, Label, MainPc, PosterPc, SetupPc, LivePc, Alive, Tasks, Owned, Born, Stopped, Objects
<1>4. Objects'
  BY DEF Types, Values, Places, Label, MainPc, PosterPc, SetupPc, LivePc, Alive, Tasks, Owned, Born, Stopped, Objects
<1>5. Gate'
  BY DEF Types, Values, Places, Label, MainPc, PosterPc, SetupPc, Tasks, Owned, Gate
<1>6. Hand'
  BY DEF Types, Values, Places, Label, MainPc, PosterPc, SetupPc, LivePc, Tasks, Owned, Hand
<1>7. Posts'
  BY DEF Types, Values, Places, Label, MainPc, PosterPc, Alive, Posts, Posting, Stopping, Tasks, Owned, Born, LivePc, Objects
<1>8. Publishes'
  BY DEF Types, Values, Places, Label, MainPc, PosterPc, Alive, Publishes, Tasks, Owned, Born, LivePc, Objects
<1>9. Idlers'
  BY DEF Types, Values, Places, Label, MainPc, PosterPc, Idlers
<1>10. Told'
  BY DEF Types, Values, Places, Label, MainPc, PosterPc, Tasks, Owned, Told, Unposted
<1>11. NoAssertFails'
  BY DEF Types, Values, Places, Label, MainPc, PosterPc, LivePc, Alive, Tasks, Owned, Born, Stopped, Hand, NoAssertFails
<1>12. NoLostWakeup'
  BY DEF Types, Values, Places, Label, MainPc, PosterPc, Tasks, Owned, Hand, NoLostWakeup
<1> QED
  BY <1>1, <1>2, <1>3, <1>4, <1>5, <1>6, <1>7, <1>8, <1>9, <1>10, <1>11, <1>12

LEMMA TaskReleaseInv ==
  ASSUME IInv, StaticStop, NEW k \in Task, TaskRelease(k)
  PROVE  IInv'
<1> USE AoPreemptiveAssumption, CapacityAssumption DEF IInv, Goto, Require, TaskRelease, aoVars, regVars, cntVars, palVars, taskVars, mainVars, postVars
<1>1. Types'
  <2>1. Values'
    BY DEF Types, Values, Places, Label, MainPc, PosterPc, Tasks, Owned
  <2>2. Places'
    BY DEF Types, Places, Label, MainPc, PosterPc
  <2> QED
    BY <2>1, <2>2 DEF Types
<1>2. Counts'
  BY DEF Types, Values, Places, Label, MainPc, PosterPc, Counts, Tasks, Owned, Born, Alive
<1>3. Tasks'
  BY DEF Types, Values, Places, Label, MainPc, PosterPc, SetupPc, LivePc, Alive, Tasks, Owned, Born, Stopped, Objects
<1>4. Objects'
  BY DEF Types, Values, Places, Label, MainPc, PosterPc, SetupPc, LivePc, Alive, Tasks, Owned, Born, Stopped, Objects
<1>5. Gate'
  BY DEF Types, Values, Places, Label, MainPc, PosterPc, SetupPc, Tasks, Owned, Gate
<1>6. Hand'
  BY DEF Types, Values, Places, Label, MainPc, PosterPc, SetupPc, LivePc, Tasks, Owned, Hand
<1>7. Posts'
  BY DEF Types, Values, Places, Label, MainPc, PosterPc, Alive, Posts, Posting, Stopping, Tasks, Owned, Born, LivePc, Objects
<1>8. Publishes'
  BY DEF Types, Values, Places, Label, MainPc, PosterPc, Alive, Publishes, Tasks, Owned, Born, LivePc, Objects
<1>9. Idlers'
  BY DEF Types, Values, Places, Label, MainPc, PosterPc, Idlers
<1>10. Told'
  BY DEF Types, Values, Places, Label, MainPc, PosterPc, Tasks, Owned, Told, Unposted
<1>11. NoAssertFails'
  <2>1. running[arg[k]] => valid[arg[k]]
    BY DEF Tasks, Born, Alive
  <2>2. ~running[arg[k]] => cur[k] \notin Dynamic
    BY DEF Tasks, Stopped, StaticStop
  <2>3. cur[k] \in Dynamic => valid[arg[k]]
    BY <2>1, <2>2
  <2> QED
    BY <2>3 DEF NoAssertFails
<1>12. NoLostWakeup'
  BY DEF Types, Values, Places, Label, MainPc, PosterPc, Tasks, Owned, Hand, NoLostWakeup
<1> QED
  BY <1>1, <1>2, <1>3, <1>4, <1>5, <1>6, <1>7, <1>8, <1>9, <1>10, <1>11, <1>12

LEMMA TaskExitInv ==
  ASSUME IInv, NEW k \in Task, TaskExit(k)
  PROVE  IInv'
<1> USE AoPreemptiveAssumption, CapacityAssumption DEF IInv, Goto, Require, TaskExit, aoVars, regVars, cntVars, palVars, taskVars, mainVars, postVars
<1>1. Types'
  <2>1. Values'
    BY DEF Types, Values, Places, Label, MainPc, PosterPc, Tasks, Owned
  <2>2. Places'
    BY DEF Types, Places, Label, MainPc, PosterPc
  <2> QED
    BY <2>1, <2>2 DEF Types
<1>2. Counts'
  <2>1. created' = created \ {k} /\ k \in created /\ created \subseteq Task
    BY DEF Tasks, Owned, Types, Values
  <2>2. IsFiniteSet(created)
    <3>1. IsFiniteSet(Task)
      BY FS_Interval DEF Task
    <3> QED
      BY <2>1, <3>1, FS_Subset
  <2>3. Cardinality(created') = Cardinality(created) - 1
    BY <2>1, <2>2, FS_RemoveElement
  <2>4. UNCHANGED <<aos, cnt, toStart>>
    OBVIOUS
  <2>5. toStart = {}
    BY DEF Gate, SetupPc
  <2>6. Cardinality(toStart) = 0 /\ Cardinality(created) \in Nat
    BY <2>2, <2>5, FS_EmptySet, FS_CardinalityType
  <2> QED
    BY <2>3, <2>4, <2>6 DEF Counts
<1>3. Tasks'
  BY DEF Types, Values, Places, Label, MainPc, PosterPc, SetupPc, LivePc, Alive, Tasks, Owned, Born, Stopped, Objects
<1>4. Objects'
  BY DEF Types, Values, Places, Label, MainPc, PosterPc, SetupPc, LivePc, Alive, Tasks, Owned, Born, Stopped, Objects
<1>5. Gate'
  BY DEF Types, Values, Places, Label, MainPc, PosterPc, SetupPc, Tasks, Owned, Gate
<1>6. Hand'
  BY DEF Types, Values, Places, Label, MainPc, PosterPc, SetupPc, LivePc, Tasks, Owned, Hand
<1>7. Posts'
  BY DEF Types, Values, Places, Label, MainPc, PosterPc, Alive, Posts, Posting, Stopping, Tasks, Owned, Born, LivePc, Objects
<1>8. Publishes'
  BY DEF Types, Values, Places, Label, MainPc, PosterPc, Alive, Publishes, Tasks, Owned, Born, LivePc, Objects
<1>9. Idlers'
  BY DEF Types, Values, Places, Label, MainPc, PosterPc, Idlers
<1>10. Told'
  BY DEF Types, Values, Places, Label, MainPc, PosterPc, Tasks, Owned, Told, Unposted
<1>11. NoAssertFails'
  BY DEF Types, Values, Places, Label, MainPc, PosterPc, LivePc, Alive, Tasks, Owned, Born, Stopped, Hand, NoAssertFails
<1>12. NoLostWakeup'
  BY DEF Types, Values, Places, Label, MainPc, PosterPc, Tasks, Owned, Hand, NoLostWakeup
<1> QED
  BY <1>1, <1>2, <1>3, <1>4, <1>5, <1>6, <1>7, <1>8, <1>9, <1>10, <1>11, <1>12

LEMMA StopUnsubscribeInv ==
  ASSUME IInv, NEW k \in Task, StopUnsubscribe(k)
  PROVE  IInv'
<1> USE AoPreemptiveAssumption, CapacityAssumption DEF IInv, Goto, Require, StopUnsubscribe, aoVars, regVars, cntVars, palVars, taskVars, mainVars, postVars
<1>1. Types'
  <2>1. Values'
    BY DEF Types, Values, Places, Label, MainPc, PosterPc, Tasks, Owned
  <2>2. Places'
    BY DEF Types, Places, Label, MainPc, PosterPc
  <2> QED
    BY <2>1, <2>2 DEF Types
<1>2. Counts'
  BY DEF Types, Values, Places, Label, MainPc, PosterPc, Counts, Tasks, Owned, Born, Alive
<1>3. Tasks'
  BY DEF Types, Values, Places, Label, MainPc, PosterPc, SetupPc, LivePc, Alive, Tasks, Owned, Born, Stopped, Objects
<1>4. Objects'
  BY DEF Types, Values, Places, Label, MainPc, PosterPc, SetupPc, LivePc, Alive, Tasks, Owned, Born, Stopped, Objects
<1>5. Gate'
  BY DEF Types, Values, Places, Label, MainPc, PosterPc, SetupPc, Tasks, Owned, Gate
<1>6. Hand'
  BY DEF Types, Values, Places, Label, MainPc, PosterPc, SetupPc, LivePc, Tasks, Owned, Hand
<1>7. Posts'
  BY DEF Types, Values, Places, Label, MainPc, PosterPc, Alive, Posts, Posting, Stopping, Tasks, Owned, Born, LivePc, Objects
<1>8. Publishes'
  BY DEF Types, Values, Places, Label, MainPc, PosterPc, Alive, Publishes, Tasks, Owned, Born, LivePc, Objects
<1>9. Idlers'
  BY DEF Types, Values, Places, Label, MainPc, PosterPc, Idlers
<1>10. Told'
  BY DEF Types, Values, Places, Label, MainPc, PosterPc, Tasks, Owned, Told, Unposted
<1>11. NoAssertFails'
  BY DEF Types, Values, Places, Label, MainPc, PosterPc, LivePc, Alive, Tasks, Owned, Born, Stopped, Hand, NoAssertFails
<1>12. NoLostWakeup'
  BY DEF Types, Values, Places, Label, MainPc, PosterPc, Tasks, Owned, Hand, NoLostWakeup
<1> QED
  BY <1>1, <1>2, <1>3, <1>4, <1>5, <1>6, <1>7, <1>8, <1>9, <1>10, <1>11, <1>12

LEMMA StopFlushInv ==
  ASSUME IInv, NEW k \in Task, StopFlush(k)
  PROVE  IInv'
<1> USE AoPreemptiveAssumption, CapacityAssumption DEF IInv, Goto, Require, StopFlush, aoVars, regVars, cntVars, palVars, taskVars, mainVars, postVars
<1>1. Types'
  <2>1. Values'
    <3>1. arg[k] \in AO /\ prio[arg[k]] = arg[k]
      BY DEF Types, Places, Tasks, Owned
    <3>2. queue' \in [AO -> Seq(Event)] /\ \A a \in AO : Len(queue'[a]) <= Capacity
      BY <3>1 DEF Types, Values
    <3>3. aos' \subseteq AO
      BY DEF Types, Values
    <3> QED
      BY <3>1, <3>2, <3>3 DEF Types, Values
  <2>2. Places'
    BY DEF Types, Places, Label, MainPc, PosterPc
  <2> QED
    BY <2>1, <2>2 DEF Types
<1>2. Counts'
  <2>1. arg[k] \in aos /\ prio[arg[k]] = arg[k]
    BY DEF Tasks, Owned, Born, LivePc, Alive
  <2>2. aos' = aos \ {arg[k]} /\ cnt' = cnt - 1 /\ created' = created /\ toStart' = toStart
    BY <2>1
  <2>3. IsFiniteSet(aos)
    BY DEF Counts
  <2>4. /\ IsFiniteSet(aos \ {arg[k]})
        /\ Cardinality(aos \ {arg[k]}) = Cardinality(aos) - 1
    BY <2>1, <2>3, FS_RemoveElement
  <2> QED
    BY <2>2, <2>4 DEF Counts
<1>3. Tasks'
  BY DEF Types, Values, Places, Label, MainPc, PosterPc, SetupPc, LivePc, Alive, Tasks, Owned, Born, Stopped, Objects
<1>4. Objects'
  BY DEF Types, Values, Places, Label, MainPc, PosterPc, SetupPc, LivePc, Alive, Tasks, Owned, Born, Stopped, Objects
<1>5. Gate'
  BY DEF Types, Values, Places, Label, MainPc, PosterPc, SetupPc, Tasks, Owned, Gate
<1>6. Hand'
  BY DEF Types, Values, Places, Label, MainPc, PosterPc, SetupPc, LivePc, Tasks, Owned, Hand
<1>7. Posts'
  <2>1. Unposted(arg[k]) /\ prio[arg[k]] = arg[k]
    BY DEF Told, Tasks, Owned
  <2>2. \A a \in AO : a # arg[k] =>
          /\ running'[a] = running[a] /\ valid'[a] = valid[a] /\ queue'[a] = queue[a]
          /\ a \in aos' <=> a \in aos
    BY <2>1 DEF Types, Values
  <2>3. (\A q \in Poster : pc'[q] = pc[q]) /\ UNCHANGED <<post, todo, told, registered>>
    BY DEF Types, Places
  <2> SUFFICES ASSUME NEW q \in Poster PROVE (Posting(q) /\ Stopping(q))'
    BY DEF Posts
  <2>4. post[q].dest # arg[k]
    BY <2>1 DEF Unposted
  <2>5. pc[q] = "push" => post[q].dest \in AO
    BY DEF Posts, Posting
  <2>6. Posting(q)'
    <3>1. \A a \in AO : a # arg[k] /\ Alive(a) =>
            running'[a] /\ valid'[a] /\ a \in aos' /\ a \in registered'
      BY <2>2, <2>3 DEF Alive
    <3>2. pc[q] = "push" => Alive(post[q].dest)
      BY DEF Posts, Posting
    <3>3. post'[q].dest = post[q].dest
      BY <2>3
    <3>4. pc[q] = "push" => Alive(post[q].dest)'
      BY <2>4, <2>5, <3>1, <3>2, <3>3 DEF Alive
    <3> QED
      BY <2>3, <3>4 DEF Posts, Posting
  <2>7. Stopping(q)'
    BY <2>2, <2>3, <2>4, <2>5 DEF Posts, Stopping
  <2> QED
    BY <2>6, <2>7
<1>8. Publishes'
  <2>1. Unposted(arg[k])
    BY DEF Told
  <2>2. \A a \in AO : a # arg[k] => (Alive(a)' <=> Alive(a)) /\ queue'[a] = queue[a]
    BY DEF Types, Values, Alive, Tasks, Owned
  <2>3. \A q \in Poster : pc'[q] = pc[q] /\ post' = post /\ todo' = todo /\ told' = told
    BY DEF Types, Places
  <2>4. todo \in [Poster -> SUBSET AO]
    BY DEF Types, Values
  <2> QED
    BY <2>1, <2>2, <2>3, <2>4 DEF Publishes, Unposted
<1>9. Idlers'
  BY DEF Types, Values, Places, Label, MainPc, PosterPc, Idlers
<1>10. Told'
  BY DEF Types, Values, Places, Label, MainPc, PosterPc, Tasks, Owned, Told, Unposted
<1>11. NoAssertFails'
  BY DEF Types, Values, Places, Label, MainPc, PosterPc, LivePc, Alive, Tasks, Owned, Born, Stopped, Hand, NoAssertFails
<1>12. NoLostWakeup'
  BY DEF Types, Values, Places, Label, MainPc, PosterPc, Tasks, Owned, Hand, NoLostWakeup
<1> QED
  BY <1>1, <1>2, <1>3, <1>4, <1>5, <1>6, <1>7, <1>8, <1>9, <1>10, <1>11, <1>12

LEMMA StopUnregisterInv ==
  ASSUME IInv, NEW k \in Task, StopUnregister(k)
  PROVE  IInv'
<1> USE AoPreemptiveAssumption, CapacityAssumption DEF IInv, Goto, Require, StopUnregister, aoVars, regVars, cntVars, palVars, taskVars, mainVars, postVars
<1>1. Types'
  <2>1. Values'
    BY DEF Types, Values, Places, Label, MainPc, PosterPc, Tasks, Owned
  <2>2. Places'
    BY DEF Types, Places, Label, MainPc, PosterPc
  <2> QED
    BY <2>1, <2>2 DEF Types
<1>2. Counts'
  BY DEF Types, Values, Places, Label, MainPc, PosterPc, Counts, Tasks, Owned, Born, Alive
<1>3. Tasks'
  BY DEF Types, Values, Places, Label, MainPc, PosterPc, SetupPc, LivePc, Alive, Tasks, Owned, Born, Stopped, Objects
<1>4. Objects'
  BY DEF Types, Values, Places, Label, MainPc, PosterPc, SetupPc, LivePc, Alive, Tasks, Owned, Born, Stopped, Objects
<1>5. Gate'
  BY DEF Types, Values, Places, Label, MainPc, PosterPc, SetupPc, Tasks, Owned, Gate
<1>6. Hand'
  BY DEF Types, Values, Places, Label, MainPc, PosterPc, SetupPc, LivePc, Tasks, Owned, Hand
<1>7. Posts'
  <2>1. ~running[arg[k]] /\ prio[arg[k]] = arg[k]
    BY DEF Tasks, Owned, Stopped
  <2>2. \A a \in AO : Alive(a) => a \in registered'
    BY <2>1 DEF Alive
  <2>3. (\A q \in Poster : pc'[q] = pc[q]) /\ UNCHANGED <<post, todo, told, queue, aoVars, aos>>
    BY DEF Types, Places
  <2> SUFFICES ASSUME NEW q \in Poster PROVE (Posting(q) /\ Stopping(q))'
    BY DEF Posts
  <2>4. Posting(q)'
    <3>1. pc[q] = "push" => post[q].dest \in AO /\ Alive(post[q].dest)
      BY DEF Posts, Posting
    <3>2. post'[q].dest = post[q].dest
      BY <2>3
    <3>3. UNCHANGED <<running, valid, aos>>
      BY <2>3 DEF aoVars
    <3>4. pc[q] = "push" => Alive(post[q].dest)'
      BY <2>2, <3>1, <3>2, <3>3 DEF Alive
    <3> QED
      BY <2>3, <3>4 DEF Posts, Posting
  <2>5. Stopping(q)'
    BY <2>3 DEF Posts, Stopping
  <2> QED
    BY <2>4, <2>5
<1>8. Publishes'
  <2>1. ~running[arg[k]] /\ prio[arg[k]] = arg[k]
    BY DEF Tasks, Owned, Stopped
  <2>2. \A a \in AO : Alive(a) => Alive(a)'
    BY <2>1 DEF Alive
  <2>3. \A q \in Poster : pc'[q] = pc[q] /\ post' = post /\ todo' = todo /\ told' = told /\ queue' = queue
    BY DEF Types, Places
  <2>4. todo \in [Poster -> SUBSET AO]
    BY DEF Types, Values
  <2> QED
    BY <2>2, <2>3, <2>4 DEF Publishes
<1>9. Idlers'
  BY DEF Types, Values, Places, Label, MainPc, PosterPc, Idlers
<1>10. Told'
  BY DEF Types, Values, Places, Label, MainPc, PosterPc, Tasks, Owned, Told, Unposted
<1>11. NoAssertFails'
  BY DEF Types, Values, Places, Label, MainPc, PosterPc, LivePc, Alive, Tasks, Owned, Born, Stopped, Hand, NoAssertFails
<1>12. NoLostWakeup'
  BY DEF Types, Values, Places, Label, MainPc, PosterPc, Tasks, Owned, Hand, NoLostWakeup
<1> QED
  BY <1>1, <1>2, <1>3, <1>4, <1>5, <1>6, <1>7, <1>8, <1>9, <1>10, <1>11, <1>12

LEMMA StopNotifyInv ==
  ASSUME IInv, NEW k \in Task, StopNotify(k)
  PROVE  IInv'
<1> USE AoPreemptiveAssumption, CapacityAssumption DEF IInv, Goto, Require, StopNotify, aoVars, regVars, cntVars, palVars, taskVars, mainVars, postVars
<1>1. Types'
  <2>1. Values'
    BY DEF Types, Values, Places, Label, MainPc, PosterPc, Tasks, Owned
  <2>2. Places'
    BY DEF Types, Places, Label, MainPc, PosterPc
  <2> QED
    BY <2>1, <2>2 DEF Types
<1>2. Counts'
  BY DEF Types, Values, Places, Label, MainPc, PosterPc, Counts, Tasks, Owned, Born, Alive
<1>3. Tasks'
  BY DEF Types, Values, Places, Label, MainPc, PosterPc, SetupPc, LivePc, Alive, Tasks, Owned, Born, Stopped, Objects
<1>4. Objects'
  BY DEF Types, Values, Places, Label, MainPc, PosterPc, SetupPc, LivePc, Alive, Tasks, Owned, Born, Stopped, Objects
<1>5. Gate'
  BY DEF Types, Values, Places, Label, MainPc, PosterPc, SetupPc, Tasks, Owned, Gate
<1>6. Hand'
  BY DEF Types, Values, Places, Label, MainPc, PosterPc, SetupPc, LivePc, Tasks, Owned, Hand
<1>7. Posts'
  BY DEF Types, Values, Places, Label, MainPc, PosterPc, Alive, Posts, Posting, Stopping, Tasks, Owned, Born, LivePc, Objects
<1>8. Publishes'
  BY DEF Types, Values, Places, Label, MainPc, PosterPc, Alive, Publishes, Tasks, Owned, Born, LivePc, Objects
<1>9. Idlers'
  BY DEF Types, Values, Places, Label, MainPc, PosterPc, Idlers
<1>10. Told'
  BY DEF Types, Values, Places, Label, MainPc, PosterPc, Tasks, Owned, Told, Unposted
<1>11. NoAssertFails'
  BY DEF Types, Values, Places, Label, MainPc, PosterPc, LivePc, Alive, Tasks, Owned, Born, Stopped, Hand, NoAssertFails
<1>12. NoLostWakeup'
  BY DEF Types, Values, Places, Label, MainPc, PosterPc, Tasks, Owned, Hand, NoLostWakeup
<1> QED
  BY <1>1, <1>2, <1>3, <1>4, <1>5, <1>6, <1>7, <1>8, <1>9, <1>10, <1>11, <1>12

LEMMA PostCheckInv ==
  ASSUME IInv, NEW p \in Poster, NEW b \in AO, NEW e \in Event, NEW margin \in 0 .. Capacity - 1, PostCheck(p, b, e, margin),
         e \in Stop => margin = 0, e \notin Stop => margin \in Margins
  PROVE  IInv'
<1> USE AoPreemptiveAssumption, CapacityAssumption DEF IInv, Goto, Require, PostCheck, aoVars, regVars, cntVars, palVars, taskVars, mainVars, postVars
<1>1. Types'
  <2>1. Values'
    <3>1. [dest |-> b, event |-> e, margin |-> margin] \in PostType
      BY DEF PostType
    <3> QED
      BY <3>1 DEF Types, Values
  <2>2. Places'
    BY DEF Types, Places, Label, MainPc, PosterPc
  <2> QED
    BY <2>1, <2>2 DEF Types
<1>2. Counts'
  BY DEF Types, Values, Places, Label, MainPc, PosterPc, Counts, Tasks, Owned, Born, Alive
<1>3. Tasks'
  BY DEF Types, Values, Places, Label, MainPc, PosterPc, SetupPc, LivePc, Alive, Tasks, Owned, Born, Stopped, Objects
<1>4. Objects'
  BY DEF Types, Values, Places, Label, MainPc, PosterPc, SetupPc, LivePc, Alive, Tasks, Owned, Born, Stopped, Objects
<1>5. Gate'
  BY DEF Types, Values, Places, Label, MainPc, PosterPc, SetupPc, Tasks, Owned, Gate
<1>6. Hand'
  BY DEF Types, Values, Places, Label, MainPc, PosterPc, SetupPc, LivePc, Tasks, Owned, Hand
<1>7. Posts'
  <2>1. /\ gate /\ running[b] /\ b \notin told /\ pc[p] = "idle"
        /\ e \in Stop => Unposted(b)
      OBVIOUS
  <2>2. Alive(b)
    <3>1. gate => \A k \in Task : pc[k] # "register"
      BY DEF Gate, SetupPc, Tasks, Owned
    <3> QED
      BY <2>1, <3>1 DEF Objects
  <2>3. todo[p] = {} /\ Len(queue[b]) < Capacity
    BY <2>1 DEF Idlers, Told
  <2>4. /\ \A q \in Poster : q # p => pc'[q] = pc[q] /\ post'[q] = post[q]
        /\ post'[p] = [dest |-> b, event |-> e, margin |-> margin] /\ pc'[p] = "push"
        /\ UNCHANGED <<todo, queue, aoVars, registered, aos>>
        /\ told \subseteq told' /\ (e \in Stop => b \in told')
    BY DEF Types, Values, Places
  <2> SUFFICES ASSUME NEW q \in Poster PROVE (Posting(q) /\ Stopping(q))'
    BY DEF Posts
  <2>6. CASE q = p
    <3>1. Posting(q)'
      BY <2>2, <2>3, <2>4, <2>6 DEF Posting, Alive
    <3>2. Stopping(q)'
      BY <2>1, <2>3, <2>4, <2>6 DEF Stopping, Unposted
    <3> QED
      BY <3>1, <3>2
  <2>7. CASE q # p
    <3>1. Posting(q)'
      BY <2>4, <2>7 DEF Posts, Posting, Alive
    <3>2. pc[q] = "push" /\ post[q].event \in Stop => post[q].dest \in told
      BY DEF Posts, Stopping
    <3>3. Stopping(q)'
      BY <2>1, <2>4, <2>7, <3>2 DEF Posts, Stopping
    <3> QED
      BY <3>1, <3>3
  <2> QED
    BY <2>6, <2>7
<1>8. Publishes'
  BY DEF Types, Values, Places, Label, MainPc, PosterPc, Alive, Publishes, Tasks, Owned, Born, LivePc, Objects
<1>9. Idlers'
  BY DEF Types, Values, Places, Label, MainPc, PosterPc, Idlers
<1>10. Told'
  BY DEF Types, Values, Places, Label, MainPc, PosterPc, Tasks, Owned, Told, Unposted
<1>11. NoAssertFails'
  BY DEF Types, Values, Places, Label, MainPc, PosterPc, LivePc, Alive, Tasks, Owned, Born, Stopped, Hand, NoAssertFails
<1>12. NoLostWakeup'
  BY DEF Types, Values, Places, Label, MainPc, PosterPc, Tasks, Owned, Hand, NoLostWakeup
<1> QED
  BY <1>1, <1>2, <1>3, <1>4, <1>5, <1>6, <1>7, <1>8, <1>9, <1>10, <1>11, <1>12

LEMMA PublishSnapshotInv ==
  ASSUME IInv, NEW p \in Poster, NEW e \in Event \ Stop, NEW margin \in Margins, PublishSnapshot(p, e, margin)
  PROVE  IInv'
<1> USE AoPreemptiveAssumption, CapacityAssumption DEF IInv, Goto, Require, PublishSnapshot, aoVars, regVars, cntVars, palVars, taskVars, mainVars, postVars
<1>1. Types'
  <2>1. Values'
    <3>1. [dest |-> 0, event |-> e, margin |-> margin] \in PostType
      BY DEF PostType
    <3> QED
      BY <3>1 DEF Types, Values
  <2>2. Places'
    BY DEF Types, Places, Label, MainPc, PosterPc
  <2> QED
    BY <2>1, <2>2 DEF Types
<1>2. Counts'
  BY DEF Types, Values, Places, Label, MainPc, PosterPc, Counts, Tasks, Owned, Born, Alive
<1>3. Tasks'
  BY DEF Types, Values, Places, Label, MainPc, PosterPc, SetupPc, LivePc, Alive, Tasks, Owned, Born, Stopped, Objects
<1>4. Objects'
  BY DEF Types, Values, Places, Label, MainPc, PosterPc, SetupPc, LivePc, Alive, Tasks, Owned, Born, Stopped, Objects
<1>5. Gate'
  BY DEF Types, Values, Places, Label, MainPc, PosterPc, SetupPc, Tasks, Owned, Gate
<1>6. Hand'
  BY DEF Types, Values, Places, Label, MainPc, PosterPc, SetupPc, LivePc, Tasks, Owned, Hand
<1>7. Posts'
  BY DEF Types, Values, Places, Label, MainPc, PosterPc, Alive, Posts, Posting, Stopping, Tasks, Owned, Born, LivePc, Objects
<1>8. Publishes'
  BY DEF Types, Values, Places, Label, MainPc, PosterPc, Alive, Publishes, Tasks, Owned, Born, LivePc, Objects
<1>9. Idlers'
  BY DEF Types, Values, Places, Label, MainPc, PosterPc, Idlers
<1>10. Told'
  BY DEF Types, Values, Places, Label, MainPc, PosterPc, Tasks, Owned, Told, Unposted
<1>11. NoAssertFails'
  BY DEF Types, Values, Places, Label, MainPc, PosterPc, LivePc, Alive, Tasks, Owned, Born, Stopped, Hand, NoAssertFails
<1>12. NoLostWakeup'
  BY DEF Types, Values, Places, Label, MainPc, PosterPc, Tasks, Owned, Hand, NoLostWakeup
<1> QED
  BY <1>1, <1>2, <1>3, <1>4, <1>5, <1>6, <1>7, <1>8, <1>9, <1>10, <1>11, <1>12

LEMMA PublishEndInv ==
  ASSUME IInv, NEW p \in Poster, PublishEnd(p)
  PROVE  IInv'
<1> USE AoPreemptiveAssumption, CapacityAssumption DEF IInv, Goto, Require, PublishEnd, aoVars, regVars, cntVars, palVars, taskVars, mainVars, postVars
<1>1. Types'
  <2>1. Values'
    <3>1. NoPost \in PostType
      BY DEF NoPost, PostType
    <3> QED
      BY <3>1 DEF Types, Values
  <2>2. Places'
    BY DEF Types, Places, Label, MainPc, PosterPc
  <2> QED
    BY <2>1, <2>2 DEF Types
<1>2. Counts'
  BY DEF Types, Values, Places, Label, MainPc, PosterPc, Counts, Tasks, Owned, Born, Alive
<1>3. Tasks'
  BY DEF Types, Values, Places, Label, MainPc, PosterPc, SetupPc, LivePc, Alive, Tasks, Owned, Born, Stopped, Objects
<1>4. Objects'
  BY DEF Types, Values, Places, Label, MainPc, PosterPc, SetupPc, LivePc, Alive, Tasks, Owned, Born, Stopped, Objects
<1>5. Gate'
  BY DEF Types, Values, Places, Label, MainPc, PosterPc, SetupPc, Tasks, Owned, Gate
<1>6. Hand'
  BY DEF Types, Values, Places, Label, MainPc, PosterPc, SetupPc, LivePc, Tasks, Owned, Hand
<1>7. Posts'
  <2>1. \A q \in Poster : q # p => pc'[q] = pc[q] /\ post'[q] = post[q]
    BY DEF Types, Values, Places
  <2>2. pc'[p] = "idle" /\ post'[p].dest = 0 /\ UNCHANGED <<todo, told, queue, aoVars, registered, aos>>
    BY DEF Types, Values, Places, NoPost
  <2> SUFFICES ASSUME NEW q \in Poster PROVE (Posting(q) /\ Stopping(q))'
    BY DEF Posts
  <2>3. CASE q = p
    BY <2>2, <2>3 DEF Posting, Stopping
  <2>4. CASE q # p
    <3>1. Posting(q)'
      BY <2>1, <2>2, <2>4 DEF Posts, Posting, Alive
    <3>2. Stopping(q)'
      <4>1. post[q].event \in Stop /\ pc[q] = "push" => post[q].dest \in AO
        BY DEF Posts, Posting
      <4> QED
        BY <2>1, <2>2, <2>4, <4>1 DEF Posts, Stopping
    <3> QED
      BY <3>1, <3>2
  <2> QED
    BY <2>3, <2>4
<1>8. Publishes'
  BY DEF Types, Values, Places, Label, MainPc, PosterPc, Alive, Publishes, Tasks, Owned, Born, LivePc, Objects
<1>9. Idlers'
  BY DEF Types, Values, Places, Label, MainPc, PosterPc, Idlers
<1>10. Told'
  <2>1. \A a \in AO : Unposted(a) => Unposted(a)'
    <3>1. \A q \in Poster : post'[q] = post[q] \/ post'[q].dest = 0
      BY DEF Types, Values, NoPost
    <3> QED
      BY <3>1 DEF Unposted
  <2>2. \A j \in Task : pc'[j] = pc[j] /\ (pc[j] # "none" => arg[j] \in AO)
    BY DEF Types, Places, Tasks, Owned
  <2> QED
    BY <2>1, <2>2 DEF Told
<1>11. NoAssertFails'
  BY DEF Types, Values, Places, Label, MainPc, PosterPc, LivePc, Alive, Tasks, Owned, Born, Stopped, Hand, NoAssertFails
<1>12. NoLostWakeup'
  BY DEF Types, Values, Places, Label, MainPc, PosterPc, Tasks, Owned, Hand, NoLostWakeup
<1> QED
  BY <1>1, <1>2, <1>3, <1>4, <1>5, <1>6, <1>7, <1>8, <1>9, <1>10, <1>11, <1>12
-----------------------------------------------------------------------------
(* Pushes.                                                                 *)

\* The event becomes the last of the queue of b, which had room, or nothing changes.
Pushed(q, r, b, e, margin) ==
  \/ r = q
  \/ r = [q EXCEPT ![b] = Append(@, e)] /\ Capacity - Len(q[b]) > margin

\* What a push does to the queues, point by point.
Grown(q, r, b, e, m) ==
  /\ r \in [AO -> Seq(Event)]
  /\ \A a \in AO : Len(r[a]) <= Capacity
  /\ \A a \in AO : a # b => r[a] = q[a]
  /\ Len(r[b]) <= Len(q[b]) + 1
  /\ m > 0 /\ Len(q[b]) < Capacity => Len(r[b]) < Capacity
  /\ \A i \in 1 .. Len(r[b]) : (i \in 1 .. Len(q[b]) /\ r[b][i] = q[b][i]) \/ r[b][i] = e
  /\ q[b] # <<>> => r[b] # <<>>

LEMMA PushedQueues ==
  ASSUME NEW q \in [AO -> Seq(Event)], NEW r, NEW b \in AO, NEW e \in Event,
         NEW m \in 0 .. Capacity - 1, Pushed(q, r, b, e, m),
         \A a \in AO : Len(q[a]) <= Capacity
  PROVE  Grown(q, r, b, e, m)
<1> USE CapacityAssumption
<1>1. CASE r = q
  BY <1>1 DEF Grown
<1>2. CASE r = [q EXCEPT ![b] = Append(@, e)] /\ Capacity - Len(q[b]) > m
  <2>1. /\ q[b] \in Seq(Event) /\ Append(q[b], e) \in Seq(Event)
        /\ Len(q[b]) \in Nat /\ Len(Append(q[b], e)) = Len(q[b]) + 1
        /\ \A i \in 1 .. Len(q[b]) : Append(q[b], e)[i] = q[b][i]
        /\ Append(q[b], e)[Len(q[b]) + 1] = e /\ Append(q[b], e) # <<>>
    BY SMTT(30)
  <2>2. r[b] = Append(q[b], e) /\ \A a \in AO : a # b => r[a] = q[a]
    BY <1>2
  <2>3. r \in [AO -> Seq(Event)]
    BY <1>2, <2>1
  <2>4. Len(r[b]) <= Capacity /\ (m > 0 => Len(r[b]) < Capacity)
    BY <1>2, <2>1, <2>2
  <2>5. \A i \in 1 .. Len(r[b]) : (i \in 1 .. Len(q[b]) /\ r[b][i] = q[b][i]) \/ r[b][i] = e
    BY <2>1, <2>2
  <2>6. \A a \in AO : Len(r[a]) <= Capacity
    BY <2>2, <2>4
  <2> QED
    BY <2>1, <2>2, <2>3, <2>4, <2>5, <2>6 DEF Grown
<1> QED
  BY <1>1, <1>2 DEF Pushed

\* The queues and notifications after an active object was given event e by a push
\* with margin m, or refused it.
Given(b, e, m) ==
  /\ Grown(queue, queue', b, e, m)
  /\ queue[b] = <<>> /\ queue'[b] # <<>> /\ taskId[b] # NoTask => taskId[b] \in notified'
  /\ notified \subseteq notified' /\ notified' \subseteq Task \cup {Main}
  /\ failed' = "none"

\* What the handler of a running active object does when its queue has room for the
\* event, or may refuse it.
LEMMA HandlerFnStep ==
  ASSUME IInv, NEW b \in AO, running[b], NEW e \in Event, NEW m \in 0 .. Capacity - 1,
         m > 0 \/ Len(queue[b]) < Capacity, HandlerFn(b, e, m)
  PROVE  Given(b, e, m)
<1> USE CapacityAssumption
<1>1. /\ queue \in [AO -> Seq(Event)] /\ \A a \in AO : Len(queue[a]) <= Capacity
      /\ taskId[b] \in Task \cup {NoTask} /\ notified \subseteq Task \cup {Main}
      /\ failed = "none" /\ Len(queue[b]) \in Nat
  BY DEF IInv, Types, Values, NoAssertFails
<1>2. failed' = "none"
  BY <1>1 DEF HandlerFn, Require, NoRoom
<1>3. \/ queue' = queue /\ notified' = notified
      \/ /\ queue' = [queue EXCEPT ![b] = Append(@, e)] /\ Capacity - Len(queue[b]) > m
         /\ NotifyOwner(b)
  BY <1>1 DEF HandlerFn, NoRoom
<1>4. Pushed(queue, queue', b, e, m)
  BY <1>3 DEF Pushed
<1>5. /\ queue[b] = <<>> /\ queue'[b] # <<>> /\ taskId[b] # NoTask => taskId[b] \in notified'
      /\ notified \subseteq notified' /\ notified' \subseteq Task \cup {Main}
  BY <1>1, <1>3 DEF NotifyOwner, WasEmpty
<1>6. PICK r : r = queue'
  OBVIOUS
<1>7. Grown(queue, r, b, e, m)
  <2>1. Pushed(queue, r, b, e, m)
    BY <1>4, <1>6
  <2> QED
    BY <1>1, <2>1, PushedQueues
<1> QED
  BY <1>2, <1>5, <1>6, <1>7 DEF Given

\* Variables that a push leaves alone.
steady == <<valid, running, taskId, prio, registered, sub, aos, cnt, initDone, created,
            initComplete, gate, arg, waitOn, cur, toStart, round, told>>

\* A task pushes an event other than a stop event to its own active object.
LEMMA TaskPush ==
  ASSUME IInv, NEW k \in Task, NEW e \in Event \ Stop, NEW m \in 0 .. Capacity - 1,
         pc[k] \in {"boot", "handle"},
         m > 0 \/ (queue[arg[k]] = <<>> /\ Capacity > 1),
         HandlerFn(arg[k], e, m),
         pc' = [pc EXCEPT ![k] = IF pc[k] = "boot" THEN "init_done" ELSE "release"],
         UNCHANGED <<steady, post, todo>>
  PROVE  IInv'
<1> USE AoPreemptiveAssumption, CapacityAssumption DEF IInv
<1> DEFINE b == arg[k]
<1>1. b \in AO /\ Alive(b) /\ taskId[b] = k
  BY DEF Tasks, Owned, Born, LivePc
<1>2. Given(b, e, m)
  <2>1. m > 0 \/ Len(queue[b]) < Capacity
    OBVIOUS
  <2>2. running[b]
    BY <1>1 DEF Alive
  <2> QED
    BY <1>1, <2>1, <2>2, HandlerFnStep
<1> HIDE DEF b
<1>3. /\ pc'[k] = IF pc[k] = "boot" THEN "init_done" ELSE "release"
      /\ \A x \in Task \cup Poster \cup {Main} : x # k => pc'[x] = pc[x]
      /\ pc'[Main] = pc[Main] /\ \A p \in Poster : pc'[p] = pc[p]
  BY DEF Types, Places
<1>4. /\ UNCHANGED <<valid, running, taskId, prio, registered, sub, aos, cnt, initDone>>
      /\ UNCHANGED <<created, initComplete, gate, arg, waitOn, cur, toStart, round, told, post, todo>>
  BY DEF steady
<1>5. \A a \in AO : Len(queue[a]) < Capacity => Len(queue'[a]) < Capacity
  <2>1. CASE m > 0
    BY <1>2, <2>1 DEF Given, Grown
  <2>2. CASE m = 0
    <3>1. queue[b] = <<>> /\ Capacity > 1
      BY <2>2 DEF b
    <3>2. Len(queue'[b]) <= 1 /\ Len(queue'[b]) \in Nat
      <4>1. queue' \in [AO -> Seq(Event)] /\ Len(queue'[b]) <= Len(queue[b]) + 1
        BY <1>2 DEF Given, Grown
      <4> QED
        BY <1>1, <3>1, <4>1
    <3> QED
      BY <1>2, <3>1, <3>2 DEF Given, Grown
  <2> QED
    BY <2>1, <2>2
<1>6. Types'
  <2>1. Values'
    BY <1>2, <1>4 DEF Given, Grown, Types, Values
  <2>2. Places'
    BY DEF Types, Places, Label, MainPc, PosterPc
  <2> QED
    BY <2>1, <2>2 DEF Types
<1>7. Counts'
  BY <1>4 DEF Counts
<1>8. Tasks'
  BY <1>3, <1>4 DEF Tasks, Owned, Born, Stopped, LivePc, Alive
<1>9. Objects'
  BY <1>3, <1>4 DEF Objects, Alive
<1>10. Gate'
  BY <1>3, <1>4 DEF Gate, SetupPc
<1>11. Hand'
  <2> SUFFICES ASSUME NEW j \in Task
               PROVE  /\ pc'[j] \in {"running", "register", "subscribe", "boot"} =>
                           queue'[arg'[j]] = <<>>
                      /\ pc'[j] = "pop" => queue'[arg'[j]] # <<>>
                      /\ pc'[j] = "handle" => cur'[j] \in Event
                      /\ waitOn'[j] = j
    BY DEF Hand
  <2>1. CASE j = k
    BY <1>3, <1>4, <2>1 DEF Hand
  <2>2. CASE j # k
    <3>1. pc[j] # "none" => arg[j] # b /\ arg[j] \in AO
      BY <1>1, <2>2 DEF Tasks, Owned
    <3>2. pc[j] # "none" => queue'[arg[j]] = queue[arg[j]]
      BY <1>2, <3>1 DEF Given, Grown
    <3> QED
      BY <1>3, <1>4, <2>2, <3>2 DEF Hand
  <2> QED
    BY <2>1, <2>2
<1>12. Posts'
  <2> SUFFICES ASSUME NEW q \in Poster PROVE (Posting(q) /\ Stopping(q))'
    BY DEF Posts
  <2>1. Posting(q)'
    BY <1>3, <1>4 DEF Posts, Posting, Alive
  <2>2. pc[q] = "push" => post[q].dest \in AO
    BY DEF Posts, Posting
  <2>3. Stopping(q)'
    <3>1. ASSUME pc[q] = "push", post[q].event \in Stop
          PROVE  Len(queue'[post[q].dest]) < Capacity
      <4>1. Len(queue[post[q].dest]) < Capacity
        BY <3>1 DEF Posts, Stopping
      <4> QED
        BY <1>5, <2>2, <3>1, <4>1
    <3> QED
      BY <1>3, <1>4, <3>1 DEF Posts, Stopping
  <2> QED
    BY <2>1, <2>3
<1>13. Publishes' /\ Idlers'
  BY <1>3, <1>4 DEF Publishes, Idlers, Alive
<1>14. Told'
  <2>1. ASSUME NEW a \in AO, NEW i \in 1 .. Len(queue'[a]), queue'[a][i] \in Stop
        PROVE  a \in told /\ Unposted(a)
    BY <1>1, <1>2, <2>1 DEF Given, Grown, Told
  <2>2. \A j \in Task : pc'[j] = "stop_flush" \/ (pc'[j] = "handle" /\ cur[j] \in Stop) =>
          arg[j] \in told /\ Unposted(arg[j])
    BY <1>3 DEF Told
  <2> QED
    BY <1>4, <1>5, <2>1, <2>2 DEF Told, Unposted
<1>15. NoAssertFails'
  BY <1>2 DEF Given, Grown, NoAssertFails
<1>16. NoLostWakeup'
  <2> SUFFICES ASSUME NEW j \in Task, pc'[j] = "wait", queue'[arg'[j]] # <<>>
               PROVE  waitOn'[j] \in notified'
    BY DEF NoLostWakeup
  <2>1. j # k /\ pc[j] = "wait"
    BY <1>3
  <2>2. arg[j] # b /\ arg[j] \in AO
    BY <1>1, <2>1 DEF Tasks, Owned
  <2>3. queue[arg[j]] # <<>>
    BY <1>2, <1>4, <2>2 DEF Given, Grown
  <2> QED
    BY <1>2, <1>4, <2>1, <2>3 DEF Given, Grown, NoLostWakeup
<1> QED
  BY <1>6, <1>7, <1>8, <1>9, <1>10, <1>11, <1>12, <1>13, <1>14, <1>15, <1>16

LEMMA TaskBootInv ==
  ASSUME IInv, Bootable, NEW k \in Task, TaskBoot(k)
  PROVE  IInv'
<1>1. /\ pc[k] = "boot" /\ pc' = [pc EXCEPT ![k] = "init_done"]
      /\ UNCHANGED <<steady, post, todo>>
  BY DEF TaskBoot, Goto, regVars, cntVars, taskVars, mainVars, postVars, steady
<1>2. CASE \E e \in Boot : HandlerFn(arg[k], e, 0)
  <2>1. PICK e \in Boot : HandlerFn(arg[k], e, 0)
    BY <1>2
  <2>2. e \in Event \ Stop /\ Capacity > 1 /\ 0 \in 0 .. Capacity - 1
    BY AoPreemptiveAssumption, CapacityAssumption DEF Bootable
  <2>3. queue[arg[k]] = <<>>
    BY <1>1 DEF IInv, Hand
  <2> QED
    BY <1>1, <2>1, <2>2, <2>3, TaskPush
<1>3. CASE UNCHANGED <<queue, notified, failed>>
  <2>1. UNCHANGED <<queue, notified, failed, valid, running, taskId, prio, registered, sub,
                    aos, cnt, initDone, created, initComplete, gate, arg, waitOn, cur,
                    toStart, round, told, post, todo>>
    BY <1>1, <1>3 DEF steady
  <2>2. /\ pc'[k] = "init_done" /\ \A x \in Task : x # k => pc'[x] = pc[x]
        /\ pc'[Main] = pc[Main] /\ \A p \in Poster : pc'[p] = pc[p]
    BY <1>1, AoPreemptiveAssumption DEF IInv, Types, Places
  <2>3. Types'
    BY <1>1, <2>1, <2>2 DEF IInv, Types, Values, Places, Label, MainPc, PosterPc
  <2>4. Counts' /\ NoAssertFails'
    BY <2>1 DEF IInv, Counts, NoAssertFails
  <2>5. Tasks'
    BY <1>1, <2>1, <2>2 DEF IInv, Tasks, Owned, Born, Stopped, LivePc, Alive
  <2>6. Objects' /\ Gate'
    BY <1>1, <2>1, <2>2 DEF IInv, Objects, Gate, SetupPc, Alive
  <2>7. Hand' /\ NoLostWakeup'
    BY <1>1, <2>1, <2>2 DEF IInv, Hand, NoLostWakeup
  <2>8. Posts'
    BY <2>1, <2>2 DEF IInv, Posts, Posting, Stopping, Alive
  <2>9. Publishes' /\ Idlers'
    BY <2>1, <2>2 DEF IInv, Publishes, Idlers, Alive
  <2>10. Told'
    BY <1>1, <2>1, <2>2 DEF IInv, Told, Unposted
  <2> QED
    BY <2>3, <2>4, <2>5, <2>6, <2>7, <2>8, <2>9, <2>10 DEF IInv
<1> QED
  BY <1>2, <1>3 DEF TaskBoot

LEMMA HandlePostInv ==
  ASSUME IInv, Refusable, NEW k \in Task, NEW e \in Event, NEW m \in Margins,
         HandlePost(k, e, m)
  PROVE  IInv'
<1>1. /\ pc[k] = "handle" /\ pc' = [pc EXCEPT ![k] = "release"] /\ e \in Event \ Stop
      /\ HandlerFn(arg[k], e, m) /\ UNCHANGED <<steady, post, todo>>
  BY DEF HandlePost, Goto, regVars, cntVars, taskVars, mainVars, postVars, steady
<1>2. m \in 0 .. Capacity - 1 /\ m > 0
  BY AoPreemptiveAssumption, CapacityAssumption DEF Refusable
<1> QED
  BY <1>1, <1>2, TaskPush

\* The parts of the invariant that a poster leaves alone when it pushes to b.
LEMMA PosterPush ==
  ASSUME IInv, NEW b \in AO, NEW e \in Event, NEW m \in 0 .. Capacity - 1,
         Given(b, e, m), UNCHANGED steady, gate,
         \A x \in Task \cup {Main} : pc'[x] = pc[x]
  PROVE  /\ Counts' /\ Tasks' /\ Objects' /\ Hand' /\ NoAssertFails' /\ NoLostWakeup'
         /\ (\A p \in Poster : pc'[p] # "idle" => pc[p] # "idle") => Gate'
<1> USE AoPreemptiveAssumption, CapacityAssumption DEF IInv
<1>1. /\ UNCHANGED <<valid, running, taskId, prio, registered, sub, aos, cnt, initDone>>
      /\ UNCHANGED <<created, initComplete, gate, arg, waitOn, cur, toStart, round, told>>
  BY DEF steady
<1>2. pc'[Main] = pc[Main] /\ \A j \in Task : pc'[j] = pc[j]
  OBVIOUS
<1>3. Counts' /\ NoAssertFails'
  BY <1>1 DEF Counts, NoAssertFails, Given, Grown
<1>4. Tasks'
  BY <1>1, <1>2 DEF Tasks, Owned, Born, Stopped, LivePc, Alive
<1>5. Objects'
  BY <1>1, <1>2 DEF Objects, Alive
<1>6. (\A p \in Poster : pc'[p] # "idle" => pc[p] # "idle") => Gate'
  BY <1>1, <1>2 DEF Gate, SetupPc, Types, Values
<1>7. \A a \in AO : a # b => queue'[a] = queue[a]
  BY DEF Given, Grown
<1>8. \A j \in Task : pc[j] # "none" => arg[j] \in AO /\ taskId[arg[j]] = j
  BY DEF Tasks, Owned
<1>10. Hand'
  <2> SUFFICES ASSUME NEW j \in Task
               PROVE  /\ pc'[j] \in {"running", "register", "subscribe", "boot"} =>
                           queue'[arg'[j]] = <<>>
                      /\ pc'[j] = "pop" => queue'[arg'[j]] # <<>>
                      /\ pc'[j] = "handle" => cur'[j] \in Event
                      /\ waitOn'[j] = j
    BY DEF Hand
  <2>1. pc'[j] \notin {"running", "register", "subscribe", "boot"}
    BY <1>2 DEF Gate, Tasks, Owned
  <2>2. pc[j] = "pop" => queue'[arg[j]] # <<>>
    <3>1. pc[j] = "pop" => arg[j] \in AO /\ queue[arg[j]] # <<>>
      BY <1>8 DEF Hand
    <3> QED
      BY <1>7, <3>1 DEF Given, Grown
  <2> QED
    BY <1>1, <1>2, <2>1, <2>2 DEF Hand
<1>11. NoLostWakeup'
  <2> SUFFICES ASSUME NEW j \in Task, pc'[j] = "wait", queue'[arg'[j]] # <<>>
               PROVE  waitOn'[j] \in notified'
    BY DEF NoLostWakeup
  <2>1. pc[j] = "wait" /\ arg[j] \in AO /\ taskId[arg[j]] = j /\ waitOn[j] = j /\ j # NoTask
    BY <1>2, <1>8 DEF Hand, NoTask, Task
  <2>2. CASE queue[arg[j]] # <<>>
    BY <1>1, <2>1, <2>2 DEF NoLostWakeup, Given, Grown
  <2>3. CASE queue[arg[j]] = <<>>
    <3>1. arg[j] = b
      BY <1>1, <1>7, <2>1, <2>3
    <3> QED
      BY <1>1, <2>1, <2>3, <3>1 DEF Given, Grown
  <2> QED
    BY <2>2, <2>3
<1> QED
  BY <1>3, <1>4, <1>5, <1>6, <1>10, <1>11

LEMMA PostPushInv ==
  ASSUME IInv, Refusable, NEW p \in Poster, PostPush(p)
  PROVE  IInv'
<1> USE AoPreemptiveAssumption, CapacityAssumption
<1> DEFINE b == post[p].dest
           e == post[p].event
           m == post[p].margin
<1>1. /\ b \in AO /\ Alive(b) /\ e \in Event /\ m \in 0 .. Capacity - 1
      /\ pc[p] = "push" /\ todo[p] = {} /\ gate
      /\ e \notin Stop => m > 0
      /\ e \in Stop => /\ Len(queue[b]) < Capacity /\ b \in told
                       /\ \A q \in Poster \ {p} : post[q].dest # b /\ b \notin todo[q]
  <2>1. pc[p] = "push"
    BY DEF PostPush
  <2>2. /\ b \in AO /\ Alive(b) /\ e \in Event /\ todo[p] = {} /\ gate
        /\ e \notin Stop => m \in Margins
    BY <2>1 DEF IInv, Posts, Posting, Gate
  <2>3. m \in 0 .. Capacity - 1
    BY DEF IInv, Types, Values, PostType
  <2>4. e \in Stop => /\ Len(queue[b]) < Capacity /\ b \in told
                       /\ \A q \in Poster \ {p} : post[q].dest # b /\ b \notin todo[q]
    BY <2>1 DEF IInv, Posts, Stopping
  <2>5. e \notin Stop => m > 0
    BY <2>2, <2>3 DEF Refusable
  <2> QED
    BY <2>1, <2>2, <2>3, <2>4, <2>5
<1>2. /\ HandlerFn(b, e, m)
      /\ post' = [post EXCEPT ![p] = NoPost] /\ pc' = [pc EXCEPT ![p] = "idle"]
      /\ UNCHANGED <<steady, todo>>
  BY <1>1 DEF PostPush, Alive, Goto, regVars, cntVars, taskVars, mainVars, steady
<1> HIDE DEF b, e, m
<1>3. Given(b, e, m)
  <2>1. m > 0 \/ Len(queue[b]) < Capacity
    BY <1>1
  <2> QED
    BY <1>1, <1>2, <2>1, HandlerFnStep DEF Alive
<1>4. /\ pc'[p] = "idle" /\ \A x \in Task \cup {Main} : pc'[x] = pc[x]
      /\ \A q \in Poster : q # p => pc'[q] = pc[q] /\ post'[q] = post[q]
      /\ post'[p] = NoPost /\ post'[p].dest = 0
  BY <1>2 DEF IInv, Types, Values, Places, NoPost
<1>5. /\ UNCHANGED <<valid, running, taskId, prio, registered, sub, aos, cnt, initDone>>
      /\ UNCHANGED <<created, initComplete, gate, arg, waitOn, cur, toStart, round, told, todo>>
  BY <1>2 DEF steady
<1>6. Types'
  <2>1. NoPost \in PostType
    BY DEF NoPost, PostType
  <2>2. Values'
    BY <1>2, <1>3, <1>5, <2>1 DEF IInv, Types, Values, Given, Grown
  <2>3. Places'
    BY <1>2 DEF IInv, Types, Places, PosterPc
  <2> QED
    BY <2>2, <2>3 DEF Types
<1>7. Counts' /\ Tasks' /\ Objects' /\ Hand' /\ NoAssertFails' /\ NoLostWakeup' /\ Gate'
  <2>1. \A q \in Poster : pc'[q] # "idle" => pc[q] # "idle"
    BY <1>4
  <2> QED
    BY <1>1, <1>2, <1>3, <1>4, <2>1, PosterPush
<1>8. \A a \in AO : a # b => queue'[a] = queue[a]
  BY <1>3 DEF Given, Grown
<1>9. Posts'
  <2> SUFFICES ASSUME NEW q \in Poster PROVE (Posting(q) /\ Stopping(q))'
    BY DEF Posts
  <2>1. CASE q = p
    BY <1>4, <2>1 DEF Posting, Stopping
  <2>2. CASE q # p
    <3>1. Posting(q)'
      BY <1>4, <1>5, <2>2 DEF IInv, Posts, Posting, Alive
    <3>2. pc[q] = "push" /\ post[q].event \in Stop =>
            post[q].dest \in AO /\ post[q].dest # b /\ post[q].dest # 0
      BY <1>1, <2>2 DEF IInv, Posts, Posting, Stopping, b
    <3>3. ASSUME pc[q] = "push", post[q].event \in Stop
          PROVE  /\ Len(queue'[post[q].dest]) < Capacity
                 /\ \A t \in Poster \ {q} : post'[t].dest # post[q].dest /\ post[q].dest \notin todo[t]
      <4>1. /\ Len(queue[post[q].dest]) < Capacity
            /\ \A t \in Poster \ {q} : post[t].dest # post[q].dest /\ post[q].dest \notin todo[t]
        BY <3>3 DEF IInv, Posts, Stopping
      <4> QED
        BY <1>4, <1>8, <3>2, <3>3, <4>1
    <3>4. Stopping(q)'
      BY <1>4, <1>5, <2>2, <3>3 DEF IInv, Posts, Stopping
    <3> QED
      BY <3>1, <3>4
  <2> QED
    BY <2>1, <2>2
<1>10. Publishes' /\ Idlers'
  BY <1>1, <1>4, <1>5 DEF IInv, Publishes, Idlers, Alive
<1>11. Told'
  <2>1. ASSUME NEW a \in AO, Unposted(a)
        PROVE  Unposted(a)'
    BY <1>4, <1>5, <2>1 DEF Unposted
  <2>2. ASSUME e \in Stop
        PROVE  b \in told /\ \A q \in Poster : post'[q].dest # b /\ b \notin todo[q]
    <3>1. b # 0 /\ b \in told /\ b \notin todo[p]
      BY <1>1, <2>2
    <3>2. \A q \in Poster \ {p} : post[q].dest # b /\ b \notin todo[q]
      BY <1>1, <2>2
    <3> QED
      BY <1>4, <3>1, <3>2
  <2>3. ASSUME NEW a \in AO, NEW i \in 1 .. Len(queue'[a]), queue'[a][i] \in Stop
        PROVE  a \in told /\ Unposted(a)'
    <3>1. CASE a # b
      BY <1>8, <2>1, <2>3, <3>1 DEF IInv, Told
    <3>2. CASE a = b /\ e \in Stop
      BY <1>5, <2>2, <3>2 DEF Unposted
    <3>3. CASE a = b /\ e \notin Stop
      <4>1. i \in 1 .. Len(queue[a]) /\ queue'[a][i] = queue[a][i]
        BY <1>3, <2>3, <3>3 DEF Given, Grown
      <4> QED
        BY <2>1, <2>3, <4>1 DEF IInv, Told
    <3> QED
      BY <3>1, <3>2, <3>3
  <2>4. ASSUME NEW j \in Task, pc'[j] = "stop_flush" \/ (pc'[j] = "handle" /\ cur[j] \in Stop)
        PROVE  arg[j] \in told /\ Unposted(arg[j])'
    <3>1. arg[j] \in told /\ Unposted(arg[j])
      BY <1>4, <2>4 DEF IInv, Told
    <3>2. arg[j] \in AO
      BY <3>1 DEF IInv, Types, Values
    <3> QED
      BY <1>5, <2>1, <3>1, <3>2
  <2>5. \A a \in AO : a \notin told => Len(queue'[a]) < Capacity
    <3>1. CASE e \in Stop
      BY <1>1, <1>8, <3>1 DEF IInv, Told
    <3>2. CASE e \notin Stop
      BY <1>1, <1>3, <1>8, <3>2 DEF IInv, Told, Given, Grown
    <3> QED
      BY <3>1, <3>2
  <2> QED
    BY <1>5, <2>3, <2>4, <2>5 DEF Told, Unposted
<1> QED
  BY <1>6, <1>7, <1>9, <1>10, <1>11 DEF IInv

LEMMA PublishDeliverInv ==
  ASSUME IInv, Refusable, NEW p \in Poster, PublishDeliver(p)
  PROVE  IInv'
<1> USE AoPreemptiveAssumption, CapacityAssumption
<1> DEFINE e == post[p].event
           m == post[p].margin
<1>1. /\ pc[p] = "deliver" /\ gate /\ e \in Event \ Stop /\ m \in 0 .. Capacity - 1 /\ m > 0
      /\ todo[p] \subseteq AO /\ \A a \in todo[p] : Alive(a)
  <2>1. pc[p] = "deliver"
    BY DEF PublishDeliver
  <2>2. gate /\ e \in Event \ Stop /\ m \in Margins /\ \A a \in todo[p] : Alive(a)
    BY <2>1 DEF IInv, Publishes, Gate
  <2>3. m \in 0 .. Capacity - 1 /\ m > 0
    <3>1. \A x \in Margins : x \in 0 .. Capacity - 1 /\ x > 0
      BY DEF Refusable
    <3> QED
      BY <2>2, <3>1
  <2>4. todo[p] \subseteq AO
    BY DEF IInv, Types, Values
  <2> QED
    BY <2>1, <2>2, <2>3, <2>4
<1>2. PICK b \in todo[p] : HandlerFn(b, e, m) /\ todo' = [todo EXCEPT ![p] = @ \ {b}]
  BY <1>1 DEF PublishDeliver, Alive
<1>3. /\ UNCHANGED <<steady, pc, post>> /\ b \in AO /\ Alive(b)
  BY <1>1, <1>2 DEF PublishDeliver, regVars, cntVars, taskVars, mainVars, steady
<1> HIDE DEF e, m
<1>4. Given(b, e, m)
  BY <1>1, <1>2, <1>3, HandlerFnStep DEF Alive
<1>5. /\ UNCHANGED <<valid, running, taskId, prio, registered, sub, aos, cnt, initDone>>
      /\ UNCHANGED <<created, initComplete, gate, arg, waitOn, cur, toStart, round, told>>
      /\ UNCHANGED <<pc, post>>
  BY <1>3 DEF steady
<1>6. /\ \A q \in Poster : todo'[q] \subseteq todo[q]
      /\ \A q \in Poster : q # p => todo'[q] = todo[q]
      /\ todo' \in [Poster -> SUBSET AO]
  BY <1>2 DEF IInv, Types, Values
<1>7. Types'
  <2>1. Values'
    BY <1>4, <1>5, <1>6 DEF IInv, Types, Values, Given, Grown
  <2>2. Places'
    BY <1>5 DEF IInv, Types, Places
  <2> QED
    BY <2>1, <2>2 DEF Types
<1>8. Counts' /\ Tasks' /\ Objects' /\ Hand' /\ NoAssertFails' /\ NoLostWakeup' /\ Gate'
  BY <1>1, <1>3, <1>4, PosterPush
<1>9. \A a \in AO : Len(queue[a]) < Capacity => Len(queue'[a]) < Capacity
  BY <1>1, <1>4 DEF Given, Grown
<1>10. Posts'
  <2> SUFFICES ASSUME NEW q \in Poster PROVE (Posting(q) /\ Stopping(q))'
    BY DEF Posts
  <2>1. Posting(q)'
    BY <1>5, <1>6 DEF IInv, Posts, Posting, Alive
  <2>2. pc[q] = "push" => post[q].dest \in AO
    BY DEF IInv, Posts, Posting
  <2>3. Stopping(q)'
    BY <1>5, <1>6, <1>9, <2>2 DEF IInv, Posts, Stopping
  <2> QED
    BY <2>1, <2>3
<1>11. Publishes' /\ Idlers'
  BY <1>1, <1>5, <1>6 DEF IInv, Publishes, Idlers, Alive
<1>12. Told'
  <2>1. ASSUME NEW a \in AO, Unposted(a)
        PROVE  Unposted(a)'
    BY <1>5, <1>6, <2>1 DEF Unposted
  <2>2. ASSUME NEW a \in AO, NEW i \in 1 .. Len(queue'[a]), queue'[a][i] \in Stop
        PROVE  a \in told /\ Unposted(a)'
    BY <1>1, <1>4, <2>1, <2>2 DEF IInv, Told, Given, Grown
  <2>3. ASSUME NEW j \in Task, pc[j] = "stop_flush" \/ (pc[j] = "handle" /\ cur[j] \in Stop)
        PROVE  arg[j] \in told /\ Unposted(arg[j])'
    <3>1. arg[j] \in told /\ Unposted(arg[j])
      BY <2>3 DEF IInv, Told
    <3>2. arg[j] \in AO
      BY <3>1 DEF IInv, Types, Values
    <3> QED
      BY <1>5, <2>1, <3>1, <3>2
  <2> QED
    BY <1>5, <1>9, <2>2, <2>3 DEF IInv, Told, Unposted
<1> QED
  BY <1>7, <1>8, <1>10, <1>11, <1>12 DEF IInv

-----------------------------------------------------------------------------
(* The theorems.                                                           *)

LEMMA InitInv == ASSUME Started PROVE Init => IInv
<1> SUFFICES ASSUME Init PROVE IInv
  OBVIOUS
<1> USE AoPreemptiveAssumption, CapacityAssumption DEF Init
<1>1. Counts
  <2>1. IsFiniteSet({}) /\ Cardinality({}) = 0
    BY FS_EmptySet
  <2>2. Cardinality(AO) \in Nat
    BY FS_CardinalityType DEF Started
  <2> QED
    BY <2>1, <2>2 DEF Counts, Started
<1>2. Types
  <2>1. post \in [Poster -> PostType]
    BY DEF PostType, NoPost
  <2>2. queue \in [AO -> Seq(Event)] /\ \A a \in AO : Len(queue[a]) <= Capacity
    OBVIOUS
  <2>3. Values
    BY <2>1, <2>2 DEF Values
  <2>4. Places
    BY DEF Places, Label, MainPc, PosterPc
  <2> QED
    BY <2>3, <2>4 DEF Types
<1>3. pc[Main] = "init" /\ (\A k \in Task : pc[k] = "none") /\ \A p \in Poster : pc[p] = "idle"
  OBVIOUS
<1>4. Tasks /\ Objects
  BY <1>3 DEF Tasks, Owned, Born, Stopped, LivePc, Objects
<1>5. Gate /\ Hand
  BY <1>3 DEF Gate, Hand
<1>6. Posts /\ Publishes /\ Idlers
  BY <1>3 DEF Posts, Posting, Stopping, Publishes, Idlers
<1>7. Told /\ NoAssertFails /\ NoLostWakeup
  BY <1>3 DEF Told, NoAssertFails, NoLostWakeup
<1> QED
  BY <1>1, <1>2, <1>4, <1>5, <1>6, <1>7 DEF IInv

\* The circumstances in which the theorems hold.
Sound == Started /\ Refusable /\ Bootable /\ StaticStop

LEMMA NextInv ==
  ASSUME Sound, IInv, [Next]_vars
  PROVE  IInv'
<1> USE DEF Sound
<1>1. CASE MainStep
  BY <1>1, AoInitInv, AoStartInv, MainLoopInv, RunAllInv, InitWaitInv, InitSleepInv,
     RunAllReturnsInv DEF MainStep
<1>2. ASSUME NEW k \in Task, TaskStep(k) PROVE IInv'
  <2>1. CASE StopStep(k)
    BY <2>1, StopUnsubscribeInv, StopFlushInv, StopUnregisterInv, StopNotifyInv DEF StopStep
  <2>2. CASE ~StopStep(k)
    BY <1>2, <2>2, TaskRunningInv, TaskRegisterInv, TaskSubscribeInv, TaskBootInv,
       TaskInitDoneInv, TaskNotifyMainInv, TaskGateInv, TaskLoopInv, TaskCheckInv,
       TaskWaitInv, TaskPopInv, HandleReturnInv, TaskReleaseInv, TaskExitInv DEF TaskStep
  <2> QED
    BY <2>1, <2>2
<1>3. ASSUME NEW p \in Poster, PosterStep(p) PROVE IInv'
  BY <1>3, PostPushInv, PublishDeliverInv, PublishEndInv DEF PosterStep
<1>4. CASE Free
  <2>1. ASSUME NEW k \in Task, NEW e \in Event, NEW m \in Margins, HandlePost(k, e, m)
        PROVE  IInv'
    BY <2>1, HandlePostInv
  <2>2. ASSUME NEW p \in Poster, NEW b \in AO, NEW e \in Posted \ Stop, NEW m \in Margins,
               PostCheck(p, b, e, m)
        PROVE  IInv'
    <3>1. m \in 0 .. Capacity - 1 /\ e \in Event
      BY AoPreemptiveAssumption
    <3> QED
      BY <2>2, <3>1, PostCheckInv
  <2>3. ASSUME NEW p \in Poster, NEW b \in AO, NEW e \in Posted \cap Stop,
               PostCheck(p, b, e, 0)
        PROVE  IInv'
    <3>1. 0 \in 0 .. Capacity - 1 /\ e \in Event
      BY AoPreemptiveAssumption, CapacityAssumption
    <3> QED
      BY <2>3, <3>1, PostCheckInv
  <2>4. ASSUME NEW p \in Poster, NEW e \in Published, NEW m \in Margins,
               PublishSnapshot(p, e, m)
        PROVE  IInv'
    <3>1. e \in Event \ Stop
      BY AoPreemptiveAssumption
    <3> QED
      BY <2>4, <3>1, PublishSnapshotInv
  <2> QED
    BY <1>4, <2>1, <2>2, <2>3, <2>4 DEF Free
<1>5. CASE UNCHANGED vars
  <2>1. /\ UNCHANGED <<queue, valid, running, taskId, prio, registered, sub, aos, cnt, initDone>>
        /\ UNCHANGED <<created, notified, initComplete, gate, arg, waitOn, cur, pc>>
        /\ UNCHANGED <<toStart, round, post, todo, told, failed>>
    BY <1>5 DEF vars, aoVars, regVars, cntVars, palVars, taskVars, mainVars, postVars
  <2>2. Types' /\ Counts'
    BY <2>1 DEF IInv, Types, Values, Places, Counts
  <2>3. Tasks' /\ Objects'
    BY <2>1 DEF IInv, Tasks, Owned, Born, Stopped, Objects, Alive
  <2>4. Gate' /\ Hand'
    BY <2>1 DEF IInv, Gate, Hand
  <2>5. Posts' /\ Publishes' /\ Idlers'
    BY <2>1 DEF IInv, Posts, Posting, Stopping, Publishes, Idlers, Alive
  <2>6. Told' /\ NoAssertFails' /\ NoLostWakeup'
    BY <2>1 DEF IInv, Told, Unposted, NoAssertFails, NoLostWakeup
  <2> QED
    BY <2>2, <2>3, <2>4, <2>5, <2>6 DEF IInv
<1> QED
  BY <1>1, <1>2, <1>3, <1>4, <1>5 DEF Next

LEMMA Inv == ASSUME Sound PROVE Spec => []IInv
<1>1. Init => IInv
  BY InitInv DEF Sound
<1>2. IInv /\ [Next]_vars => IInv'
  BY NextInv
<1> QED
  BY <1>1, <1>2, PTL DEF Spec

\* Every variable keeps to its range, and am_ao_get_cnt is the number of active objects
\* that have a slot, whatever is started, posted, published and stopped.
THEOREM TypeCorrect == ASSUME Sound PROVE Spec => []TypeOK
<1>1. IInv => TypeOK
  <2> SUFFICES ASSUME IInv PROVE TypeOK
    OBVIOUS
  <2>1. queue \in [AO -> Queues(Event)]
    <3>1. ASSUME NEW a \in AO
          PROVE  queue[a] \in Queues(Event)
      <4>1. /\ queue[a] \in Seq(Event) /\ Len(queue[a]) \in 0 .. Capacity
            /\ queue[a] \in [1 .. Len(queue[a]) -> Event]
        BY CapacityAssumption DEF IInv, Types, Values
      <4> QED
        BY <4>1 DEF Queues
    <3> QED
      BY <3>1 DEF IInv, Types, Values
  <2>2. round \in 1 .. Rounds
    BY AoPreemptiveAssumption DEF IInv, Types, Values
  <2> QED
    BY <2>1, <2>2 DEF IInv, Types, Values, Places, Counts, TypeOK
<1> QED
  BY <1>1, Inv, PTL

\* No assertion of the preemptive port fails, for any number of active objects, tasks and
\* posters: a task of which a post said that it has an event finds one, a post and a
\* publish find their active object registered and running, an active object finds its
\* slot and its handler free and there is a task for it.
THEOREM NoAssertFailsCorrect == ASSUME Sound PROVE Spec => []NoAssertFails
<1>1. IInv => NoAssertFails
  BY DEF IInv
<1> QED
  BY <1>1, Inv, PTL

\* The gate of am_task_init_wait: no task handles an event before main started every
\* active object and all of their tasks have run their init handlers.
THEOREM GateCorrect == ASSUME Sound PROVE Spec => []StartupGate
<1>1. IInv => StartupGate
  BY DEF IInv, Gate, StartupGate, SetupPc
<1> QED
  BY <1>1, Inv, PTL

\* A task that waits for a notification while its queue has an event was given one, also
\* if the event came between its look at the queue and its wait.
THEOREM WakeupCorrect == ASSUME Sound PROVE Spec => []NoLostWakeup
<1>1. IInv => NoLostWakeup
  BY DEF IInv
<1> QED
  BY <1>1, Inv, PTL

=============================================================================
