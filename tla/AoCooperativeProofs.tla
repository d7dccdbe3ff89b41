-------------------------- MODULE AoCooperativeProofs --------------------------
(***************************************************************************)
(* Proofs about AoCooperative, for every set of active objects and of      *)
(* posters, every set of events and every capacity of the queues.          *)
(***************************************************************************)
EXTENDS AoCooperative, FiniteSetTheorems, TLAPS

\* A post that may be refused by a full queue is one with a positive margin.
Refusable == 0 \notin Margins

MainPc == {"start", "init_handler", "loop", "select", "idle", "pop", "handle",
           "handled", "unregister", "done"}

PostType ==
  [dest : AO \cup {NoAo}, event : Event \cup {NoEvent}, margin : 0 .. Capacity - 1]

Types ==
  /\ queue \in [AO -> Seq(Event)] /\ running \in [AO -> BOOLEAN]
  /\ \A a \in AO : Len(queue[a]) <= Capacity
  /\ aos \subseteq AO /\ registered \subseteq AO
  /\ IsFiniteSet(aos) /\ cnt = Cardinality(aos)
  /\ initDone \in BOOLEAN /\ ready \subseteq AO /\ notified \in BOOLEAN
  /\ pc \in [Poster \cup {Main} -> MainPc \cup {"push"}]
  /\ pc[Main] \in MainPc
  /\ sel \in AO \cup {NoAo} /\ cur \in Event \cup {NoEvent}
  /\ toStart \subseteq AO /\ round \in 1 .. Rounds
  /\ post \in [Poster -> PostType] /\ told \subseteq AO

\* Who runs has its slot, its handler and, at most, its bit; between the two steps
\* of its stop it has the handler alone.
Slots ==
  /\ \A a \in AO : running[a] <=> a \in aos
  /\ ready \subseteq aos
  /\ registered = IF pc[Main] = "unregister" THEN aos \cup {sel} ELSE aos

\* Where main is tells which active object it has in its hand.
Place ==
  /\ pc[Main] \in {"init_handler", "pop", "handle"} => sel \in aos
  /\ pc[Main] = "unregister" => sel \in AO /\ sel \notin aos
  /\ pc[Main] = "start" => toStart \cap aos = {}
  /\ pc[Main] = "init_handler" => (toStart \ {sel}) \cap aos = {}
  /\ pc[Main] = "pop" => queue[sel] # <<>>
  /\ pc[Main] = "handle" => cur \in Event

\* No poster is about to post to a.
Unposted(a) == \A p \in Poster : post[p].dest # a

\* The posts in flight, each of which finds its active object running; one that
\* carries a stop event is the last to its active object.
Posts ==
  \A p \in Poster : pc[p] = "push" =>
    /\ post[p].dest \in aos /\ post[p].event \in Event
    /\ post[p].event \notin Stop => post[p].margin \in Margins
    /\ post[p].event \in Stop =>
         /\ post[p].margin = 0
         /\ post[p].dest \in told
         /\ Len(queue[post[p].dest]) < Capacity
         /\ \A q \in Poster \ {p} : post[q].dest # post[p].dest

\* A poster that is not about to post has no destination.
Idlers == \A p \in Poster : pc[p] # "push" => pc[p] = "idle" /\ post[p] = NoPost

\* A stop event is in a queue, or being handled, only of who was told, and nobody
\* is about to post to it any more; until it was told, its queue has a slot left.
Told ==
  /\ \A a \in AO : \A i \in 1 .. Len(queue[a]) :
       queue[a][i] \in Stop => a \in told /\ Unposted(a)
  /\ pc[Main] = "handle" /\ cur \in Stop => sel \in told /\ Unposted(sel)
  /\ \A a \in AO : a \notin told => Len(queue[a]) < Capacity

IInv == Types /\ Slots /\ Place /\ Posts /\ Idlers /\ Told /\ NoAssertFails /\ NoLostWakeup

LEMMA AoStartInv ==
  ASSUME IInv, NEW a \in AO, AoStart(a)
  PROVE  IInv'
<1> USE AoCooperativeAssumption, CapacityAssumption DEF IInv, Goto, Require, AoStart, Lowest, aoVars, wakeVars, runVars, mainVars, postVars
<1>1. Types'
  <2>1. IsFiniteSet(aos') /\ cnt' = Cardinality(aos')
    BY FS_AddElement DEF Types, Slots, Place
  <2> QED
    BY <2>1 DEF Types, MainPc
<1>2. Slots'
  BY DEF Types, MainPc, Slots, Place
<1>3. Place'
  BY DEF Types, MainPc, Slots, Place
<1>4. Posts'
  BY DEF Types, MainPc, Slots, Place, Posts
<1>5. Idlers'
  BY DEF Types, MainPc, Slots, Place, Idlers
<1>6. Told'
  BY DEF Types, MainPc, Slots, Place, Told, Unposted
<1>7. NoAssertFails'
  BY DEF Types, MainPc, Slots, Place, NoAssertFails
<1>8. NoLostWakeup'
  BY DEF Types, MainPc, Slots, Place, NoLostWakeup
<1> QED
  BY <1>1, <1>2, <1>3, <1>4, <1>5, <1>6, <1>7, <1>8

LEMMA MainLoopInv ==
  ASSUME IInv, MainLoop
  PROVE  IInv'
<1> USE AoCooperativeAssumption, CapacityAssumption DEF IInv, Goto, Require, MainLoop, aoVars, wakeVars, runVars, mainVars, postVars
<1>1. Types'
  <2>1. toStart' \subseteq AO /\ round' \in 1 .. Rounds
    <3>1. /\ round' = round \/ (round < Rounds /\ round' = round + 1)
          /\ toStart' = toStart \/ toStart' = AO
      OBVIOUS
    <3>2. round \in 1 .. Rounds /\ Rounds \in Nat /\ toStart \subseteq AO
      BY DEF Types
    <3>3. round \in Int /\ Rounds \in Int /\ round <= Rounds /\ 1 <= round
      BY <3>2
    <3>4. CASE round' = round
      BY <3>1, <3>2, <3>4
    <3>5. CASE round < Rounds /\ round' = round + 1
      <4>1. round' \in 1 .. Rounds
        BY <3>3, <3>5
      <4> QED
        BY <3>1, <3>2, <4>1
    <3> QED
      BY <3>1, <3>4, <3>5
  <2>2. pc' \in [Poster \cup {Main} -> MainPc \cup {"push"}] /\ pc'[Main] \in MainPc
    BY DEF Types, MainPc
  <2> QED
    BY <2>1, <2>2 DEF Types
<1>2. Slots'
  BY DEF Types, MainPc, Slots, Place
<1>3. Place'
  <2>1. cnt = 0 => aos = {}
    BY FS_EmptySet DEF Types
  <2> QED
    BY <2>1 DEF Types, MainPc, Slots, Place
<1>4. Posts'
  BY DEF Types, MainPc, Slots, Place, Posts
<1>5. Idlers'
  BY DEF Types, MainPc, Slots, Place, Idlers
<1>6. Told'
  BY DEF Types, MainPc, Slots, Place, Told, Unposted
<1>7. NoAssertFails'
  BY DEF Types, MainPc, Slots, Place, NoAssertFails
<1>8. NoLostWakeup'
  BY DEF Types, MainPc, Slots, Place, NoLostWakeup
<1> QED
  BY <1>1, <1>2, <1>3, <1>4, <1>5, <1>6, <1>7, <1>8

LEMMA SelectIdleInv ==
  ASSUME IInv, SelectIdle
  PROVE  IInv'
<1> USE AoCooperativeAssumption, CapacityAssumption DEF IInv, Goto, Require, SelectIdle, aoVars, wakeVars, runVars, mainVars, postVars
<1>1. Types'
  BY DEF Types, MainPc
<1>2. Slots'
  BY DEF Types, MainPc, Slots, Place
<1>3. Place'
  BY DEF Types, MainPc, Slots, Place
<1>4. Posts'
  BY DEF Types, MainPc, Slots, Place, Posts
<1>5. Idlers'
  BY DEF Types, MainPc, Slots, Place, Idlers
<1>6. Told'
  BY DEF Types, MainPc, Slots, Place, Told, Unposted
<1>7. NoAssertFails'
  BY DEF Types, MainPc, Slots, Place, NoAssertFails
<1>8. NoLostWakeup'
  BY DEF Types, MainPc, Slots, Place, NoLostWakeup
<1> QED
  BY <1>1, <1>2, <1>3, <1>4, <1>5, <1>6, <1>7, <1>8

LEMMA SelectClearInv ==
  ASSUME IInv, SelectClear
  PROVE  IInv'
<1> USE AoCooperativeAssumption, CapacityAssumption DEF IInv, Goto, Require, SelectClear, Highest, aoVars, wakeVars, runVars, mainVars, postVars
<1>1. Types'
  BY DEF Types, MainPc
<1>2. Slots'
  BY DEF Types, MainPc, Slots, Place
<1>3. Place'
  BY DEF Types, MainPc, Slots, Place
<1>4. Posts'
  BY DEF Types, MainPc, Slots, Place, Posts
<1>5. Idlers'
  BY DEF Types, MainPc, Slots, Place, Idlers
<1>6. Told'
  BY DEF Types, MainPc, Slots, Place, Told, Unposted
<1>7. NoAssertFails'
  BY DEF Types, MainPc, Slots, Place, NoAssertFails
<1>8. NoLostWakeup'
  BY DEF Types, MainPc, Slots, Place, NoLostWakeup
<1> QED
  BY <1>1, <1>2, <1>3, <1>4, <1>5, <1>6, <1>7, <1>8

LEMMA SelectInv ==
  ASSUME IInv, Select
  PROVE  IInv'
<1> USE AoCooperativeAssumption, CapacityAssumption DEF IInv, Goto, Require, Select, Highest, aoVars, wakeVars, runVars, mainVars, postVars
<1>1. Types'
  BY DEF Types, MainPc
<1>2. Slots'
  BY DEF Types, MainPc, Slots, Place
<1>3. Place'
  BY DEF Types, MainPc, Slots, Place
<1>4. Posts'
  BY DEF Types, MainPc, Slots, Place, Posts
<1>5. Idlers'
  BY DEF Types, MainPc, Slots, Place, Idlers
<1>6. Told'
  BY DEF Types, MainPc, Slots, Place, Told, Unposted
<1>7. NoAssertFails'
  BY DEF Types, MainPc, Slots, Place, NoAssertFails
<1>8. NoLostWakeup'
  BY DEF Types, MainPc, Slots, Place, NoLostWakeup
<1> QED
  BY <1>1, <1>2, <1>3, <1>4, <1>5, <1>6, <1>7, <1>8

LEMMA IdleReturnsInv ==
  ASSUME IInv, IdleReturns
  PROVE  IInv'
<1> USE AoCooperativeAssumption, CapacityAssumption DEF IInv, Goto, Require, IdleReturns, aoVars, wakeVars, runVars, mainVars, postVars
<1>1. Types'
  BY DEF Types, MainPc
<1>2. Slots'
  BY DEF Types, MainPc, Slots, Place
<1>3. Place'
  BY DEF Types, MainPc, Slots, Place
<1>4. Posts'
  BY DEF Types, MainPc, Slots, Place, Posts
<1>5. Idlers'
  BY DEF Types, MainPc, Slots, Place, Idlers
<1>6. Told'
  BY DEF Types, MainPc, Slots, Place, Told, Unposted
<1>7. NoAssertFails'
  BY DEF Types, MainPc, Slots, Place, NoAssertFails
<1>8. NoLostWakeup'
  BY DEF Types, MainPc, Slots, Place, NoLostWakeup
<1> QED
  BY <1>1, <1>2, <1>3, <1>4, <1>5, <1>6, <1>7, <1>8

LEMMA PopInv ==
  ASSUME IInv, Pop
  PROVE  IInv'
<1> USE AoCooperativeAssumption, CapacityAssumption DEF IInv, Goto, Require, Pop, aoVars, wakeVars, runVars, mainVars, postVars
<1>1. Types'
  <2>1. queue[sel] \in Seq(Event) /\ queue[sel] # <<>> /\ sel \in AO
    BY DEF Types, Place
  <2>2. /\ Tail(queue[sel]) \in Seq(Event) /\ Head(queue[sel]) \in Event
        /\ Len(Tail(queue[sel])) <= Capacity
    BY <2>1 DEF Types
  <2>3. /\ queue' = [queue EXCEPT ![sel] = Tail(@)] /\ cur' = Head(queue[sel])
        /\ pc' = [pc EXCEPT ![Main] = "handle"]
        /\ UNCHANGED <<running, registered, aos, cnt, initDone, ready, notified, sel,
                       toStart, round, post, told>>
    BY <2>1
  <2>4. queue' \in [AO -> Seq(Event)] /\ \A a \in AO : Len(queue'[a]) <= Capacity
    BY <2>1, <2>2, <2>3 DEF Types
  <2> QED
    BY <2>2, <2>3, <2>4 DEF Types, MainPc
<1>2. Slots'
  BY DEF Types, MainPc, Slots, Place
<1>3. Place'
  BY DEF Types, MainPc, Slots, Place
<1>4. Posts'
  <2>1. queue[sel] \in Seq(Event) /\ queue[sel] # <<>> /\ sel \in AO
    BY DEF Types, Place
  <2>2. \A a \in AO : Len(queue'[a]) <= Len(queue[a])
    BY <2>1 DEF Types
  <2>3. \A a \in AO : Len(queue[a]) \in Nat /\ Len(queue'[a]) \in Nat
    BY <2>1 DEF Types
  <2>4. \A a \in AO : Len(queue[a]) < Capacity => Len(queue'[a]) < Capacity
    BY <2>2, <2>3
  <2>5. /\ pc'[Main] = "handle" /\ \A p \in Poster : pc'[p] = pc[p]
        /\ post' = post /\ told' = told /\ aos' = aos
    BY DEF Types
  <2> QED
    <3> SUFFICES ASSUME NEW p \in Poster, pc'[p] = "push"
                 PROVE  /\ post[p].dest \in aos /\ post[p].event \in Event
                        /\ post[p].event \notin Stop => post[p].margin \in Margins
                        /\ post[p].event \in Stop =>
                             /\ post[p].margin = 0 /\ post[p].dest \in told
                             /\ Len(queue'[post[p].dest]) < Capacity
                             /\ \A q \in Poster \ {p} : post[q].dest # post[p].dest
      BY <2>5 DEF Posts
    <3>1. aos \subseteq AO /\ pc[p] = "push"
      BY <2>5 DEF Types
    <3> QED
      BY <2>4, <3>1 DEF Posts
<1>5. Idlers'
  BY DEF Types, MainPc, Slots, Place, Idlers
<1>6. Told'
  <2>1. queue[sel] \in Seq(Event) /\ queue[sel] # <<>> /\ sel \in AO
    BY DEF Types, Place
  <2>2. /\ cur' = queue[sel][1] /\ post' = post /\ told' = told /\ sel' = sel
        /\ queue' = [queue EXCEPT ![sel] = Tail(@)]
    BY <2>1
  <2>3. \A a \in AO : \A i \in 1 .. Len(queue'[a]) :
          \E j \in 1 .. Len(queue[a]) : queue'[a][i] = queue[a][j]
    BY <2>1, <2>2 DEF Types
  <2>4. \A a \in AO : Len(queue[a]) < Capacity => Len(queue'[a]) < Capacity
    BY <2>1, <2>2 DEF Types
  <2>5. 1 \in 1 .. Len(queue[sel])
    BY <2>1
  <2> QED
    BY <2>1, <2>2, <2>3, <2>4, <2>5 DEF Told, Unposted
<1>7. NoAssertFails'
  BY DEF Types, MainPc, Slots, Place, NoAssertFails
<1>8. NoLostWakeup'
  BY DEF Types, MainPc, Slots, Place, NoLostWakeup
<1> QED
  BY <1>1, <1>2, <1>3, <1>4, <1>5, <1>6, <1>7, <1>8

LEMMA HandleReturnInv ==
  ASSUME IInv, HandleReturn
  PROVE  IInv'
<1> USE AoCooperativeAssumption, CapacityAssumption DEF IInv, Goto, Require, HandleReturn, aoVars, wakeVars, runVars, mainVars, postVars
<1>1. Types'
  BY DEF Types, MainPc
<1>2. Slots'
  BY DEF Types, MainPc, Slots, Place
<1>3. Place'
  BY DEF Types, MainPc, Slots, Place
<1>4. Posts'
  BY DEF Types, MainPc, Slots, Place, Posts
<1>5. Idlers'
  BY DEF Types, MainPc, Slots, Place, Idlers
<1>6. Told'
  BY DEF Types, MainPc, Slots, Place, Told, Unposted
<1>7. NoAssertFails'
  BY DEF Types, MainPc, Slots, Place, NoAssertFails
<1>8. NoLostWakeup'
  BY DEF Types, MainPc, Slots, Place, NoLostWakeup
<1> QED
  BY <1>1, <1>2, <1>3, <1>4, <1>5, <1>6, <1>7, <1>8

LEMMA StopFlushInv ==
  ASSUME IInv, StopFlush
  PROVE  IInv'
<1> USE AoCooperativeAssumption, CapacityAssumption DEF IInv, Goto, Require, StopFlush, aoVars, wakeVars, runVars, mainVars, postVars
<1>1. Types'
  <2>1. sel \in aos
    BY DEF Place
  <2>2. IsFiniteSet(aos') /\ cnt' = Cardinality(aos')
    BY <2>1, FS_RemoveElement DEF Types
  <2> QED
    BY <2>1, <2>2 DEF Types, MainPc
<1>2. Slots'
  BY DEF Types, MainPc, Slots, Place
<1>3. Place'
  BY DEF Types, MainPc, Slots, Place
<1>4. Posts'
  <2>1. sel \in aos /\ Unposted(sel) /\ sel \in AO
    BY DEF Place, Told, Types
  <2>2. \A a \in AO : a # sel => queue'[a] = queue[a]
    BY DEF Types
  <2>3. \A p \in Poster : pc'[p] = "push" => pc[p] = "push" /\ post[p].dest # sel
    BY <2>1 DEF Types, Unposted, MainPc
  <2> QED
    BY <2>1, <2>2, <2>3 DEF Posts, Types
<1>5. Idlers'
  BY DEF Types, MainPc, Slots, Place, Idlers
<1>6. Told'
  BY DEF Types, MainPc, Slots, Place, Told, Unposted
<1>7. NoAssertFails'
  BY DEF Types, MainPc, Slots, Place, NoAssertFails
<1>8. NoLostWakeup'
  BY DEF Types, MainPc, Slots, Place, NoLostWakeup
<1> QED
  BY <1>1, <1>2, <1>3, <1>4, <1>5, <1>6, <1>7, <1>8

LEMMA StopUnregisterInv ==
  ASSUME IInv, StopUnregister
  PROVE  IInv'
<1> USE AoCooperativeAssumption, CapacityAssumption DEF IInv, Goto, Require, StopUnregister, aoVars, wakeVars, runVars, mainVars, postVars
<1>1. Types'
  BY DEF Types, MainPc
<1>2. Slots'
  BY DEF Types, MainPc, Slots, Place
<1>3. Place'
  BY DEF Types, MainPc, Slots, Place
<1>4. Posts'
  BY DEF Types, MainPc, Slots, Place, Posts
<1>5. Idlers'
  BY DEF Types, MainPc, Slots, Place, Idlers
<1>6. Told'
  BY DEF Types, MainPc, Slots, Place, Told, Unposted
<1>7. NoAssertFails'
  BY DEF Types, MainPc, Slots, Place, NoAssertFails
<1>8. NoLostWakeup'
  BY DEF Types, MainPc, Slots, Place, NoLostWakeup
<1> QED
  BY <1>1, <1>2, <1>3, <1>4, <1>5, <1>6, <1>7, <1>8

-----------------------------------------------------------------------------
(* Pushes.                                                                 *)

\* The event becomes the last of the queue of b, which had room, or nothing changes.
Pushed(q, r, b, e, margin) ==
  \/ r = q
  \/ r = [q EXCEPT ![b] = Append(@, e)] /\ Capacity - Len(q[b]) > margin

\* What a push does to the queues.
LEMMA PushedQueues ==
  ASSUME NEW q \in [AO -> Seq(Event)], NEW r, NEW b \in AO, NEW e \in Event,
         NEW m \in 0 .. Capacity - 1, Pushed(q, r, b, e, m),
         \A a \in AO : Len(q[a]) <= Capacity
  PROVE  /\ r \in [AO -> Seq(Event)]
         /\ \A a \in AO : Len(r[a]) <= Capacity
         /\ \A a \in AO : a # b \/ m > 0 =>
              (Len(q[a]) < Capacity => Len(r[a]) < Capacity)
         /\ \A a \in AO : \A i \in 1 .. Len(r[a]) :
              (i \in 1 .. Len(q[a]) /\ r[a][i] = q[a][i]) \/ (a = b /\ r[a][i] = e)
         /\ \A a \in AO : q[a] # <<>> => r[a] # <<>>
<1> USE CapacityAssumption
<1>1. CASE r = q
  BY <1>1
<1>2. CASE r = [q EXCEPT ![b] = Append(@, e)] /\ Capacity - Len(q[b]) > m
  <2>1. /\ q[b] \in Seq(Event) /\ Append(q[b], e) \in Seq(Event)
        /\ Len(q[b]) \in Nat /\ Len(Append(q[b], e)) = Len(q[b]) + 1
        /\ \A i \in 1 .. Len(q[b]) : Append(q[b], e)[i] = q[b][i]
        /\ Append(q[b], e)[Len(q[b]) + 1] = e /\ Append(q[b], e) # <<>>
    BY SMTT(30)
  <2>2. r[b] = Append(q[b], e) /\ \A a \in AO : a # b => r[a] = q[a]
    BY <1>2
  <2>3. r \in [AO -> Seq(Event)]
    BY <1>2, <2>1
  <2>4. Len(r[b]) <= Capacity /\ (m > 0 => Len(r[b]) < Capacity)
    BY <1>2, <2>1, <2>2
  <2>5. \A i \in 1 .. Len(r[b]) : (i \in 1 .. Len(q[b]) /\ r[b][i] = q[b][i]) \/ r[b][i] = e
    BY <2>1, <2>2
  <2>6. \A a \in AO : a # b =>
          \A i \in 1 .. Len(r[a]) : i \in 1 .. Len(q[a]) /\ r[a][i] = q[a][i]
    BY <2>2
  <2>7. \A a \in AO : q[a] # <<>> => r[a] # <<>>
    BY <2>1, <2>2
  <2>8. \A a \in AO : Len(r[a]) <= Capacity
    BY <2>2, <2>4
  <2>9. \A a \in AO : a # b \/ m > 0 =>
          (Len(q[a]) < Capacity => Len(r[a]) < Capacity)
    BY <2>2, <2>4
  <2>10. \A a \in AO : \A i \in 1 .. Len(r[a]) :
           (i \in 1 .. Len(q[a]) /\ r[a][i] = q[a][i]) \/ (a = b /\ r[a][i] = e)
    BY <2>5, <2>6
  <2> QED
    BY <2>3, <2>7, <2>8, <2>9, <2>10
<1> QED
  BY <1>1, <1>2 DEF Pushed

\* What the handler of a running active object does when its queue has room for the
\* event, or may refuse it.
LEMMA HandlerFnStep ==
  ASSUME IInv, Running, NEW b \in aos, NEW e \in Event, NEW m \in 0 .. Capacity - 1,
         m > 0 \/ Len(queue[b]) < Capacity, HandlerFn(b, e, m)
  PROVE  /\ Pushed(queue, queue', b, e, m)
         /\ NoAssertFails'
         /\ ready \subseteq ready' /\ ready' \subseteq ready \cup {b}
         /\ (ready' = ready /\ notified' = notified) \/ notified' = TRUE
         /\ \A a \in AO : queue'[a] # <<>> => a \in ready'
<1> USE CapacityAssumption DEF IInv
<1>1. /\ b \in AO /\ running[b] /\ queue \in [AO -> Seq(Event)]
      /\ Len(queue[b]) \in Nat
  BY DEF Types, Slots
<1>2. NoAssertFails'
  BY <1>1 DEF HandlerFn, Require, NoRoom, NoAssertFails, Running
<1>3. CASE ~NoRoom(queue[b], m)
  <2>1. queue' = [queue EXCEPT ![b] = Append(@, e)] /\ Capacity - Len(queue[b]) > m
    BY <1>1, <1>3 DEF HandlerFn, NoRoom
  <2>2. CASE WasEmpty(queue[b])
    <3>1. ready' = ready \cup {b} /\ notified' = TRUE
      BY <1>1, <1>3, <2>2 DEF HandlerFn, NotifyUnsafe
    <3>2. \A a \in AO : queue'[a] # <<>> => a \in ready'
      BY <1>1, <2>1, <3>1 DEF NoLostWakeup
    <3> QED
      BY <1>2, <2>1, <3>1, <3>2 DEF Pushed
  <2>3. CASE ~WasEmpty(queue[b])
    <3>1. ready' = ready /\ notified' = notified
      BY <1>1, <1>3, <2>3 DEF HandlerFn, wakeVars
    <3>2. b \in ready
      BY <1>1, <2>3 DEF NoLostWakeup, WasEmpty
    <3>3. \A a \in AO : queue'[a] # <<>> => a \in ready'
      BY <1>1, <2>1, <3>1, <3>2 DEF NoLostWakeup
    <3> QED
      BY <1>2, <2>1, <3>1, <3>3 DEF Pushed
  <2> QED
    BY <2>2, <2>3
<1>4. CASE NoRoom(queue[b], m)
  <2>1. queue' = queue /\ ready' = ready /\ notified' = notified
    BY <1>1, <1>4 DEF HandlerFn, wakeVars
  <2> QED
    BY <1>2, <2>1 DEF Pushed, NoLostWakeup
<1> QED
  BY <1>3, <1>4

\* The parts of the invariant about queues and bits after a push, whoever made it.
LEMMA PushedInv ==
  ASSUME IInv, NEW b \in aos, NEW e \in Event, NEW m \in 0 .. Capacity - 1,
         Pushed(queue, queue', b, e, m),
         ready \subseteq ready', ready' \subseteq ready \cup {b},
         (ready' = ready /\ notified' = notified) \/ notified' = TRUE,
         \A a \in AO : queue'[a] # <<>> => a \in ready'
  PROVE  /\ queue' \in [AO -> Seq(Event)]
         /\ \A a \in AO : Len(queue'[a]) <= Capacity
         /\ ready' \subseteq aos /\ ready' \subseteq AO /\ notified' \in BOOLEAN
         /\ \A a \in AO : a # b \/ m > 0 =>
              (Len(queue[a]) < Capacity => Len(queue'[a]) < Capacity)
         /\ \A a \in AO : \A i \in 1 .. Len(queue'[a]) :
              \/ i \in 1 .. Len(queue[a]) /\ queue'[a][i] = queue[a][i]
              \/ a = b /\ queue'[a][i] = e
         /\ \A a \in AO : queue[a] # <<>> => queue'[a] # <<>>
<1>1. /\ queue \in [AO -> Seq(Event)] /\ \A a \in AO : Len(queue[a]) <= Capacity
      /\ b \in AO /\ notified \in BOOLEAN /\ ready \subseteq aos /\ aos \subseteq AO
  BY DEF IInv, Types, Slots
<1>2. PICK r : r = queue'
  OBVIOUS
<1>3. Pushed(queue, r, b, e, m)
  BY <1>2
<1>4. /\ r \in [AO -> Seq(Event)]
      /\ \A a \in AO : Len(r[a]) <= Capacity
      /\ \A a \in AO : a # b \/ m > 0 =>
           (Len(queue[a]) < Capacity => Len(r[a]) < Capacity)
      /\ \A a \in AO : \A i \in 1 .. Len(r[a]) :
           \/ i \in 1 .. Len(queue[a]) /\ r[a][i] = queue[a][i]
           \/ a = b /\ r[a][i] = e
      /\ \A a \in AO : queue[a] # <<>> => r[a] # <<>>
  BY <1>1, <1>3, PushedQueues
<1>5. ready' \subseteq aos /\ ready' \subseteq AO /\ notified' \in BOOLEAN
  BY <1>1
<1> QED
  BY <1>2, <1>4, <1>5

\* A push by main, of an event that is not a stop event.
LEMMA MainPush ==
  ASSUME IInv, Running, Refusable, NEW b \in aos, NEW e \in Event \ Stop, NEW m \in Margins,
         HandlerFn(b, e, m)
  PROVE  /\ NoAssertFails'
         /\ queue' \in [AO -> Seq(Event)]
         /\ \A a \in AO : Len(queue'[a]) <= Capacity
         /\ ready' \subseteq aos /\ ready' \subseteq AO /\ notified' \in BOOLEAN
         /\ \A a \in AO : Len(queue[a]) < Capacity => Len(queue'[a]) < Capacity
         /\ \A a \in AO : \A i \in 1 .. Len(queue'[a]) :
              queue'[a][i] \in Stop => i \in 1 .. Len(queue[a]) /\ queue[a][i] \in Stop
         /\ \A a \in AO : queue[a] # <<>> => queue'[a] # <<>>
         /\ \A a \in AO : queue'[a] # <<>> => a \in ready'
         /\ (ready' = ready /\ notified' = notified) \/ notified' = TRUE
<1>1. m \in 0 .. Capacity - 1 /\ m > 0 /\ e \in Event
  BY AoCooperativeAssumption, CapacityAssumption DEF Refusable
<1>2. /\ Pushed(queue, queue', b, e, m) /\ NoAssertFails'
      /\ ready \subseteq ready' /\ ready' \subseteq ready \cup {b}
      /\ (ready' = ready /\ notified' = notified) \/ notified' = TRUE
      /\ \A a \in AO : queue'[a] # <<>> => a \in ready'
  BY <1>1, HandlerFnStep
<1>3. /\ queue' \in [AO -> Seq(Event)]
      /\ \A a \in AO : Len(queue'[a]) <= Capacity
      /\ ready' \subseteq aos /\ ready' \subseteq AO /\ notified' \in BOOLEAN
      /\ \A a \in AO : a # b \/ m > 0 =>
           (Len(queue[a]) < Capacity => Len(queue'[a]) < Capacity)
      /\ \A a \in AO : \A i \in 1 .. Len(queue'[a]) :
           \/ i \in 1 .. Len(queue[a]) /\ queue'[a][i] = queue[a][i]
           \/ a = b /\ queue'[a][i] = e
      /\ \A a \in AO : queue[a] # <<>> => queue'[a] # <<>>
  BY <1>1, <1>2, PushedInv
<1> QED
  BY <1>1, <1>2, <1>3

LEMMA InitHandlerInv ==
  ASSUME IInv, Running, Refusable, InitHandler
  PROVE  IInv'
<1> USE AoCooperativeAssumption, CapacityAssumption
<1>1. ASSUME NEW c \in aos, NEW f \in Event \ Stop, NEW n \in Margins, HandlerFn(c, f, n)
      PROVE  IInv'
  <2>1. /\ NoAssertFails'
        /\ \A a \in AO : queue'[a] # <<>> => a \in ready'
        /\ (ready' = ready /\ notified' = notified) \/ notified' = TRUE
    BY <1>1, MainPush
  <2>2. /\ queue' \in [AO -> Seq(Event)]
        /\ \A a \in AO : Len(queue'[a]) <= Capacity
        /\ ready' \subseteq aos /\ ready' \subseteq AO /\ notified' \in BOOLEAN
        /\ \A a \in AO : Len(queue[a]) < Capacity => Len(queue'[a]) < Capacity
        /\ \A a \in AO : \A i \in 1 .. Len(queue'[a]) :
             queue'[a][i] \in Stop => i \in 1 .. Len(queue[a]) /\ queue[a][i] \in Stop
        /\ \A a \in AO : queue[a] # <<>> => queue'[a] # <<>>
    BY <1>1, MainPush
  <2>3. /\ pc[Main] = "init_handler" /\ toStart' = toStart \ {sel} /\ sel' = NoAo
        /\ pc' = [pc EXCEPT ![Main] = IF toStart = {sel} THEN "loop" ELSE "start"]
        /\ UNCHANGED <<running, registered, aos, cnt, initDone, cur, round, post, told>>
    BY DEF InitHandler, Goto, postVars
  <2>4. Types'
    BY <2>2, <2>3 DEF IInv, Types, MainPc
  <2>5. Slots' /\ Place'
    BY <2>2, <2>3 DEF IInv, Slots, Place, Types, MainPc
  <2>6. Posts' /\ Idlers'
    BY <2>2, <2>3 DEF IInv, Posts, Idlers, Types
  <2>7. Told'
    BY <2>2, <2>3 DEF IInv, Told, Unposted, Types
  <2>8. NoLostWakeup'
    BY <2>1, <2>3 DEF IInv, NoLostWakeup, Types
  <2> QED
    BY <2>1, <2>4, <2>5, <2>6, <2>7, <2>8 DEF IInv
<1>2. ASSUME UNCHANGED <<queue, wakeVars, failed>>
      PROVE  IInv'
  <2>1. /\ pc[Main] = "init_handler" /\ toStart' = toStart \ {sel} /\ sel' = NoAo
        /\ pc' = [pc EXCEPT ![Main] = IF toStart = {sel} THEN "loop" ELSE "start"]
        /\ UNCHANGED <<queue, ready, notified, failed, running, registered, aos, cnt,
                       initDone, cur, round, post, told>>
    BY <1>2 DEF InitHandler, Goto, postVars, wakeVars
  <2>2. Types'
    BY <2>1 DEF IInv, Types, MainPc
  <2>3. Slots' /\ Place'
    BY <2>1 DEF IInv, Slots, Place, Types, MainPc
  <2>4. Posts' /\ Idlers'
    BY <2>1 DEF IInv, Posts, Idlers, Types
  <2>5. Told' /\ NoAssertFails' /\ NoLostWakeup'
    BY <2>1 DEF IInv, Told, Unposted, NoAssertFails, NoLostWakeup, Types
  <2> QED
    BY <2>2, <2>3, <2>4, <2>5 DEF IInv
<1>3. sel \in aos
  BY DEF IInv, Place, InitHandler
<1> QED
  BY <1>1, <1>2, <1>3 DEF InitHandler

LEMMA HandlePostInv ==
  ASSUME IInv, Running, Refusable, NEW b \in AO, NEW e \in Event \ Stop, NEW m \in Margins, 
         HandlePost(b, e, m)
  PROVE  IInv'
<1> USE AoCooperativeAssumption, CapacityAssumption
<1>1. ASSUME NEW c \in aos, NEW f \in Event \ Stop, NEW n \in Margins, HandlerFn(c, f, n)
      PROVE  IInv'
  <2>1. /\ NoAssertFails'
        /\ \A a \in AO : queue'[a] # <<>> => a \in ready'
        /\ (ready' = ready /\ notified' = notified) \/ notified' = TRUE
    BY <1>1, MainPush
  <2>2. /\ queue' \in [AO -> Seq(Event)]
        /\ \A a \in AO : Len(queue'[a]) <= Capacity
        /\ ready' \subseteq aos /\ ready' \subseteq AO /\ notified' \in BOOLEAN
        /\ \A a \in AO : Len(queue[a]) < Capacity => Len(queue'[a]) < Capacity
        /\ \A a \in AO : \A i \in 1 .. Len(queue'[a]) :
             queue'[a][i] \in Stop => i \in 1 .. Len(queue[a]) /\ queue[a][i] \in Stop
        /\ \A a \in AO : queue[a] # <<>> => queue'[a] # <<>>
    BY <1>1, MainPush
  <2>3. /\ pc[Main] = "handle" /\ pc' = [pc EXCEPT ![Main] = "handled"]
        /\ UNCHANGED <<running, registered, aos, cnt, initDone, sel, cur, toStart,
                       round, post, told>>
    BY DEF HandlePost, Goto, runVars, mainVars, postVars
  <2>4. Types'
    BY <2>2, <2>3 DEF IInv, Types, MainPc
  <2>5. Slots' /\ Place'
    BY <2>2, <2>3 DEF IInv, Slots, Place, Types, MainPc
  <2>6. Posts' /\ Idlers'
    BY <2>2, <2>3 DEF IInv, Posts, Idlers, Types
  <2>7. Told'
    BY <2>2, <2>3 DEF IInv, Told, Unposted, Types
  <2>8. NoLostWakeup'
    BY <2>1, <2>3 DEF IInv, NoLostWakeup, Types
  <2> QED
    BY <2>1, <2>4, <2>5, <2>6, <2>7, <2>8 DEF IInv
<1>2. b \in aos /\ HandlerFn(b, e, m)
  BY DEF IInv, Slots, HandlePost
<1> QED
  BY <1>1, <1>2

LEMMA PostCheckInv ==
  ASSUME IInv, NEW p \in Poster, NEW b \in AO, NEW e \in Event,
         NEW m \in 0 .. Capacity - 1, e \in Stop => m = 0, e \notin Stop => m \in Margins,
         PostCheck(p, b, e, m)
  PROVE  IInv'
<1> USE AoCooperativeAssumption, CapacityAssumption
<1>1. /\ pc[p] = "idle" /\ b \in aos /\ b \notin told
      /\ e \in Stop => \A q \in Poster : post[q].dest # b
      /\ post' = [post EXCEPT ![p] = [dest |-> b, event |-> e, margin |-> m]]
      /\ told' = IF e \in Stop THEN told \cup {b} ELSE told
      /\ pc' = [pc EXCEPT ![p] = "push"] /\ p # Main
      /\ UNCHANGED <<queue, running, registered, aos, cnt, initDone, ready, notified,
                     sel, cur, toStart, round, failed>>
  BY DEF PostCheck, IInv, Slots, Goto, aoVars, wakeVars, runVars, mainVars
<1>2. Types'
  <2>1. [dest |-> b, event |-> e, margin |-> m] \in PostType
    BY DEF PostType
  <2> QED
    BY <1>1, <2>1 DEF IInv, Types, MainPc
<1>3. Slots' /\ Place'
  BY <1>1 DEF IInv, Slots, Place, Types, MainPc
<1>4. Posts'
  <2>1. ASSUME NEW r \in Poster, pc'[r] = "push", r # p
        PROVE  pc[r] = "push" /\ post'[r] = post[r] /\ post[r].dest \in aos
    BY <1>1, <2>1 DEF IInv, Types, Posts
  <2>2. /\ post'[p].dest = b /\ post'[p].event = e /\ post'[p].margin = m
        /\ \A r \in Poster : r # p => post'[r] = post[r]
    BY <1>1 DEF IInv, Types
  <2>3. ASSUME NEW r \in Poster, pc'[r] = "push", r # p, post[r].event \in Stop
        PROVE  post[r].dest # b
    BY <1>1, <2>1, <2>3 DEF IInv, Posts
  <2>4. Len(queue[b]) < Capacity
    BY <1>1 DEF IInv, Told
  <2> QED
    BY <1>1, <2>1, <2>2, <2>3, <2>4 DEF IInv, Posts, Types
<1>5. Idlers'
  BY <1>1 DEF IInv, Idlers, Types
<1>6. Told'
  <2>1. ASSUME NEW a \in AO, a \in told, Unposted(a)
        PROVE  a \in told' /\ Unposted(a)'
    BY <1>1, <2>1 DEF IInv, Types, Unposted
  <2> QED
    BY <1>1, <2>1 DEF IInv, Told, Types, Place
<1>7. NoAssertFails' /\ NoLostWakeup'
  BY <1>1 DEF IInv, NoAssertFails, NoLostWakeup, Types
<1> QED
  BY <1>2, <1>3, <1>4, <1>5, <1>6, <1>7 DEF IInv

LEMMA PostPushInv ==
  ASSUME IInv, Running, Refusable, NEW p \in Poster, PostPush(p)
  PROVE  IInv'
<1> USE AoCooperativeAssumption, CapacityAssumption
<1> DEFINE b == post[p].dest
           e == post[p].event
           m == post[p].margin
<1>1. /\ pc[p] = "push" /\ HandlerFn(b, e, m) /\ p # Main
      /\ post' = [post EXCEPT ![p] = NoPost] /\ pc' = [pc EXCEPT ![p] = "idle"]
      /\ UNCHANGED <<running, registered, aos, cnt, initDone, sel, cur, toStart, round, told>>
  BY DEF PostPush, Goto, runVars, mainVars
<1>2. /\ b \in aos /\ e \in Event /\ m \in 0 .. Capacity - 1 /\ b \in AO
      /\ e \notin Stop => m > 0
      /\ e \in Stop => /\ Len(queue[b]) < Capacity /\ b \in told
                       /\ \A q \in Poster \ {p} : post[q].dest # b
  <2>1. post[p] \in PostType /\ Margins \subseteq 0 .. Capacity - 1 /\ aos \subseteq AO
    BY DEF IInv, Types
  <2>2. m \in 0 .. Capacity - 1
    BY <2>1 DEF PostType
  <2>3. /\ b \in aos /\ e \in Event /\ (e \notin Stop => m \in Margins)
        /\ e \in Stop => /\ Len(queue[b]) < Capacity /\ b \in told
                         /\ \A q \in Poster \ {p} : post[q].dest # b
    BY <1>1 DEF IInv, Posts
  <2>4. e \notin Stop => m > 0
    BY <2>2, <2>3 DEF Refusable
  <2> QED
    BY <2>1, <2>2, <2>3, <2>4
<1> HIDE DEF b, e, m
<1>3. m > 0 \/ Len(queue[b]) < Capacity
  BY <1>2
<1>4. /\ Pushed(queue, queue', b, e, m) /\ NoAssertFails'
      /\ ready \subseteq ready' /\ ready' \subseteq ready \cup {b}
      /\ (ready' = ready /\ notified' = notified) \/ notified' = TRUE
      /\ \A a \in AO : queue'[a] # <<>> => a \in ready'
  BY <1>1, <1>2, <1>3, HandlerFnStep
<1>5. /\ queue' \in [AO -> Seq(Event)]
      /\ \A a \in AO : Len(queue'[a]) <= Capacity
      /\ ready' \subseteq aos /\ ready' \subseteq AO /\ notified' \in BOOLEAN
      /\ \A a \in AO : a # b \/ m > 0 =>
           (Len(queue[a]) < Capacity => Len(queue'[a]) < Capacity)
      /\ \A a \in AO : \A i \in 1 .. Len(queue'[a]) :
           \/ i \in 1 .. Len(queue[a]) /\ queue'[a][i] = queue[a][i]
           \/ a = b /\ queue'[a][i] = e
      /\ \A a \in AO : queue[a] # <<>> => queue'[a] # <<>>
  BY <1>2, <1>4, PushedInv
<1>6. Types'
  <2>1. NoPost \in PostType
    BY DEF NoPost, PostType
  <2> QED
    BY <1>1, <1>5, <2>1 DEF IInv, Types, MainPc
<1>7. Slots' /\ Place'
  BY <1>1, <1>5 DEF IInv, Slots, Place, Types, MainPc
<1>8. /\ post'[p].dest = NoAo
      /\ \A r \in Poster : r # p => post'[r] = post[r] /\ pc'[r] = pc[r]
      /\ pc'[p] = "idle" /\ post'[p] = NoPost /\ pc'[Main] = pc[Main]
  BY <1>1 DEF IInv, Types, NoPost
<1>9. Posts'
  <2>1. ASSUME NEW r \in Poster, pc'[r] = "push"
        PROVE  r # p /\ pc[r] = "push" /\ post'[r] = post[r] /\ post[r].dest \in AO
    BY <1>8, <2>1 DEF IInv, Types, Posts
  <2>2. ASSUME NEW r \in Poster, pc'[r] = "push", post[r].event \in Stop
        PROVE  Len(queue'[post[r].dest]) < Capacity
    <3>1. Len(queue[post[r].dest]) < Capacity /\ post[r].dest # b
      BY <2>1, <2>2, <1>1 DEF IInv, Posts, b
    <3> QED
      BY <1>5, <2>1, <2>2, <3>1
  <2>3. ASSUME NEW r \in Poster, pc'[r] = "push", post[r].event \in Stop
        PROVE  \A q \in Poster \ {r} : post'[q].dest # post[r].dest
    <3> TAKE q \in Poster \ {r}
    <3>1. CASE q = p
      <4>1. NoAo \notin AO
        BY DEF IInv
      <4> QED
        BY <1>8, <2>1, <2>3, <3>1, <4>1
    <3>2. CASE q # p
      <4>1. post[q].dest # post[r].dest
        BY <2>1, <2>3 DEF IInv, Posts
      <4> QED
        BY <1>8, <3>2, <4>1
    <3> QED
      BY <3>1, <3>2
  <2> QED
    BY <1>1, <2>1, <2>2, <2>3 DEF IInv, Posts
<1>10. Idlers'
  BY <1>8 DEF IInv, Idlers
<1>11. Told'
  <2>1. ASSUME NEW a \in AO, Unposted(a)
        PROVE  \A q \in Poster : post'[q].dest # a
    BY <1>8, <2>1, AoCooperativeAssumption DEF Unposted, NoAo
  <2>2. e \in Stop => b \in told /\ \A q \in Poster : post'[q].dest # b
    BY <1>2, <1>8, AoCooperativeAssumption DEF NoAo
  <2>3. ASSUME NEW a \in AO, NEW i \in 1 .. Len(queue'[a]), queue'[a][i] \in Stop
        PROVE  a \in told /\ \A q \in Poster : post'[q].dest # a
    BY <1>5, <2>1, <2>2, <2>3 DEF IInv, Told
  <2>4. pc'[Main] = "handle" /\ cur \in Stop => sel \in told /\ \A q \in Poster : post'[q].dest # sel
    BY <1>8, <2>1 DEF IInv, Told, Place, Types
  <2>5. \A a \in AO : a \notin told => Len(queue'[a]) < Capacity
    BY <1>2, <1>5 DEF IInv, Told
  <2> QED
    BY <1>1, <2>3, <2>4, <2>5 DEF Told, Unposted
<1>12. NoLostWakeup'
  BY <1>1, <1>4, <1>8 DEF IInv, NoLostWakeup
<1> QED
  BY <1>4, <1>6, <1>7, <1>9, <1>10, <1>11, <1>12 DEF IInv

-----------------------------------------------------------------------------
(* The theorems.                                                           *)

LEMMA InitInv == Init => IInv
<1> SUFFICES ASSUME Init PROVE IInv
  OBVIOUS
<1> USE AoCooperativeAssumption, CapacityAssumption DEF Init
<1>1. IsFiniteSet(aos) /\ cnt = Cardinality(aos)
  BY FS_EmptySet
<1>2. post \in [Poster -> PostType]
  BY DEF PostType, NoPost
<1>3. Types
  <2>1. queue \in [AO -> Seq(Event)] /\ \A a \in AO : Len(queue[a]) <= Capacity
    OBVIOUS
  <2>2. pc \in [Poster \cup {Main} -> MainPc \cup {"push"}] /\ pc[Main] \in MainPc
    BY DEF MainPc
  <2>3. round \in 1 .. Rounds
    OBVIOUS
  <2> QED
    BY <1>1, <1>2, <2>1, <2>2, <2>3 DEF Types
<1>4. Slots /\ Place /\ Posts /\ Idlers
  BY DEF Slots, Place, Posts, Idlers
<1>5. Told /\ NoAssertFails /\ NoLostWakeup
  BY DEF Told, NoAssertFails, NoLostWakeup
<1> QED
  BY <1>3, <1>4, <1>5 DEF IInv

LEMMA NextInv ==
  ASSUME Refusable, IInv, [Next]_vars
  PROVE  IInv'
<1>1. CASE Running /\ MainStep
  BY <1>1, AoStartInv, InitHandlerInv, MainLoopInv, SelectIdleInv, SelectClearInv, SelectInv,
     IdleReturnsInv, PopInv, HandleReturnInv, StopFlushInv, StopUnregisterInv DEF MainStep
<1>2. CASE Running /\ \E p \in Poster : PostPush(p)
  BY <1>2, PostPushInv
<1>3. CASE Running /\ Free
  <2>1. ASSUME NEW b \in AO, NEW e \in Event \ Stop, NEW m \in Margins, HandlePost(b, e, m)
        PROVE  IInv'
    BY <1>3, <2>1, HandlePostInv
  <2>2. ASSUME NEW p \in Poster, NEW b \in AO, NEW e \in Event \ Stop, NEW m \in Margins,
               PostCheck(p, b, e, m)
        PROVE  IInv'
    <3>1. m \in 0 .. Capacity - 1 /\ e \in Event
      BY AoCooperativeAssumption
    <3> QED
      BY <2>2, <3>1, PostCheckInv
  <2>3. ASSUME NEW p \in Poster, NEW b \in AO, NEW e \in Stop, PostCheck(p, b, e, 0)
        PROVE  IInv'
    <3>1. 0 \in 0 .. Capacity - 1 /\ e \in Event
      BY AoCooperativeAssumption, CapacityAssumption
    <3> QED
      BY <2>3, <3>1, PostCheckInv
  <2> QED
    BY <1>3, <2>1, <2>2, <2>3 DEF Free
<1>4. CASE UNCHANGED vars
  <2>1. UNCHANGED <<queue, running, registered, aos, cnt, initDone, ready, notified, pc,
                    sel, cur, toStart, round, post, told, failed>>
    BY <1>4 DEF vars, aoVars, wakeVars, runVars, mainVars, postVars
  <2>2. Types' /\ Slots' /\ Place'
    BY <2>1 DEF IInv, Types, Slots, Place
  <2>3. Posts' /\ Idlers' /\ Told' /\ NoAssertFails' /\ NoLostWakeup'
    BY <2>1 DEF IInv, Posts, Idlers, Told, Unposted, NoAssertFails, NoLostWakeup
  <2> QED
    BY <2>2, <2>3 DEF IInv
<1> QED
  BY <1>1, <1>2, <1>3, <1>4 DEF Next

LEMMA Inv == ASSUME Refusable PROVE Spec => []IInv
<1>1. Init => IInv
  BY InitInv
<1>2. IInv /\ [Next]_vars => IInv'
  BY NextInv
<1> QED
  BY <1>1, <1>2, PTL DEF Spec

\* Every variable keeps to its range, and am_ao_get_cnt is the number of active objects
\* that have a slot, whatever is posted, started and stopped.
THEOREM TypeCorrect == ASSUME Refusable PROVE Spec => []TypeOK
<1>1. IInv => TypeOK
  <2> SUFFICES ASSUME IInv PROVE TypeOK
    OBVIOUS
  <2>1. queue \in [AO -> Queues(Event)]
    <3>1. ASSUME NEW a \in AO
          PROVE  queue[a] \in Queues(Event)
      <4>1. /\ queue[a] \in Seq(Event) /\ Len(queue[a]) \in 0 .. Capacity
            /\ queue[a] \in [1 .. Len(queue[a]) -> Event]
        BY CapacityAssumption DEF IInv, Types
      <4> QED
        BY <4>1 DEF Queues
    <3> QED
      BY <3>1 DEF IInv, Types
  <2> QED
    BY <2>1 DEF IInv, Types, TypeOK
<1> QED
  BY <1>1, Inv, PTL

\* No assertion of the cooperative port fails, for any number of active objects and of
\* posters: the bit that am_ao_run_all finds belongs to an active object that has a slot
\* and whose queue has the event it pops, a post finds its active object running, a stop
\* event finds room, and an active object that is started again finds its slot free.
THEOREM NoAssertFailsCorrect == ASSUME Refusable PROVE Spec => []NoAssertFails
<1>1. IInv => NoAssertFails
  BY DEF IInv
<1> QED
  BY <1>1, Inv, PTL

\* A queue with an event has its ready bit, and the main task does not wait for a
\* notification that was given before it began to wait.
THEOREM WakeupCorrect == ASSUME Refusable PROVE Spec => []NoLostWakeup
<1>1. IInv => NoLostWakeup
  BY DEF IInv
<1> QED
  BY <1>1, Inv, PTL

\* The active object that am_ao_run_all selects is the one of the highest priority that
\* has an event, also while posters fill the queues between its steps: the bits cover
\* the queues.
THEOREM SelectCorrect == ASSUME Refusable PROVE Spec => SelectsHighest
<1>1. IInv /\ [Next]_vars => [Select => \A b \in AO : b > sel' => queue[b] = <<>>]_vars
  <2> SUFFICES ASSUME IInv, Select, NEW b \in AO, b > sel'
               PROVE  queue[b] = <<>>
    OBVIOUS
  <2>1. Highest(sel', ready)
    BY DEF Select
  <2>2. sel' \in AO /\ b \in Int /\ sel' \in Int
    BY <2>1, AoCooperativeAssumption DEF Highest, IInv, Types
  <2>3. b \notin ready
    BY <2>1, <2>2 DEF Highest
  <2> QED
    BY <2>3 DEF IInv, NoLostWakeup
<1> QED
  BY <1>1, Inv, PTL DEF SelectsHighest, Spec

=============================================================================
