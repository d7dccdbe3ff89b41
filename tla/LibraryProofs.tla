---------------------------- MODULE LibraryProofs ----------------------------
(***************************************************************************)
(* Theorems about the parts of the library that module Library brings      *)
(* together, for every size of their tables.                               *)
(*                                                                         *)
(* Onesize: in a pool of any size the blocks are partitioned into listed,  *)
(* never used and held ones, the free counter is exact, and the allocator  *)
(* implements module BlockPool.                                            *)
(*                                                                         *)
(* Pal and PalUv: a thread finds its own descriptor, and main joins each   *)
(* thread once, for any number of tasks and thread identifiers.            *)
(***************************************************************************)
EXTENDS Library, WellFoundedInduction, FiniteSetTheorems, SequenceTheorems, TLAPS

\* nfree and the set of held blocks are complementary.
HeldCount == IsFiniteSet(held) /\ Cardinality(held) = NTotal - nfree

IInv == TypeOK /\ Partition /\ CountExact /\ HeldCount

LEMMA InitInv == Init => IInv
<1> SUFFICES ASSUME Init PROVE IInv
  OBVIOUS
<1>1. IsFiniteSet({}) /\ Cardinality({}) = 0
  BY FS_EmptySet
<1>2. <<>> \in Seq(Block) /\ Len(<<>>) = 0 /\ DOMAIN <<>> = {}
  OBVIOUS
<1>3. NTotal \in Nat /\ NTotal # 0
  BY OnesizeAssumption
<1>4. TypeOK
  BY <1>2, <1>3 DEF Init, TypeOK
<1>5. Partition
  BY <1>2, <1>3 DEF Init, Partition, Listed
<1>6. CountExact
  BY <1>2, <1>3 DEF Init, CountExact
<1>7. HeldCount
  BY <1>1, <1>3 DEF Init, HeldCount
<1> QED
  BY <1>4, <1>5, <1>6, <1>7 DEF IInv

\* Putting a block that is not listed before the free list.
LEMMA ListPushed ==
  ASSUME TypeOK, Partition, NEW b \in Block, b \notin Listed
  PROVE  LET s == <<b>> \o fl
         IN  /\ s \in Seq(Block)
             /\ Len(s) = Len(fl) + 1
             /\ {s[i] : i \in DOMAIN s} = Listed \cup {b}
             /\ \A i, j \in DOMAIN s : s[i] = s[j] => i = j
<1> DEFINE s == <<b>> \o fl
<1>1. fl \in Seq(Block) /\ \A i, j \in DOMAIN fl : fl[i] = fl[j] => i = j
  BY DEF TypeOK, Partition
<1>2. <<b>> \in Seq(Block) /\ Len(<<b>>) = 1 /\ <<b>>[1] = b
  OBVIOUS
<1>3. /\ s \in Seq(Block) /\ Len(s) = 1 + Len(fl)
      /\ \A i \in 1 .. 1 + Len(fl) : s[i] = IF i <= 1 THEN <<b>>[i] ELSE fl[i - 1]
  BY <1>1, <1>2, ConcatProperties
<1> HIDE DEF s
<1>4. DOMAIN s = 1 .. 1 + Len(fl) /\ DOMAIN fl = 1 .. Len(fl) /\ Len(fl) \in Nat
  BY <1>1, <1>3
<1>5. s[1] = b /\ \A i \in 1 .. Len(fl) : s[i + 1] = fl[i]
  BY <1>2, <1>3, <1>4
<1>6. ASSUME NEW i \in DOMAIN s PROVE i = 1 \/ (i - 1 \in DOMAIN fl /\ s[i] = fl[i - 1])
  BY <1>2, <1>3, <1>4
<1>7. {s[i] : i \in DOMAIN s} = Listed \cup {b}
  <2>1. ASSUME NEW i \in DOMAIN s PROVE s[i] \in Listed \cup {b}
    BY <1>5, <1>6 DEF Listed
  <2>2. ASSUME NEW i \in DOMAIN fl PROVE fl[i] \in {s[k] : k \in DOMAIN s}
    <3>1. i + 1 \in DOMAIN s /\ s[i + 1] = fl[i]
      BY <1>4, <1>5
    <3> QED
      BY <3>1
  <2>3. b \in {s[k] : k \in DOMAIN s}
    BY <1>4, <1>5
  <2> QED
    BY <2>1, <2>2, <2>3 DEF Listed
<1>8. ASSUME NEW i \in DOMAIN s, NEW j \in DOMAIN s, s[i] = s[j] PROVE i = j
  <2>1. CASE i = 1 /\ j = 1
    BY <2>1
  <2>2. CASE i # 1 /\ j # 1
    <3>1. /\ i - 1 \in DOMAIN fl /\ j - 1 \in DOMAIN fl
          /\ fl[i - 1] = fl[j - 1]
      BY <1>6, <1>8, <2>2
    <3>2. i - 1 = j - 1
      BY <1>1, <3>1
    <3> QED
      BY <1>4, <3>2
  <2>3. CASE i = 1 /\ j # 1
    BY <1>5, <1>6, <1>8, <2>3 DEF Listed
  <2>4. CASE i # 1 /\ j = 1
    BY <1>5, <1>6, <1>8, <2>4 DEF Listed
  <2> QED
    BY <2>1, <2>2, <2>3, <2>4
<1>9. Len(s) = Len(fl) + 1
  BY <1>3, <1>4
<1> QED
  BY <1>3, <1>7, <1>8, <1>9 DEF s

\* Taking the head off the free list.
LEMMA ListPopped ==
  ASSUME TypeOK, Partition, fl # <<>>
  PROVE  /\ Tail(fl) \in Seq(Block)
         /\ Len(fl) > 0
         /\ Len(Tail(fl)) = Len(fl) - 1
         /\ Head(fl) \in Listed
         /\ {Tail(fl)[i] : i \in DOMAIN Tail(fl)} = Listed \ {Head(fl)}
         /\ \A i, j \in DOMAIN Tail(fl) : Tail(fl)[i] = Tail(fl)[j] => i = j
<1> DEFINE s == Tail(fl)
<1>1. fl \in Seq(Block) /\ \A i, j \in DOMAIN fl : fl[i] = fl[j] => i = j
  BY DEF TypeOK, Partition
<1>2. /\ s \in Seq(Block) /\ Len(s) = Len(fl) - 1
      /\ \A i \in 1 .. Len(s) : s[i] = fl[i + 1]
  BY <1>1, HeadTailProperties
<1>3. Head(fl) = fl[1] /\ Len(fl) \in Nat /\ Len(fl) # 0 /\ DOMAIN fl = 1 .. Len(fl)
  BY <1>1
<1> HIDE DEF s
<1>4. DOMAIN s = 1 .. Len(fl) - 1
  BY <1>2
<1>5. ASSUME NEW i \in DOMAIN s PROVE i + 1 \in DOMAIN fl /\ i + 1 # 1 /\ s[i] = fl[i + 1]
  BY <1>2, <1>3, <1>4
<1>6. ASSUME NEW i \in DOMAIN fl, i # 1 PROVE i - 1 \in DOMAIN s /\ s[i - 1] = fl[i]
  <2>1. i - 1 \in 1 .. Len(s) /\ (i - 1) + 1 = i
    BY <1>2, <1>3, <1>6
  <2> QED
    BY <1>2, <1>4, <2>1
<1>7. 1 \in DOMAIN fl
  BY <1>3
<1>8. {s[i] : i \in DOMAIN s} = Listed \ {Head(fl)}
  <2>1. ASSUME NEW i \in DOMAIN s PROVE s[i] \in Listed /\ s[i] # Head(fl)
    BY <1>1, <1>3, <1>5, <1>7 DEF Listed
  <2>2. ASSUME NEW x \in Listed, x # Head(fl) PROVE x \in {s[i] : i \in DOMAIN s}
    <3>1. PICK i \in DOMAIN fl : x = fl[i]
      BY DEF Listed
    <3>2. i # 1
      BY <1>3, <2>2, <3>1
    <3> QED
      BY <1>6, <3>1, <3>2
  <2> QED
    BY <2>1, <2>2
<1>9. ASSUME NEW i \in DOMAIN s, NEW j \in DOMAIN s, s[i] = s[j] PROVE i = j
  <2>1. i + 1 = j + 1
    BY <1>1, <1>5, <1>9
  <2> QED
    BY <1>4, <2>1
<1>10. Head(fl) \in Listed
  BY <1>3, <1>7 DEF Listed
<1>11. Len(fl) > 0
  BY <1>3
<1> QED
  BY <1>2, <1>8, <1>9, <1>10, <1>11 DEF s

-----------------------------------------------------------------------------
(* The invariant, one lemma per call.                                      *)

\* What a served allocation leaves behind; got' is a block nobody held.
LEMMA AllocateInv ==
  ASSUME IInv, NEW m \in Margins, Allocate(m)
  PROVE  IInv' /\ got' \in Block /\ got' \notin held
<1> USE DEF IInv
<1>0. /\ NTotal \in Nat /\ NTotal # 0 /\ m \in Nat
      /\ nfree \in 0 .. NTotal /\ nfree_min \in 0 .. NTotal /\ nbump \in 0 .. NTotal
      /\ fl \in Seq(Block) /\ Len(fl) \in Nat /\ held \subseteq Block
      /\ nfree = Len(fl) + (NTotal - nbump)
      /\ Listed \cap held = {} /\ Listed \cup held = 0 .. nbump - 1
  BY OnesizeAssumption DEF TypeOK, CountExact, Partition
<1>1. nfree > 0 /\ nfree' = nfree - 1 /\ nfree_min' = Minimum(nfree_min, nfree - 1)
      /\ held' = held \cup {got'}
  BY <1>0 DEF Allocate, Refused
<1>2. nfree' \in 0 .. NTotal /\ nfree_min' \in 0 .. NTotal
  BY <1>0, <1>1 DEF Minimum
<1>3. CASE TakeBump
  <2>1. fl = <<>> /\ got' = nbump /\ nbump' = nbump + 1 /\ fl' = fl
    BY <1>3 DEF TakeBump
  <2>2. nbump < NTotal /\ nbump \in Block /\ nbump' \in 0 .. NTotal
    BY <1>0, <1>1, <2>1 DEF Block
  <2>3. nbump \notin held /\ nbump \notin Listed
    <3>1. nbump \notin 0 .. nbump - 1
      BY <1>0
    <3> QED
      BY <1>0, <3>1
  <2>4. TypeOK'
    BY <1>0, <1>1, <1>2, <2>1, <2>2 DEF TypeOK
  <2>5. Partition'
    <3>1. 0 .. nbump' - 1 = (0 .. nbump - 1) \cup {nbump}
      BY <1>0, <2>1
    <3>2. Listed' = Listed
      BY <2>1 DEF Listed
    <3> QED
      BY <1>0, <1>1, <2>1, <2>3, <3>1, <3>2 DEF Partition
  <2>6. CountExact'
    BY <1>0, <1>1, <2>1 DEF CountExact
  <2>7. HeldCount'
    BY <1>0, <1>1, <2>1, <2>3, FS_AddElement DEF HeldCount
  <2> QED
    BY <2>1, <2>2, <2>3, <2>4, <2>5, <2>6, <2>7
<1>4. CASE TakeListed
  <2>1. fl # <<>> /\ got' = Head(fl) /\ fl' = Tail(fl) /\ nbump' = nbump
    BY <1>4 DEF TakeListed
  <2>2. /\ Tail(fl) \in Seq(Block) /\ Len(fl) > 0 /\ Len(Tail(fl)) = Len(fl) - 1
        /\ Head(fl) \in Listed
        /\ {Tail(fl)[i] : i \in DOMAIN Tail(fl)} = Listed \ {Head(fl)}
        /\ \A i, j \in DOMAIN Tail(fl) : Tail(fl)[i] = Tail(fl)[j] => i = j
    BY <2>1, ListPopped
  <2>3. Listed' = Listed \ {got'} /\ got' \in Listed
    BY <2>1, <2>2 DEF Listed
  <2>4. got' \notin held /\ got' \in Block
    <3>1. got' \in 0 .. nbump - 1
      BY <1>0, <2>3
    <3> QED
      BY <1>0, <2>3, <3>1 DEF Block
  <2>5. TypeOK'
    <3>1. fl' \in Seq(Block)
      BY <2>1, <2>2
    <3> QED
      BY <1>0, <1>1, <1>2, <2>1, <2>4, <3>1 DEF TypeOK
  <2>6. Partition'
    <3>1. \A i, j \in DOMAIN fl' : fl'[i] = fl'[j] => i = j
      BY <2>1, <2>2
    <3>2. Listed' \cup held' = Listed \cup held /\ Listed' \cap held' = {}
      BY <1>0, <1>1, <2>3, <2>4
    <3> QED
      BY <1>0, <2>1, <3>1, <3>2 DEF Partition
  <2>7. CountExact'
    <3>1. Len(fl') = Len(fl) - 1
      BY <2>1, <2>2
    <3> QED
      BY <1>0, <1>1, <2>1, <3>1 DEF CountExact
  <2>8. HeldCount'
    <3>1. IsFiniteSet(held) /\ got' \notin held /\ held' = held \cup {got'}
      BY <1>0, <1>1, <2>4 DEF HeldCount
    <3>3. IsFiniteSet(held') /\ Cardinality(held') = Cardinality(held) + 1
      BY <3>1, FS_AddElement
    <3>2. nfree' = nfree - 1 /\ nfree \in Int /\ NTotal \in Int
      BY <1>0, <1>1, OnesizeAssumption
    <3> QED
      BY <1>0, <3>2, <3>3 DEF HeldCount
  <2> QED
    BY <2>4, <2>5, <2>6, <2>7, <2>8
<1> QED
  BY <1>3, <1>4 DEF Allocate

LEMMA FreeInv ==
  ASSUME IInv, NEW b \in Block, Free(b)
  PROVE  IInv'
<1> USE DEF IInv
<1>0. /\ NTotal \in Nat /\ NTotal # 0
      /\ nfree \in 0 .. NTotal /\ nfree_min \in 0 .. NTotal /\ nbump \in 0 .. NTotal
      /\ fl \in Seq(Block) /\ Len(fl) \in Nat /\ held \subseteq Block
      /\ nfree = Len(fl) + (NTotal - nbump)
      /\ Listed \cap held = {} /\ Listed \cup held = 0 .. nbump - 1
  BY OnesizeAssumption DEF TypeOK, CountExact, Partition
<1>1. /\ b \in held /\ fl' = <<b>> \o fl /\ nfree' = nfree + 1
      /\ held' = held \ {b} /\ nbump' = nbump /\ nfree_min' = nfree_min /\ got' = got
  BY DEF Free
<1>2. b \notin Listed
  BY <1>0, <1>1
<1>3. /\ <<b>> \o fl \in Seq(Block) /\ Len(<<b>> \o fl) = Len(fl) + 1
      /\ {(<<b>> \o fl)[i] : i \in DOMAIN (<<b>> \o fl)} = Listed \cup {b}
      /\ \A i, j \in DOMAIN (<<b>> \o fl) : (<<b>> \o fl)[i] = (<<b>> \o fl)[j] => i = j
  BY <1>2, ListPushed
<1>4. /\ fl' \in Seq(Block) /\ Len(fl') = Len(fl) + 1 /\ Listed' = Listed \cup {b}
      /\ \A i, j \in DOMAIN fl' : fl'[i] = fl'[j] => i = j
  BY <1>1, <1>3 DEF Listed
<1>5. nfree < NTotal
  <2>1. Cardinality(held) # 0 /\ Cardinality(held) = NTotal - nfree
    BY <1>1, FS_EmptySet DEF HeldCount
  <2> QED
    BY <1>0, <2>1
<1>6. TypeOK'
  <2>1. nfree' \in 0 .. NTotal
    BY <1>0, <1>1, <1>5
  <2> QED
    BY <1>0, <1>1, <1>4, <2>1 DEF TypeOK
<1>7. Partition'
  <2>1. Listed' \cup held' = Listed \cup held /\ Listed' \cap held' = {}
    BY <1>0, <1>1, <1>4
  <2> QED
    BY <1>0, <1>1, <1>4, <2>1 DEF Partition
<1>8. CountExact'
  BY <1>0, <1>1, <1>4 DEF CountExact
<1>9. HeldCount'
  <2>1. IsFiniteSet(held) /\ Cardinality(held) = NTotal - nfree
    BY DEF HeldCount
  <2>2. IsFiniteSet(held \ {b}) /\ Cardinality(held \ {b}) = Cardinality(held) - 1
    BY <1>1, <2>1, FS_RemoveElement
  <2>3. IsFiniteSet(held') /\ Cardinality(held') = (NTotal - nfree) - 1
    BY <1>1, <2>1, <2>2
  <2>4. (NTotal - nfree) - 1 = NTotal - nfree'
    BY <1>0, <1>1
  <2> QED
    BY <2>3, <2>4 DEF HeldCount
<1> QED
  BY <1>6, <1>7, <1>8, <1>9

LEMMA FreeAllInv ==
  ASSUME IInv, FreeAll
  PROVE  IInv'
<1> USE DEF IInv
<1>1. /\ fl' = <<>> /\ nbump' = 0 /\ nfree' = NTotal /\ held' = {}
      /\ nfree_min' = nfree_min /\ got' = got
  BY DEF FreeAll
<1>2. NTotal \in Nat /\ nfree_min \in 0 .. NTotal /\ got \in Block \cup {Null}
  BY OnesizeAssumption DEF TypeOK
<1>3. <<>> \in Seq(Block) /\ Len(<<>>) = 0 /\ DOMAIN <<>> = {}
  OBVIOUS
<1>4. TypeOK'
  BY <1>1, <1>2, <1>3 DEF TypeOK
<1>5. Partition'
  BY <1>1, <1>2, <1>3 DEF Partition, Listed
<1>6. CountExact'
  BY <1>1, <1>2, <1>3 DEF CountExact
<1>7. HeldCount'
  BY <1>1, <1>2, FS_EmptySet DEF HeldCount
<1> QED
  BY <1>4, <1>5, <1>6, <1>7

LEMMA NextInv == IInv /\ [Next]_vars => IInv'
<1> SUFFICES ASSUME IInv, [Next]_vars PROVE IInv'
  OBVIOUS
<1>1. ASSUME NEW m \in Margins, Allocate(m) PROVE IInv'
  BY <1>1, AllocateInv
<1>2. ASSUME NEW m \in Margins, AllocateFails(m) PROVE IInv'
  BY <1>2 DEF AllocateFails, IInv, TypeOK, Partition, Listed, CountExact, HeldCount
<1>3. ASSUME NEW b \in Block, Free(b) PROVE IInv'
  BY <1>3, FreeInv
<1>4. CASE FreeAll
  BY <1>4, FreeAllInv
<1>5. CASE UNCHANGED vars
  BY <1>5 DEF vars, IInv, TypeOK, Partition, Listed, CountExact, HeldCount
<1> QED
  BY <1>1, <1>2, <1>3, <1>4, <1>5 DEF Next

\* For a pool of any size and any sequence of calls: no block is listed twice,
\* none is both listed and held, none is lost, and nfree is the number of
\* blocks that the free list and the bump index can still give.
THEOREM Invariance == Spec => []IInv
<1>1. Init => IInv
  BY InitInv
<1>2. IInv /\ [Next]_vars => IInv'
  BY NextInv
<1> QED
  BY <1>1, <1>2, PTL DEF Spec

\* The free list holds blocks, and the counters stay within the pool.
THEOREM TypeCorrect == Spec => []TypeOK
BY Invariance, PTL DEF IInv

\* The partition of the blocks is an invariant.
THEOREM PartitionCorrect == Spec => []Partition
BY Invariance, PTL DEF IInv

\* The free counter is exact.
THEOREM CountCorrect == Spec => []CountExact
BY Invariance, PTL DEF IInv

\* No block is lost or handed out twice, and the count that alone decides whether
\* am_onesize_allocate_x serves a request is right, in a pool of any size.
THEOREM BlocksCorrect == Spec => []BlocksAccounted
  BY PartitionCorrect, CountCorrect, PTL DEF BlocksAccounted

-----------------------------------------------------------------------------
(* The refinement.                                                         *)

\* The pool's count of free blocks is the nfree field.
LEMMA FreeIsNFree ==
  ASSUME IInv
  PROVE  Pool!NFree = nfree
<1>1. NTotal \in Nat /\ nfree \in 0 .. NTotal /\ Cardinality(held) = NTotal - nfree
  BY OnesizeAssumption DEF IInv, TypeOK, HeldCount
<1>2. Cardinality(Block) = NTotal
  <2>1. Cardinality(0 .. NTotal - 1) = IF 0 > NTotal - 1 THEN 0 ELSE NTotal - 1 - 0 + 1
    BY <1>1, FS_Interval
  <2> QED
    BY <1>1, <2>1 DEF Block
<1>3. /\ Pool!Cardinality(Block) = Cardinality(Block)
      /\ Pool!Cardinality(held) = Cardinality(held)
  BY Zenon DEF Pool!Cardinality, Cardinality, Pool!IsFiniteSet, IsFiniteSet
<1>4. Pool!NFree = NTotal - (NTotal - nfree)
  BY <1>1, <1>2, <1>3 DEF Pool!NFree
<1> QED
  BY <1>1, <1>4

\* Whatever the state of its free list and bump index, the allocator hands out
\* a block that is free, does so exactly when more than the margin are free,
\* and keeps no block back.
THEOREM Implementation == Spec => ImplementsPool
<1>1. Init => Pool!Init
  BY DEF Init, Pool!Init
<1>2. IInv /\ [Next]_vars => [Pool!Next]_<<held, got>>
  <2> SUFFICES ASSUME IInv, [Next]_vars PROVE [Pool!Next]_<<held, got>>
    OBVIOUS
  <2>1. nfree \in Int /\ Pool!NFree = nfree
    BY FreeIsNFree, OnesizeAssumption DEF IInv, TypeOK
  <2>2. ASSUME NEW m \in Margins, Allocate(m) PROVE Pool!Next
    <3>1. got' \in Block /\ got' \notin held
      BY <2>2, AllocateInv
    <3>2. held' = held \cup {got'} /\ nfree > m
      BY <2>1, <2>2, OnesizeAssumption DEF Allocate, Refused
    <3>3. Pool!Get
      BY <2>1, <3>1, <3>2 DEF Pool!Get
    <3> QED
      BY <3>3 DEF Pool!Next
  <2>3. ASSUME NEW m \in Margins, AllocateFails(m) PROVE Pool!Next
    BY <2>1, <2>3 DEF AllocateFails, Refused, Pool!GetNone, Pool!Next
  <2>4. ASSUME NEW b \in Block, Free(b) PROVE Pool!Next
    BY <2>4 DEF Free, Pool!Put, Pool!Next
  <2>5. CASE FreeAll
    BY <2>5 DEF FreeAll, Pool!PutAll, Pool!Next
  <2>6. CASE UNCHANGED vars
    BY <2>6 DEF vars
  <2> QED
    BY <2>2, <2>3, <2>4, <2>5, <2>6 DEF Next
<1> QED
  BY <1>1, <1>2, Invariance, PTL DEF Spec, ImplementsPool, Pool!Spec

-----------------------------------------------------------------------------
(* Tasks of the platform layers.  Both keep the same table of descriptors, *)
(* so what is said of descriptors, tk, and of threads, t, is said of both. *)
(* Main is at p and works on the descriptor c.                             *)

TaskSlot == 1 .. Slots
Thread == 1 .. Handles

\* Threads whose descriptor is theirs, and those of them that entered it.
Occupying(t, h) == t[h].pc \notin {"none", "ended"}
Entered(t, h) == Occupying(t, h) /\ t[h].pc # "start"

\* A descriptor in use is that of a thread, and its thread's own.
CreatedOwned(tk, t) ==
  \A i \in TaskSlot :
    tk[i].created => tk[i].thread \in Thread /\ Occupying(t, tk[i].thread)
                       /\ t[tk[i].thread].slot = i

\* A thread has its descriptor until it ends, and no earlier one says that it is its own.
ThreadsPlaced(tk, t) ==
  \A h \in Thread :
    /\ t[h].slot \in TaskSlot
    /\ Occupying(t, h) => tk[t[h].slot].created /\ tk[t[h].slot].thread = h
    /\ Entered(t, h) => tk[t[h].slot].running
    /\ t[h].pc # "none" => \A j \in TaskSlot : tk[j].thread = h => t[h].slot <= j

\* What is joinable was not joined and not detached; main has not yet said it of the
\* task that it is about to create.
JoinableAlive(tk, t, p, c) ==
  \A i \in TaskSlot :
    tk[i].joinable \/ (p = "created" /\ c = i) =>
      /\ tk[i].thread \in Thread /\ t[tk[i].thread].pc # "none" /\ t[tk[i].thread].slot = i
      /\ ~(p = "created" /\ c = i) => ~t[tk[i].thread].detached

Tasks(tk, t, p, c) == CreatedOwned(tk, t) /\ ThreadsPlaced(tk, t) /\ JoinableAlive(tk, t, p, c)

\* The descriptor of a thread is the first one that ran it.
LEMMA OwnDescriptor ==
  ASSUME NEW tk, NEW t, ThreadsPlaced(tk, t), NEW h \in Thread, Entered(t, h)
  PROVE  LET own == {i \in TaskSlot : tk[i].running /\ tk[i].thread = h}
         IN  t[h].slot \in own /\ \A j \in own : t[h].slot <= j
BY DEF ThreadsPlaced, Entered, Occupying

\* A thread goes on in its own descriptor, of which only flags change.
Moves(tk, t, tk2, t2, h) ==
  /\ Occupying(t, h) /\ Entered(t2, h)
  /\ \A k \in Thread : /\ k # h => t2[k].pc = t[k].pc
                       /\ t2[k].slot = t[k].slot /\ t2[k].detached = t[k].detached
  /\ \A i \in TaskSlot :
       /\ tk2[i].created = tk[i].created /\ tk2[i].thread = tk[i].thread
       /\ tk2[i].joinable = tk[i].joinable
       /\ tk[i].running => tk2[i].running
  /\ tk2[t[h].slot].running

LEMMA ThreadMoves ==
  ASSUME NEW tk, NEW t, NEW tk2, NEW t2, NEW p, NEW c, Tasks(tk, t, p, c),
         NEW h \in Thread, Moves(tk, t, tk2, t2, h)
  PROVE  Tasks(tk2, t2, p, c)
<1> USE DEF Tasks, Moves
<1>1. /\ \A k \in Thread : Occupying(t2, k) <=> Occupying(t, k)
      /\ \A k \in Thread : k # h => (Entered(t2, k) <=> Entered(t, k))
      /\ \A k \in Thread : t2[k].pc = "none" <=> t[k].pc = "none"
  BY DEF Occupying, Entered
<1>2. CreatedOwned(tk2, t2)
  BY <1>1 DEF CreatedOwned
<1>3. ThreadsPlaced(tk2, t2)
  <2> SUFFICES ASSUME NEW k \in Thread
               PROVE  /\ t2[k].slot \in TaskSlot
                      /\ Occupying(t2, k) => tk2[t2[k].slot].created /\ tk2[t2[k].slot].thread = k
                      /\ Entered(t2, k) => tk2[t2[k].slot].running
                      /\ t2[k].pc # "none" => \A j \in TaskSlot : tk2[j].thread = k => t2[k].slot <= j
    BY DEF ThreadsPlaced
  <2> QED
    BY <1>1 DEF ThreadsPlaced
<1>4. JoinableAlive(tk2, t2, p, c)
  BY <1>1 DEF JoinableAlive
<1> QED
  BY <1>2, <1>3, <1>4

\* Main takes the first descriptor that is free for a thread that is new.
Creates(tk, t, tk2, t2, h, s) ==
  /\ t[h].pc = "none" /\ t2[h].pc = "start" /\ t2[h].slot = s
  /\ ~tk[s].created /\ \A j \in TaskSlot : ~tk[j].created => s <= j
  /\ tk2[s].created /\ tk2[s].thread = h
  /\ \A k \in Thread : k # h => /\ t2[k].pc = t[k].pc /\ t2[k].slot = t[k].slot
                                /\ t2[k].detached = t[k].detached
  /\ \A i \in TaskSlot : i # s => /\ tk2[i].created = tk[i].created
                                  /\ tk2[i].thread = tk[i].thread
                                  /\ tk2[i].joinable = tk[i].joinable
                                  /\ tk2[i].running = tk[i].running

LEMMA ThreadCreated ==
  ASSUME NEW tk, NEW t, NEW tk2, NEW t2, NEW p, NEW c, Tasks(tk, t, p, c), p # "created",
         NEW h \in Thread, NEW s \in TaskSlot, Creates(tk, t, tk2, t2, h, s)
  PROVE  Tasks(tk2, t2, "created", s)
<1> USE DEF Tasks, Creates
<1>1. /\ \A k \in Thread : k # h => /\ Occupying(t2, k) <=> Occupying(t, k)
                                    /\ Entered(t2, k) <=> Entered(t, k)
      /\ Occupying(t2, h) /\ ~Entered(t2, h) /\ ~Occupying(t, h)
  BY DEF Occupying, Entered
<1>2. CreatedOwned(tk2, t2)
  BY <1>1 DEF CreatedOwned
<1>3. ThreadsPlaced(tk2, t2)
  <2> SUFFICES ASSUME NEW k \in Thread
               PROVE  /\ t2[k].slot \in TaskSlot
                      /\ Occupying(t2, k) => tk2[t2[k].slot].created /\ tk2[t2[k].slot].thread = k
                      /\ Entered(t2, k) => tk2[t2[k].slot].running
                      /\ t2[k].pc # "none" => \A j \in TaskSlot : tk2[j].thread = k => t2[k].slot <= j
    BY DEF ThreadsPlaced
  <2>1. CASE k = h
    <3>1. ASSUME NEW j \in TaskSlot, tk2[j].thread = h PROVE s <= j
      <4>1. CASE j = s
        BY <4>1 DEF TaskSlot
      <4>2. CASE j # s
        BY <1>1, <3>1, <4>2 DEF CreatedOwned
      <4> QED
        BY <4>1, <4>2
    <3> QED
      BY <1>1, <2>1, <3>1
  <2>2. CASE k # h
    <3>1. Occupying(t, k) => t[k].slot # s
      BY DEF ThreadsPlaced
    <3> QED
      BY <1>1, <2>2, <3>1 DEF ThreadsPlaced, Entered
  <2> QED
    BY <2>1, <2>2
<1>4. JoinableAlive(tk2, t2, "created", s)
  BY <1>1 DEF JoinableAlive
<1> QED
  BY <1>2, <1>3, <1>4

\* A call of main ends, or it goes on to another one: nothing else changes.
LEMMA MainMoves ==
  ASSUME NEW tk, NEW t, NEW p, NEW c, NEW p2, NEW c2, Tasks(tk, t, p, c),
         p # "created", p2 # "created"
  PROVE  Tasks(tk, t, p2, c2)
BY DEF Tasks, JoinableAlive

\* am_task_create ends: now the task is joinable, unless it is detached.
LEMMA CreationEnds ==
  ASSUME NEW tk, NEW t, NEW tk2, NEW c \in TaskSlot, NEW p, p # "created",
         Tasks(tk, t, "created", c),
         \A i \in TaskSlot : /\ tk2[i].created = tk[i].created /\ tk2[i].thread = tk[i].thread
                             /\ tk2[i].running = tk[i].running
                             /\ i # c => tk2[i].joinable = tk[i].joinable,
         tk2[c].joinable = ~t[tk[c].thread].detached
  PROVE  Tasks(tk2, t, p, c)
<1> USE DEF Tasks
<1>1. CreatedOwned(tk2, t)
  BY DEF CreatedOwned
<1>2. ThreadsPlaced(tk2, t)
  BY DEF ThreadsPlaced
<1>3. JoinableAlive(tk2, t, p, c)
  <2> SUFFICES ASSUME NEW i \in TaskSlot, tk2[i].joinable
               PROVE  /\ tk2[i].thread \in Thread /\ t[tk2[i].thread].pc # "none"
                      /\ t[tk2[i].thread].slot = i /\ ~t[tk2[i].thread].detached
    BY DEF JoinableAlive
  <2>1. CASE i = c
    BY <2>1 DEF JoinableAlive
  <2>2. CASE i # c
    BY <2>2 DEF JoinableAlive
  <2> QED
    BY <2>1, <2>2
<1> QED
  BY <1>1, <1>2, <1>3

\* A thread ends: its descriptor is free.
Ends(tk, t, tk2, t2, h) ==
  /\ Occupying(t, h) /\ t2[h].pc = "ended" /\ ~tk2[t[h].slot].created
  /\ \A k \in Thread : /\ k # h => t2[k].pc = t[k].pc
                       /\ t2[k].slot = t[k].slot /\ t2[k].detached = t[k].detached
  /\ \A i \in TaskSlot : /\ tk2[i].thread = tk[i].thread /\ tk2[i].joinable = tk[i].joinable
                         /\ tk2[i].running = tk[i].running
                         /\ i # t[h].slot => tk2[i].created = tk[i].created

LEMMA ThreadEnds ==
  ASSUME NEW tk, NEW t, NEW tk2, NEW t2, NEW p, NEW c, Tasks(tk, t, p, c),
         NEW h \in Thread, Ends(tk, t, tk2, t2, h)
  PROVE  Tasks(tk2, t2, p, c)
<1> USE DEF Tasks, Ends
<1>1. /\ \A k \in Thread : k # h => /\ Occupying(t2, k) <=> Occupying(t, k)
                                    /\ Entered(t2, k) <=> Entered(t, k)
      /\ ~Occupying(t2, h) /\ ~Entered(t2, h)
      /\ \A k \in Thread : t2[k].pc = "none" <=> t[k].pc = "none"
  BY DEF Occupying, Entered
<1>2. CreatedOwned(tk2, t2)
  BY <1>1 DEF CreatedOwned
<1>3. ThreadsPlaced(tk2, t2)
  <2> SUFFICES ASSUME NEW k \in Thread
               PROVE  /\ t2[k].slot \in TaskSlot
                      /\ Occupying(t2, k) => tk2[t2[k].slot].created /\ tk2[t2[k].slot].thread = k
                      /\ Entered(t2, k) => tk2[t2[k].slot].running
                      /\ t2[k].pc # "none" => \A j \in TaskSlot : tk2[j].thread = k => t2[k].slot <= j
    BY DEF ThreadsPlaced
  <2>1. CASE k = h
    BY <1>1, <2>1 DEF ThreadsPlaced
  <2>2. CASE k # h
    <3>1. Occupying(t, k) => t[k].slot # t[h].slot
      BY <2>2 DEF ThreadsPlaced
    <3> QED
      BY <1>1, <2>2, <3>1 DEF ThreadsPlaced
  <2> QED
    BY <2>1, <2>2
<1>4. JoinableAlive(tk2, t2, p, c)
  BY <1>1 DEF JoinableAlive
<1> QED
  BY <1>2, <1>3, <1>4

\* The system takes the identifier of a thread back that ended, and nothing that can
\* be joined has it.
Goes(tk, t, tk2, t2, p, c, h) ==
  /\ t[h].pc = "ended" /\ t2[h].pc = "none" /\ t2[h].slot \in TaskSlot
  /\ \A k \in Thread : k # h => /\ t2[k].pc = t[k].pc /\ t2[k].slot = t[k].slot
                                /\ t2[k].detached = t[k].detached
  /\ \A i \in TaskSlot : /\ tk2[i].created = tk[i].created /\ tk2[i].thread = tk[i].thread
                         /\ tk2[i].running = tk[i].running
                         /\ tk2[i].joinable => tk[i].joinable
                         /\ tk2[i].joinable => tk[i].thread # h \/ (p = "created" /\ c = i)
  /\ p = "created" => tk[c].thread # h

LEMMA ThreadGone ==
  ASSUME NEW tk, NEW t, NEW tk2, NEW t2, NEW p, NEW c, Tasks(tk, t, p, c),
         NEW h \in Thread, Goes(tk, t, tk2, t2, p, c, h)
  PROVE  Tasks(tk2, t2, p, c)
<1> USE DEF Tasks, Goes
<1>1. /\ \A k \in Thread : k # h => /\ Occupying(t2, k) <=> Occupying(t, k)
                                    /\ Entered(t2, k) <=> Entered(t, k)
      /\ ~Occupying(t2, h) /\ ~Entered(t2, h) /\ ~Occupying(t, h)
  BY DEF Occupying, Entered
<1>2. CreatedOwned(tk2, t2)
  BY <1>1 DEF CreatedOwned
<1>3. ThreadsPlaced(tk2, t2)
  <2> SUFFICES ASSUME NEW k \in Thread
               PROVE  /\ t2[k].slot \in TaskSlot
                      /\ Occupying(t2, k) => tk2[t2[k].slot].created /\ tk2[t2[k].slot].thread = k
                      /\ Entered(t2, k) => tk2[t2[k].slot].running
                      /\ t2[k].pc # "none" => \A j \in TaskSlot : tk2[j].thread = k => t2[k].slot <= j
    BY DEF ThreadsPlaced
  <2>1. CASE k = h
    BY <1>1, <2>1
  <2>2. CASE k # h
    BY <1>1, <2>2 DEF ThreadsPlaced
  <2> QED
    BY <2>1, <2>2
<1>4. JoinableAlive(tk2, t2, p, c)
  BY <1>1 DEF JoinableAlive
<1> QED
  BY <1>2, <1>3, <1>4

\* The table of descriptors.  A flag of one of them changes, and nothing else does.
TaskRecords ==
  [created : BOOLEAN, running : BOOLEAN, joinable : BOOLEAN, waitInit : BOOLEAN,
   initComplete : BOOLEAN, thread : Thread \cup {0}]

LEMMA FreeHandle == A!NoHandle = 0 /\ U!NoHandle = 0
BY DEF A!NoHandle, U!NoHandle

FlagSet(tk, new, s, f, b) ==
  /\ new \in [TaskSlot -> TaskRecords]
  /\ \A i \in TaskSlot :
       /\ new[i].thread = tk[i].thread
       /\ new[i].created = IF f = "created" /\ i = s THEN b ELSE tk[i].created
       /\ new[i].running = IF f = "running" /\ i = s THEN b ELSE tk[i].running
       /\ new[i].joinable = IF f = "joinable" /\ i = s THEN b ELSE tk[i].joinable

LEMMA SetsCreated ==
  ASSUME NEW tk \in [TaskSlot -> TaskRecords], NEW s \in TaskSlot, NEW b \in BOOLEAN
  PROVE  FlagSet(tk, [tk EXCEPT ![s].created = b], s, "created", b)
<1> DEFINE flag == [tk[s] EXCEPT !.created = b]
           new == [tk EXCEPT ![s].created = b]
<1>1. /\ tk[s] \in TaskRecords /\ flag \in TaskRecords
      /\ flag.thread = tk[s].thread
      /\ flag.created = b
      /\ flag.running = tk[s].running
      /\ flag.joinable = tk[s].joinable
  BY DEF TaskRecords
<1>2. new = [tk EXCEPT ![s] = flag]
  OBVIOUS
<1> HIDE DEF flag
<1>3. new \in [TaskSlot -> TaskRecords] /\ \A i \in TaskSlot : new[i] = IF i = s THEN flag ELSE tk[i]
  BY <1>1, <1>2
<1> HIDE DEF new
<1>4. FlagSet(tk, new, s, "created", b)
  BY <1>1, <1>3 DEF FlagSet
<1> QED
  BY <1>4 DEF new

LEMMA SetsRunning ==
  ASSUME NEW tk \in [TaskSlot -> TaskRecords], NEW s \in TaskSlot, NEW b \in BOOLEAN
  PROVE  FlagSet(tk, [tk EXCEPT ![s].running = b], s, "running", b)
<1> DEFINE flag == [tk[s] EXCEPT !.running = b]
           new == [tk EXCEPT ![s].running = b]
<1>1. /\ tk[s] \in TaskRecords /\ flag \in TaskRecords
      /\ flag.thread = tk[s].thread
      /\ flag.created = tk[s].created
      /\ flag.running = b
      /\ flag.joinable = tk[s].joinable
  BY DEF TaskRecords
<1>2. new = [tk EXCEPT ![s] = flag]
  OBVIOUS
<1> HIDE DEF flag
<1>3. new \in [TaskSlot -> TaskRecords] /\ \A i \in TaskSlot : new[i] = IF i = s THEN flag ELSE tk[i]
  BY <1>1, <1>2
<1> HIDE DEF new
<1>4. FlagSet(tk, new, s, "running", b)
  BY <1>1, <1>3 DEF FlagSet
<1> QED
  BY <1>4 DEF new

LEMMA SetsJoinable ==
  ASSUME NEW tk \in [TaskSlot -> TaskRecords], NEW s \in TaskSlot, NEW b \in BOOLEAN
  PROVE  FlagSet(tk, [tk EXCEPT ![s].joinable = b], s, "joinable", b)
<1> DEFINE flag == [tk[s] EXCEPT !.joinable = b]
           new == [tk EXCEPT ![s].joinable = b]
<1>1. /\ tk[s] \in TaskRecords /\ flag \in TaskRecords
      /\ flag.thread = tk[s].thread
      /\ flag.created = tk[s].created
      /\ flag.running = tk[s].running
      /\ flag.joinable = b
  BY DEF TaskRecords
<1>2. new = [tk EXCEPT ![s] = flag]
  OBVIOUS
<1> HIDE DEF flag
<1>3. new \in [TaskSlot -> TaskRecords] /\ \A i \in TaskSlot : new[i] = IF i = s THEN flag ELSE tk[i]
  BY <1>1, <1>2
<1> HIDE DEF new
<1>4. FlagSet(tk, new, s, "joinable", b)
  BY <1>1, <1>3 DEF FlagSet
<1> QED
  BY <1>4 DEF new

LEMMA SetsInitComplete ==
  ASSUME NEW tk \in [TaskSlot -> TaskRecords], NEW s \in TaskSlot, NEW b \in BOOLEAN
  PROVE  FlagSet(tk, [tk EXCEPT ![s].initComplete = b], s, "initComplete", b)
<1> DEFINE flag == [tk[s] EXCEPT !.initComplete = b]
           new == [tk EXCEPT ![s].initComplete = b]
<1>1. /\ tk[s] \in TaskRecords /\ flag \in TaskRecords
      /\ flag.thread = tk[s].thread
      /\ flag.created = tk[s].created
      /\ flag.running = tk[s].running
      /\ flag.joinable = tk[s].joinable
  BY DEF TaskRecords
<1>2. new = [tk EXCEPT ![s] = flag]
  OBVIOUS
<1> HIDE DEF flag
<1>3. new \in [TaskSlot -> TaskRecords] /\ \A i \in TaskSlot : new[i] = IF i = s THEN flag ELSE tk[i]
  BY <1>1, <1>2
<1> HIDE DEF new
<1>4. FlagSet(tk, new, s, "initComplete", b)
  BY <1>1, <1>3 DEF FlagSet
<1> QED
  BY <1>4 DEF new

-----------------------------------------------------------------------------
(* The least element of a set of numbers, which FirstFree and OwnId take.  *)

Less == {p \in Nat \X Nat : p[1] < p[2]}

LEMMA LessWellFounded == IsWellFoundedOn(Less, Nat)
BY NatLessThanWellFounded, Zenon DEF OpToRel, Less

\* Every set of numbers that is not empty has a least element.
LEMMA LeastNumber ==
  ASSUME NEW N, N \subseteq Nat, N # {}
  PROVE  \E x \in N : \A y \in N : x <= y
<1>1. PICK x \in N : \A y \in N : ~ (<<y, x>> \in Less)
  BY LessWellFounded, WFMin
<1>2. ASSUME NEW y \in N PROVE x <= y
  <2>1. ~ (<<y, x>> \in Less) /\ x \in Nat /\ y \in Nat
    BY <1>1
  <2> QED
    BY <2>1 DEF Less
<1> QED
  BY <1>2

\* What Min takes from a set of numbers is the least of them.
LEMMA MinLeast ==
  ASSUME NEW N, N \subseteq Nat, N # {}
  PROVE  /\ A!Min(N) \in N /\ \A y \in N : A!Min(N) <= y
         /\ U!Min(N) \in N /\ \A y \in N : U!Min(N) <= y
BY LeastNumber DEF A!Min, U!Min

LEMMA MinIs ==
  ASSUME NEW N, N \subseteq Nat, NEW s \in N, \A y \in N : s <= y
  PROVE  A!Min(N) = s /\ U!Min(N) = s
<1>1. /\ A!Min(N) \in N /\ A!Min(N) <= s /\ s <= A!Min(N)
      /\ U!Min(N) \in N /\ U!Min(N) <= s /\ s <= U!Min(N)
  BY MinLeast
<1>2. ASSUME NEW x \in N, x <= s, s <= x PROVE x = s
  <2>1. x \in Nat /\ s \in Nat
    OBVIOUS
  <2> QED
    BY <1>2, <2>1
<1> QED
  BY <1>1, <1>2

-----------------------------------------------------------------------------
(* The POSIX layer.                                                        *)

ThreadRecords ==
  [pc : {"none", "start", "gate", "tell", "lock", "body", "wait", "end", "ended"},
   slot : TaskSlot, wait : BOOLEAN, detached : BOOLEAN, tick : BOOLEAN]

PosixTyped ==
  /\ task \in [TaskSlot -> TaskRecords] /\ th \in [Thread -> ThreadRecords]
  /\ tCur \in TaskSlot /\ ticker.slot \in TaskSlot

PosixInv == PosixTyped /\ Tasks(task, th, tPc, tCur)

LEMMA PosixSlots == A!Slot = TaskSlot /\ A!Handle = Thread
BY DEF A!Slot, A!Handle, TaskSlot, Thread

LEMMA PosixInit == A!Init => PosixInv
<1> SUFFICES ASSUME A!Init PROVE PosixInv
  OBVIOUS
<1>1. /\ \A i \in TaskSlot : task[i] = [created |-> FALSE, running |-> FALSE, joinable |-> FALSE,
                                       waitInit |-> FALSE, initComplete |-> FALSE,
                                       thread |-> A!NoHandle]
      /\ task = [i \in TaskSlot |-> task[i]]
  BY PosixSlots DEF A!Init
<1>2. /\ \A h \in Thread : th[h] = A!NoThread
      /\ th = [h \in Thread |-> th[h]] /\ tPc = "run" /\ tCur = 1 /\ ticker.slot = 1
  BY PosixSlots DEF A!Init
<1>3. 1 \in TaskSlot
  BY LibraryAssumption DEF TaskSlot
<1>4. A!NoThread \in ThreadRecords /\ A!NoThread.pc = "none" /\ A!NoThread.slot = 1
  BY <1>3 DEF A!NoThread, ThreadRecords
<1>5. \A i \in TaskSlot : task[i] \in TaskRecords
  <2>1. [created |-> FALSE, running |-> FALSE, joinable |-> FALSE, waitInit |-> FALSE,
         initComplete |-> FALSE, thread |-> 0] \in TaskRecords
    BY DEF TaskRecords
  <2> QED
    BY <1>1, <2>1, FreeHandle
<1>6. PosixTyped
  BY <1>1, <1>2, <1>3, <1>4, <1>5 DEF PosixTyped
<1>7. Tasks(task, th, tPc, tCur)
  BY <1>1, <1>2, <1>3, <1>4 DEF Tasks, CreatedOwned, JoinableAlive, ThreadsPlaced, Occupying, Entered
<1> QED
  BY <1>6, <1>7 DEF PosixInv

\* A thread that entered finds its own descriptor.
LEMMA PosixOwnId ==
  ASSUME PosixInv, NEW h \in Thread, Entered(th, h)
  PROVE  A!OwnIds(h) # {} /\ A!OwnId(h) = th[h].slot
<1>1. A!OwnIds(h) = {i \in TaskSlot : task[i].running /\ task[i].thread = h}
  BY PosixSlots DEF A!OwnIds
<1>2. /\ th[h].slot \in A!OwnIds(h) /\ A!OwnIds(h) \subseteq TaskSlot
      /\ \A j \in A!OwnIds(h) : th[h].slot <= j
  BY <1>1, OwnDescriptor DEF PosixInv, Tasks
<1>3. A!OwnIds(h) \subseteq Nat
  BY <1>2 DEF TaskSlot
<1> QED
  BY <1>2, <1>3, MinIs DEF A!OwnId

\* What becomes of a thread that only goes on to q.
LEMMA PosixBecomes ==
  ASSUME PosixInv, NEW h \in Thread, NEW q, A!Becomes(h, q),
         q \in {"gate", "tell", "lock", "body", "wait", "end", "ended"}
  PROVE  /\ th' \in [Thread -> ThreadRecords]
         /\ \A k \in Thread : /\ th'[k].pc = IF k = h THEN q ELSE th[k].pc
                              /\ th'[k].slot = th[k].slot /\ th'[k].detached = th[k].detached
<1>1. th \in [Thread -> ThreadRecords] /\ th[h] \in ThreadRecords
  BY DEF PosixInv, PosixTyped
<1>2. [th[h] EXCEPT !.pc = q] \in ThreadRecords
  BY <1>1 DEF ThreadRecords
<1>3. \A k \in Thread : th'[k] = IF k = h THEN [th[h] EXCEPT !.pc = q] ELSE th[k]
  BY <1>1 DEF A!Becomes
<1>4. th' \in [Thread -> ThreadRecords]
  BY <1>1, <1>2 DEF A!Becomes
<1>5. /\ [th[h] EXCEPT !.pc = q].slot = th[h].slot
      /\ [th[h] EXCEPT !.pc = q].detached = th[h].detached
      /\ [th[h] EXCEPT !.pc = q].pc = q
  BY <1>1 DEF ThreadRecords
<1> QED
  BY <1>3, <1>4, <1>5

LEMMA PosixCreate ==
  ASSUME PosixInv, NEW h \in Thread, NEW wait \in BOOLEAN, NEW detach \in BOOLEAN,
         NEW tick \in BOOLEAN, A!CreateThread(h, wait, detach, tick)
  PROVE  PosixInv'
<1>1. /\ task \in [TaskSlot -> TaskRecords] /\ th \in [Thread -> ThreadRecords]
      /\ tPc = "run" /\ th[h].pc = "none"
  BY DEF PosixInv, PosixTyped, A!CreateThread, A!IsNext
<1> DEFINE s == A!FirstFree
<1>2. s \in TaskSlot /\ ~task[s].created /\ \A j \in TaskSlot : ~task[j].created => s <= j
  <2>1. A!FreeSlots # {} /\ A!FreeSlots = {i \in TaskSlot : ~task[i].created}
    BY PosixSlots DEF A!CreateThread, A!FreeSlots
  <2>2. A!FreeSlots \subseteq Nat
    BY <2>1 DEF TaskSlot
  <2> QED
    BY <2>1, <2>2, MinLeast DEF A!FirstFree
<1>3. /\ task' = [task EXCEPT ![s] = [@ EXCEPT !.created = TRUE, !.waitInit = wait, !.thread = h]]
      /\ th' = [th EXCEPT ![h] = [pc |-> "start", slot |-> s, wait |-> wait,
                                  detached |-> detach, tick |-> tick]]
      /\ ticker'.slot \in {ticker.slot, s} /\ tCur' = s /\ tPc' = "created"
  BY DEF A!CreateThread
<1> HIDE DEF s
<1>4. task[s] \in TaskRecords
  BY <1>1, <1>2
<1> DEFINE new == [task[s] EXCEPT !.created = TRUE, !.waitInit = wait, !.thread = h]
<1>5. new \in TaskRecords /\ new.created = TRUE /\ new.thread = h
  BY <1>4 DEF TaskRecords
<1>6. task' = [task EXCEPT ![s] = new]
  BY <1>1, <1>2, <1>3
<1>7. /\ task' \in [TaskSlot -> TaskRecords] /\ task'[s] = new
      /\ \A i \in TaskSlot : i # s => task'[i] = task[i]
  <2> HIDE DEF new
  <2> QED
    BY <1>1, <1>2, <1>5, <1>6
<1> DEFINE run == [pc |-> "start", slot |-> s, wait |-> wait, detached |-> detach, tick |-> tick]
<1>8. run \in ThreadRecords /\ run.pc = "start" /\ run.slot = s
  BY <1>2 DEF ThreadRecords
<1>9. /\ th' \in [Thread -> ThreadRecords] /\ th'[h] = run
      /\ \A k \in Thread : k # h => th'[k] = th[k]
  <2>1. th' = [th EXCEPT ![h] = run]
    BY <1>3
  <2> HIDE DEF run
  <2> QED
    BY <1>1, <1>8, <2>1
<1>10. PosixTyped'
  BY <1>2, <1>3, <1>7, <1>9 DEF PosixInv, PosixTyped
<1>11. Tasks(task', th', "created", s)
  <2>1. task'[s].created /\ task'[s].thread = h /\ th'[h].pc = "start" /\ th'[h].slot = s
    BY <1>5, <1>7, <1>8, <1>9
  <2> HIDE DEF new, run
  <2>2. Tasks(task, th, tPc, tCur) /\ tPc # "created"
    BY <1>1 DEF PosixInv
  <2>3. \A k \in Thread : k # h => /\ th'[k].pc = th[k].pc /\ th'[k].slot = th[k].slot
                                   /\ th'[k].detached = th[k].detached
    BY <1>9
  <2>4. \A i \in TaskSlot : i # s => /\ task'[i].created = task[i].created
                                     /\ task'[i].thread = task[i].thread
                                     /\ task'[i].joinable = task[i].joinable
                                     /\ task'[i].running = task[i].running
    BY <1>7
  <2>5. Creates(task, th, task', th', h, s)
    BY <1>1, <1>2, <2>1, <2>3, <2>4 DEF Creates
  <2> QED
    BY <1>2, <2>2, <2>5, ThreadCreated
<1> QED
  BY <1>3, <1>10, <1>11 DEF PosixInv

LEMMA PosixMain ==
  ASSUME PosixInv,
         A!CreateDone \/ A!GateScan \/ A!GateEnter \/ A!GateWait \/ A!TickerStop \/ A!Deinit
  PROVE  PosixInv'
<1> USE DEF PosixInv
<1>1. CASE A!CreateDone
  <2> DEFINE b == ~th[task[tCur].thread].detached
  <2>1. /\ tPc = "created" /\ tPc' = "run" /\ task' = [task EXCEPT ![tCur].joinable = b]
        /\ UNCHANGED <<th, tCur, ticker>> /\ b \in BOOLEAN /\ tCur \in TaskSlot
    BY <1>1 DEF A!CreateDone, PosixTyped
  <2>2. /\ task' \in [TaskSlot -> TaskRecords] /\ task'[tCur].joinable = b
        /\ \A i \in TaskSlot :
             /\ task'[i].created = task[i].created /\ task'[i].thread = task[i].thread
             /\ task'[i].running = task[i].running
             /\ i # tCur => task'[i].joinable = task[i].joinable
    <3>1. task \in [TaskSlot -> TaskRecords]
      BY DEF PosixTyped
    <3> HIDE DEF b
    <3>2. FlagSet(task, task', tCur, "joinable", b)
      BY <2>1, <3>1, SetsJoinable
    <3> QED
      BY <2>1, <3>2 DEF FlagSet
  <2>3. PosixTyped'
    BY <2>1, <2>2 DEF PosixTyped
  <2>4. Tasks(task', th, "run", tCur)
    BY <2>1, <2>2, CreationEnds
  <2> QED
    BY <2>1, <2>3, <2>4
<1>2. CASE A!GateScan \/ A!GateEnter \/ A!GateWait \/ A!TickerStop \/ A!Deinit
  <2>1. /\ UNCHANGED <<task, th>> /\ tPc # "created" /\ tPc' # "created"
        /\ tCur' \in {tCur, 1} /\ ticker'.slot = ticker.slot
    <3>1. CASE A!TickerStop
      BY <3>1 DEF A!TickerStop
    <3> QED
      BY <1>2, <3>1 DEF A!GateScan, A!GateEnter, A!GateWait, A!Deinit
  <2>2. PosixTyped'
    BY <2>1, LibraryAssumption DEF PosixTyped, TaskSlot
  <2>3. Tasks(task, th, tPc', tCur')
    BY <2>1, MainMoves
  <2> QED
    BY <2>1, <2>2, <2>3
<1> QED
  BY <1>1, <1>2

\* Main joins what is joinable: no other descriptor has the thread that is gone.
LEMMA PosixJoin ==
  ASSUME PosixInv, A!TickerJoin \/ A!DeinitJoin
  PROVE  PosixInv'
<1> USE DEF PosixInv
<1>1. /\ tPc # "created" /\ tPc' # "created" /\ tCur' \in TaskSlot /\ ticker' = ticker
      /\ tCur \in TaskSlot /\ ticker.slot \in TaskSlot
      /\ task \in [TaskSlot -> TaskRecords] /\ th \in [Thread -> ThreadRecords]
  <2>1. CASE A!TickerJoin
    BY <2>1 DEF A!TickerJoin, PosixTyped
  <2>2. CASE A!DeinitJoin
    BY <2>2, LibraryAssumption DEF A!DeinitJoin, PosixTyped, TaskSlot
  <2> QED
    BY <2>1, <2>2
<1>2. UNCHANGED <<task, th>> \/ \E i \in TaskSlot : task[i].joinable /\ A!Join(i)
  BY <1>1 DEF A!TickerJoin, A!DeinitJoin
<1>3. CASE UNCHANGED <<task, th>>
  <2>1. PosixTyped'
    BY <1>1, <1>3 DEF PosixTyped
  <2>2. Tasks(task, th, tPc', tCur')
    BY <1>1, MainMoves
  <2> QED
    BY <1>3, <2>1, <2>2
<1>4. ASSUME NEW i \in TaskSlot, task[i].joinable, A!Join(i) PROVE PosixInv'
  <2> DEFINE h == task[i].thread
  <2>1. /\ h \in Thread /\ th[h].pc = "ended"
        /\ \A j \in TaskSlot : j # i /\ task[j].joinable => task[j].thread # h
    BY <1>1, <1>4 DEF A!Join, Tasks, JoinableAlive
  <2>2. /\ task' = [task EXCEPT ![i].joinable = FALSE] /\ th' = [th EXCEPT ![h] = A!NoThread]
    BY <1>4 DEF A!Join
  <2> HIDE DEF h
  <2>3. /\ task' \in [TaskSlot -> TaskRecords] /\ task'[i].joinable = FALSE
        /\ \A j \in TaskSlot :
             /\ task'[j].created = task[j].created /\ task'[j].thread = task[j].thread
             /\ task'[j].running = task[j].running
             /\ j # i => task'[j].joinable = task[j].joinable
    <3>1. FlagSet(task, task', i, "joinable", FALSE)
      BY <1>1, <2>2, SetsJoinable
    <3> QED
      BY <3>1 DEF FlagSet
  <2>4. A!NoThread \in ThreadRecords /\ A!NoThread.pc = "none" /\ A!NoThread.slot \in TaskSlot
    BY LibraryAssumption DEF A!NoThread, ThreadRecords, TaskSlot
  <2>5. /\ th' \in [Thread -> ThreadRecords] /\ th'[h] = A!NoThread
        /\ \A k \in Thread : k # h => th'[k] = th[k]
    BY <1>1, <2>1, <2>2, <2>4
  <2>6. PosixTyped'
    BY <1>1, <2>3, <2>5 DEF PosixTyped
  <2>7. Tasks(task, th, tPc', tCur')
    BY <1>1, MainMoves
  <2>8. Goes(task, th, task', th', tPc', tCur', h)
    BY <1>1, <2>1, <2>3, <2>4, <2>5 DEF Goes
  <2> QED
    BY <2>1, <2>6, <2>7, <2>8, ThreadGone
<1> QED
  BY <1>2, <1>3, <1>4

\* What a thread does in its own descriptor.
LEMMA PosixRuns ==
  ASSUME PosixInv, NEW h \in Thread,
         A!Start(h) \/ A!InitComplete(h) \/ A!InitTell(h) \/ A!InitPass(h) \/ A!TaskWait(h)
           \/ A!TaskWake(h) \/ A!TaskReturn(h)
  PROVE  PosixInv'
<1>1. /\ task \in [TaskSlot -> TaskRecords] /\ th \in [Thread -> ThreadRecords]
      /\ th[h].slot \in TaskSlot /\ Tasks(task, th, tPc, tCur)
  <2>1. th[h] \in ThreadRecords
    BY DEF PosixInv, PosixTyped
  <2> QED
    BY <2>1 DEF PosixInv, PosixTyped, ThreadRecords
<1>2. UNCHANGED <<tPc, tCur, ticker>>
  BY DEF A!Start, A!InitComplete, A!InitTell, A!InitPass, A!TaskWait, A!TaskWake, A!TaskReturn
<1>3. /\ Occupying(th, h)
      /\ \E q \in {"gate", "tell", "lock", "body", "wait", "end"} : A!Becomes(h, q)
  BY DEF A!Start, A!InitComplete, A!InitTell, A!InitPass, A!TaskWait, A!TaskWake, A!TaskReturn,
         Occupying
<1>4. PICK q \in {"gate", "tell", "lock", "body", "wait", "end"} : A!Becomes(h, q)
  BY <1>3
<1>5. /\ th' \in [Thread -> ThreadRecords]
      /\ \A k \in Thread : /\ th'[k].pc = IF k = h THEN q ELSE th[k].pc
                           /\ th'[k].slot = th[k].slot /\ th'[k].detached = th[k].detached
  BY <1>4, PosixBecomes
<1>6. /\ task' \in [TaskSlot -> TaskRecords]
      /\ \A i \in TaskSlot :
           /\ task'[i].created = task[i].created /\ task'[i].thread = task[i].thread
           /\ task'[i].joinable = task[i].joinable
           /\ task[i].running => task'[i].running
      /\ task'[th[h].slot].running
  <2>1. CASE A!Start(h)
    <3>1. task' = [task EXCEPT ![th[h].slot].running = TRUE]
      BY <2>1 DEF A!Start
    <3>2. FlagSet(task, task', th[h].slot, "running", TRUE)
      BY <1>1, <3>1, SetsRunning
    <3> QED
      BY <1>1, <3>2 DEF FlagSet
  <2>2. CASE A!InitComplete(h)
    <3>1. Entered(th, h)
      BY <2>2 DEF A!InitComplete, Entered, Occupying
    <3>2. task' = [task EXCEPT ![th[h].slot].initComplete = TRUE]
      BY <2>2, <3>1, PosixOwnId DEF A!InitComplete
    <3>3. task[th[h].slot].running
      BY <1>1, <3>1 DEF Tasks, ThreadsPlaced
    <3>4. FlagSet(task, task', th[h].slot, "initComplete", TRUE)
      BY <1>1, <3>2, SetsInitComplete
    <3> QED
      BY <1>1, <3>3, <3>4 DEF FlagSet
  <2>3. CASE A!InitTell(h) \/ A!InitPass(h) \/ A!TaskWait(h) \/ A!TaskWake(h) \/ A!TaskReturn(h)
    <3>1. Entered(th, h) /\ task' = task
      BY <2>3 DEF A!InitTell, A!InitPass, A!TaskWait, A!TaskWake, A!TaskReturn, Entered, Occupying
    <3> QED
      BY <1>1, <3>1 DEF Tasks, ThreadsPlaced
  <2> QED
    BY <2>1, <2>2, <2>3
<1>7. PosixTyped'
  BY <1>2, <1>5, <1>6 DEF PosixInv, PosixTyped
<1>8. Moves(task, th, task', th', h)
  BY <1>1, <1>3, <1>4, <1>5, <1>6 DEF Moves, Entered, Occupying
<1>9. Tasks(task', th', tPc, tCur)
  BY <1>1, <1>8, ThreadMoves
<1> QED
  BY <1>2, <1>7, <1>9 DEF PosixInv

LEMMA PosixEnds ==
  ASSUME PosixInv, NEW h \in Thread, A!TaskEnd(h) \/ A!Detached(h)
  PROVE  PosixInv'
<1> USE DEF PosixInv
<1>1. /\ task \in [TaskSlot -> TaskRecords] /\ th \in [Thread -> ThreadRecords]
      /\ th[h].slot \in TaskSlot
  <2>1. th[h] \in ThreadRecords
    BY DEF PosixTyped
  <2> QED
    BY <2>1 DEF PosixTyped, ThreadRecords
<1>2. CASE A!TaskEnd(h)
  <2>1. /\ th[h].pc = "end" /\ A!Becomes(h, "ended") /\ UNCHANGED <<tPc, tCur, ticker>>
        /\ task' = [task EXCEPT ![th[h].slot].created = FALSE]
    BY <1>2 DEF A!TaskEnd
  <2>2. /\ th' \in [Thread -> ThreadRecords]
        /\ \A k \in Thread : /\ th'[k].pc = IF k = h THEN "ended" ELSE th[k].pc
                             /\ th'[k].slot = th[k].slot /\ th'[k].detached = th[k].detached
    BY <2>1, PosixBecomes
  <2>3. /\ task' \in [TaskSlot -> TaskRecords] /\ task'[th[h].slot].created = FALSE
        /\ \A i \in TaskSlot :
             /\ task'[i].thread = task[i].thread /\ task'[i].joinable = task[i].joinable
             /\ task'[i].running = task[i].running
             /\ i # th[h].slot => task'[i].created = task[i].created
    <3>1. FlagSet(task, task', th[h].slot, "created", FALSE)
      BY <1>1, <2>1, SetsCreated
    <3> QED
      BY <1>1, <3>1 DEF FlagSet
  <2>4. PosixTyped'
    BY <2>1, <2>2, <2>3 DEF PosixTyped
  <2>5. Ends(task, th, task', th', h)
    BY <1>1, <2>1, <2>2, <2>3 DEF Ends, Occupying
  <2>6. Tasks(task', th', tPc, tCur)
    BY <2>5, ThreadEnds
  <2> QED
    BY <2>1, <2>4, <2>6
<1>3. CASE A!Detached(h)
  <2>1. /\ th[h].pc = "ended" /\ th[h].detached /\ (tPc = "created" => task[tCur].thread # h)
        /\ th' = [th EXCEPT ![h] = A!NoThread] /\ UNCHANGED <<task, tPc, tCur, ticker>>
    BY <1>3 DEF A!Detached
  <2>2. A!NoThread \in ThreadRecords /\ A!NoThread.pc = "none" /\ A!NoThread.slot \in TaskSlot
    BY LibraryAssumption DEF A!NoThread, ThreadRecords, TaskSlot
  <2>3. /\ th' \in [Thread -> ThreadRecords] /\ th'[h] = A!NoThread
        /\ \A k \in Thread : k # h => th'[k] = th[k]
    BY <1>1, <2>1, <2>2
  <2>4. PosixTyped'
    BY <2>1, <2>3 DEF PosixTyped
  <2>5. \A i \in TaskSlot : task[i].joinable => task[i].thread # h \/ (tPc = "created" /\ tCur = i)
    BY <2>1 DEF Tasks, JoinableAlive
  <2>6. /\ th'[h].pc = "none" /\ th'[h].slot \in TaskSlot
        /\ \A k \in Thread : k # h => /\ th'[k].pc = th[k].pc /\ th'[k].slot = th[k].slot
                                      /\ th'[k].detached = th[k].detached
    BY <2>2, <2>3
  <2>7. Goes(task, th, task, th', tPc, tCur, h)
    BY <2>1, <2>5, <2>6 DEF Goes
  <2>8. Tasks(task, th', tPc, tCur)
    BY <2>7, ThreadGone
  <2> QED
    BY <2>1, <2>4, <2>8
<1> QED
  BY <1>2, <1>3

LEMMA PosixNext == PosixInv /\ (A!Next \/ UNCHANGED palVars) => PosixInv'
<1> SUFFICES ASSUME PosixInv, A!Next \/ UNCHANGED palVars PROVE PosixInv'
  OBVIOUS
<1>1. CASE UNCHANGED palVars
  BY <1>1 DEF palVars, PosixInv, PosixTyped, Tasks, CreatedOwned, ThreadsPlaced, JoinableAlive,
              Occupying, Entered
<1>2. ASSUME NEW h \in Thread, NEW wait \in BOOLEAN, NEW detach \in BOOLEAN, NEW tick \in BOOLEAN,
             A!CreateThread(h, wait, detach, tick)
      PROVE  PosixInv'
  BY <1>2, PosixCreate
<1>3. ASSUME NEW h \in Thread, NEW t, A!TaskNotify(h, t) PROVE PosixInv'
  <2>1. UNCHANGED <<task, th, tPc, tCur, ticker>>
    BY <1>3 DEF A!TaskNotify
  <2> QED
    BY <2>1 DEF PosixInv, PosixTyped, Tasks, CreatedOwned, ThreadsPlaced, JoinableAlive,
                Occupying, Entered
<1>4. CASE A!Stopped /\ UNCHANGED A!vars
  <2>1. UNCHANGED palVars
    BY <1>4 DEF A!vars, palVars
  <2> QED
    BY <2>1 DEF palVars, PosixInv, PosixTyped, Tasks, CreatedOwned, ThreadsPlaced, JoinableAlive,
                Occupying, Entered
<1>5. CASE A!MainStep
  BY <1>2, <1>5, PosixSlots, PosixMain, PosixJoin DEF A!MainStep
<1>6. ASSUME NEW h \in Thread, A!Runs(h) \/ A!TaskWait(h) PROVE PosixInv'
  BY <1>6, PosixRuns, PosixEnds DEF A!Runs
<1> QED
  BY <1>1, <1>3, <1>4, <1>5, <1>6, PosixSlots DEF A!Next

-----------------------------------------------------------------------------
(* The libuv layer.  Its table of descriptors is that of the POSIX layer.  *)

UvThreadRecords ==
  [pc : {"none", "start", "gate", "tell", "lock", "body", "wait", "end", "free", "ended"},
   slot : TaskSlot, wait : BOOLEAN, detached : BOOLEAN, tick : BOOLEAN, owed : Int]

SemRecords == [alive : BOOLEAN, count : Int]

UvTyped ==
  /\ uTask \in [TaskSlot -> TaskRecords] /\ uTh \in [Thread -> UvThreadRecords]
  /\ uCur \in TaskSlot /\ uTicker.slot \in TaskSlot
  /\ sem \in [TaskSlot \cup {0} -> SemRecords]

\* The semaphore of a thread that did not destroy it is alive and holds what the thread
\* was notified of.
Served(t, h) == Occupying(t, h) /\ t[h].pc # "free"

SemsOwn ==
  \A h \in Thread : Served(uTh, h) => sem[uTh[h].slot] = [alive |-> TRUE, count |-> uTh[h].owed]

MutexesApart ==
  uPc # "done" => valid = user \cup {1} /\ 1 \notin user /\ user \subseteq 1 .. Mutexes

UvTasks == UvTyped /\ Tasks(uTask, uTh, uPc, uCur)

UvInv == UvTasks /\ SemsOwn /\ MutexesApart

LEMMA UvSlots == U!Slot = TaskSlot /\ U!Handle = Thread /\ U!Main = 0
BY DEF U!Slot, U!Handle, U!Main, TaskSlot, Thread

LEMMA UvNoThread ==
  /\ U!NoThread \in UvThreadRecords /\ U!NoThread.pc = "none" /\ U!NoThread.slot \in TaskSlot
BY LibraryAssumption DEF U!NoThread, UvThreadRecords, TaskSlot

LEMMA UvInit == U!Init => UvInv
<1> SUFFICES ASSUME U!Init PROVE UvInv
  OBVIOUS
<1>1. uTask = [i \in TaskSlot |-> U!NoTask] /\ uTh = [h \in Thread |-> U!NoThread]
  BY UvSlots DEF U!Init
<1>2. U!NoTask \in TaskRecords /\ ~U!NoTask.created /\ ~U!NoTask.joinable
  BY FreeHandle DEF U!NoTask, TaskRecords
<1>3. 1 \in TaskSlot
  BY LibraryAssumption DEF TaskSlot
<1>4. \A h \in Thread : ~Occupying(uTh, h) /\ uTh[h].pc = "none" /\ uTh[h].slot \in TaskSlot
  BY <1>1, UvNoThread DEF Occupying
<1>5. uPc = "run" /\ uCur = 1 /\ uTicker.slot = 1 /\ valid = {1} /\ user = {}
  BY DEF U!Init, U!InitMutex
<1>6. sem \in [TaskSlot \cup {0} -> SemRecords]
  BY UvSlots DEF U!Init, SemRecords
<1>7. UvTyped
  BY <1>1, <1>2, <1>3, <1>5, <1>6, UvNoThread DEF UvTyped
<1>8. Tasks(uTask, uTh, uPc, uCur)
  BY <1>1, <1>2, <1>4, <1>5 DEF Tasks, CreatedOwned, JoinableAlive, ThreadsPlaced, Entered
<1>9. SemsOwn /\ MutexesApart
  BY <1>4, <1>5 DEF SemsOwn, MutexesApart, Served
<1> QED
  BY <1>7, <1>8, <1>9 DEF UvInv, UvTasks

\* A thread that entered finds its own descriptor.
LEMMA UvOwnId ==
  ASSUME UvTasks, NEW h \in Thread, Entered(uTh, h)
  PROVE  U!OwnIds(h) # {} /\ U!OwnId(h) = uTh[h].slot
<1>1. U!OwnIds(h) = {i \in TaskSlot : uTask[i].running /\ uTask[i].thread = h}
  BY UvSlots DEF U!OwnIds
<1>2. /\ uTh[h].slot \in U!OwnIds(h) /\ U!OwnIds(h) \subseteq TaskSlot
      /\ \A j \in U!OwnIds(h) : uTh[h].slot <= j
  BY <1>1, OwnDescriptor DEF UvTasks, Tasks
<1>3. U!OwnIds(h) \subseteq Nat
  BY <1>2 DEF TaskSlot
<1> QED
  BY <1>2, <1>3, MinIs DEF U!OwnId

\* What becomes of a thread that goes on to q and was notified n more times.
Becomes(t, t2, h, q, n) ==
  /\ t2 \in [Thread -> UvThreadRecords]
  /\ \A k \in Thread : /\ t2[k].pc = IF k = h THEN q ELSE t[k].pc
                       /\ t2[k].slot = t[k].slot /\ t2[k].detached = t[k].detached
                       /\ t2[k].owed = IF k = h THEN t[k].owed + n ELSE t[k].owed

LEMMA UvGoesOn ==
  ASSUME NEW t \in [Thread -> UvThreadRecords], NEW h \in Thread,
         NEW q \in {"start", "gate", "tell", "lock", "body", "wait", "end", "free", "ended"}
  PROVE  Becomes(t, [t EXCEPT ![h].pc = q], h, q, 0)
<1> DEFINE r == [t[h] EXCEPT !.pc = q]
           t2 == [t EXCEPT ![h].pc = q]
<1>1. t[h] \in UvThreadRecords
  OBVIOUS
<1>2. /\ r \in UvThreadRecords /\ r.pc = q /\ r.slot = t[h].slot
      /\ r.detached = t[h].detached /\ r.owed = t[h].owed + (0)
  BY <1>1 DEF UvThreadRecords
<1>3. t2 = [t EXCEPT ![h] = r]
  OBVIOUS
<1> HIDE DEF r
<1>4. t2 \in [Thread -> UvThreadRecords] /\ \A k \in Thread : t2[k] = IF k = h THEN r ELSE t[k]
  BY <1>2, <1>3
<1> HIDE DEF t2
<1>5. Becomes(t, t2, h, q, 0)
  BY <1>2, <1>4 DEF Becomes
<1> QED
  BY <1>5 DEF t2

LEMMA UvWakes ==
  ASSUME NEW t \in [Thread -> UvThreadRecords], NEW h \in Thread
  PROVE  Becomes(t, [t EXCEPT ![h].pc = "body", ![h].owed = @ - 1], h, "body", -1)
<1> DEFINE r == [t[h] EXCEPT !.pc = "body", !.owed = @ - 1]
           t2 == [t EXCEPT ![h].pc = "body", ![h].owed = @ - 1]
<1>1. t[h] \in UvThreadRecords
  OBVIOUS
<1> DEFINE a == [t[h] EXCEPT !.pc = "body"]
<1>6. /\ a \in UvThreadRecords /\ a.pc = "body" /\ a.slot = t[h].slot
      /\ a.detached = t[h].detached /\ a.owed = t[h].owed
  BY <1>1 DEF UvThreadRecords
<1>2. /\ r \in UvThreadRecords /\ r.pc = "body" /\ r.slot = t[h].slot
      /\ r.detached = t[h].detached /\ r.owed = t[h].owed + (-1)
  <2>1. r = [a EXCEPT !.owed = t[h].owed - 1] /\ t[h].owed - 1 \in Int
    BY <1>1 DEF UvThreadRecords
  <2>2. t[h].owed - 1 = t[h].owed + (-1)
    BY <1>1 DEF UvThreadRecords
  <2> HIDE DEF a, r
  <2> QED
    BY <1>6, <2>1, <2>2 DEF UvThreadRecords
<1>3. t2 = [t EXCEPT ![h] = r]
  OBVIOUS
<1> HIDE DEF r
<1>4. t2 \in [Thread -> UvThreadRecords] /\ \A k \in Thread : t2[k] = IF k = h THEN r ELSE t[k]
  BY <1>2, <1>3
<1> HIDE DEF t2
<1>5. Becomes(t, t2, h, "body", -1)
  BY <1>2, <1>4 DEF Becomes
<1> QED
  BY <1>5 DEF t2

LEMMA UvNotified ==
  ASSUME NEW t \in [Thread -> UvThreadRecords], NEW h \in Thread
  PROVE  Becomes(t, [t EXCEPT ![h].owed = @ + 1], h, t[h].pc, 1)
<1> DEFINE r == [t[h] EXCEPT !.owed = @ + 1]
           t2 == [t EXCEPT ![h].owed = @ + 1]
<1>1. t[h] \in UvThreadRecords
  OBVIOUS
<1>2. /\ r \in UvThreadRecords /\ r.pc = t[h].pc /\ r.slot = t[h].slot
      /\ r.detached = t[h].detached /\ r.owed = t[h].owed + (1)
  BY <1>1 DEF UvThreadRecords
<1>3. t2 = [t EXCEPT ![h] = r]
  OBVIOUS
<1> HIDE DEF r
<1>4. t2 \in [Thread -> UvThreadRecords] /\ \A k \in Thread : t2[k] = IF k = h THEN r ELSE t[k]
  BY <1>2, <1>3
<1> HIDE DEF t2
<1>5. Becomes(t, t2, h, t[h].pc, 1)
  BY <1>2, <1>4 DEF Becomes
<1> QED
  BY <1>5 DEF t2

\* What a thread notifies or takes from, and what its semaphore then holds.
Counted(i, n) ==
  /\ sem' \in [TaskSlot \cup {0} -> SemRecords]
  /\ \A j \in TaskSlot \cup {0} :
       /\ j # i => sem'[j] = sem[j]
       /\ j = i => sem'[j] = [alive |-> sem[j].alive, count |-> sem[j].count + n]

LEMMA UvCounted ==
  ASSUME UvTyped, NEW i \in TaskSlot \cup {0}
  PROVE  /\ U!Post(i) => Counted(i, 1)
         /\ U!Take(i) => Counted(i, -1)
<1>1. sem[i] \in SemRecords /\ sem \in [TaskSlot \cup {0} -> SemRecords]
  BY DEF UvTyped
<1>2. ASSUME U!Post(i) PROVE Counted(i, 1)
  <2> DEFINE r == [sem[i] EXCEPT !.count = @ + 1]
  <2>1. r \in SemRecords /\ r = [alive |-> sem[i].alive, count |-> sem[i].count + (1)]
    BY <1>1 DEF SemRecords
  <2>2. sem' = [sem EXCEPT ![i] = r]
    BY <1>2 DEF U!Post
  <2> HIDE DEF r
  <2> QED
    BY <1>1, <2>1, <2>2 DEF Counted
<1>3. ASSUME U!Take(i) PROVE Counted(i, -1)
  <2> DEFINE r == [sem[i] EXCEPT !.count = @ - 1]
  <2>1. r \in SemRecords /\ r = [alive |-> sem[i].alive, count |-> sem[i].count + (-1)]
    BY <1>1 DEF SemRecords
  <2>2. sem' = [sem EXCEPT ![i] = r]
    BY <1>3 DEF U!Take
  <2> HIDE DEF r
  <2> QED
    BY <1>1, <2>1, <2>2 DEF Counted
<1> QED
  BY <1>2, <1>3

\* Threads that have a descriptor have different ones, and what is joinable is not that
\* of another thread that still has it.
LEMMA UvApart ==
  ASSUME UvTasks, NEW h \in Thread, Occupying(uTh, h)
  PROVE  /\ uTh[h].slot \in TaskSlot
         /\ uTask[uTh[h].slot].thread = h
         /\ \A k \in Thread : k # h /\ Occupying(uTh, k) => uTh[k].slot # uTh[h].slot
BY DEF UvTasks, Tasks, ThreadsPlaced

LEMMA UvCreate ==
  ASSUME UvInv, NEW h \in Thread, NEW wait \in BOOLEAN, NEW detach \in BOOLEAN,
         NEW tick \in BOOLEAN, U!CreateThread(h, wait, detach, tick)
  PROVE  UvInv'
<1>1. /\ uTask \in [TaskSlot -> TaskRecords] /\ uTh \in [Thread -> UvThreadRecords]
      /\ sem \in [TaskSlot \cup {0} -> SemRecords] /\ uTicker.slot \in TaskSlot
      /\ Tasks(uTask, uTh, uPc, uCur) /\ uPc = "run" /\ uTh[h].pc = "none"
  BY DEF UvInv, UvTasks, UvTyped, U!CreateThread, U!IsNext
<1> DEFINE s == U!Min({j \in U!Slot : ~uTask[j].created})
<1>2. s \in TaskSlot /\ ~uTask[s].created /\ \A j \in TaskSlot : ~uTask[j].created => s <= j
  <2> DEFINE free == {j \in TaskSlot : ~uTask[j].created}
  <2>1. free # {} /\ s = U!Min(free)
    BY UvSlots DEF U!CreateThread
  <2>2. free \subseteq Nat
    BY DEF TaskSlot
  <2>3. U!Min(free) \in free /\ \A y \in free : U!Min(free) <= y
    <3> HIDE DEF free, s
    <3> QED
      BY <2>1, <2>2, MinLeast
  <2> HIDE DEF s
  <2> QED
    BY <2>1, <2>3
<1>3. /\ U!Claim(s, h, wait) /\ U!SemInit(s) /\ uCur' = s /\ uPc' = "created"
      /\ uTh' = [uTh EXCEPT ![h] = [pc |-> "start", slot |-> s, wait |-> wait,
                                    detached |-> detach, tick |-> tick, owed |-> 0]]
      /\ uTicker'.slot \in {uTicker.slot, s} /\ UNCHANGED <<valid, user>>
  BY DEF U!CreateThread
<1> HIDE DEF s
<1> DEFINE new == [uTask[s] EXCEPT !.created = TRUE, !.waitInit = wait, !.thread = h]
           run == [pc |-> "start", slot |-> s, wait |-> wait, detached |-> detach,
                   tick |-> tick, owed |-> 0]
           fresh == [alive |-> TRUE, count |-> 0]
<1>4. new \in TaskRecords /\ new.created = TRUE /\ new.thread = h
  <2>1. uTask[s] \in TaskRecords
    BY <1>1, <1>2
  <2> QED
    BY <2>1 DEF TaskRecords
<1>5. run \in UvThreadRecords /\ run.pc = "start" /\ run.slot = s /\ run.owed = 0
  BY <1>2 DEF UvThreadRecords
<1>6. fresh \in SemRecords
  BY DEF SemRecords
<1>7. /\ uTask' = [uTask EXCEPT ![s] = new] /\ uTh' = [uTh EXCEPT ![h] = run]
      /\ sem' = [sem EXCEPT ![s] = fresh]
  BY <1>1, <1>2, <1>3 DEF U!Claim, U!SemInit
<1> HIDE DEF new, run
<1>8. /\ uTask' \in [TaskSlot -> TaskRecords] /\ uTask'[s] = new
      /\ \A i \in TaskSlot : i # s => uTask'[i] = uTask[i]
  BY <1>1, <1>2, <1>4, <1>7
<1>9. /\ uTh' \in [Thread -> UvThreadRecords] /\ uTh'[h] = run
      /\ \A k \in Thread : k # h => uTh'[k] = uTh[k]
  BY <1>1, <1>5, <1>7
<1>10. /\ sem' \in [TaskSlot \cup {0} -> SemRecords] /\ sem'[s] = fresh
       /\ \A i \in TaskSlot : i # s => sem'[i] = sem[i]
  <2> HIDE DEF fresh
  <2> QED
    BY <1>1, <1>2, <1>6, <1>7
<1>11. UvTyped'
  BY <1>1, <1>2, <1>3, <1>8, <1>9, <1>10 DEF UvTyped
<1>12. Tasks(uTask', uTh', "created", s)
  <2>1. Creates(uTask, uTh, uTask', uTh', h, s)
    BY <1>1, <1>2, <1>4, <1>5, <1>8, <1>9 DEF Creates
  <2> QED
    BY <1>1, <1>2, <2>1, ThreadCreated
<1>13. SemsOwn'
  <2> SUFFICES ASSUME NEW k \in Thread, Served(uTh', k)
               PROVE  sem'[uTh'[k].slot] = [alive |-> TRUE, count |-> uTh'[k].owed]
    BY DEF SemsOwn
  <2>1. CASE k = h
    BY <1>5, <1>9, <1>10, <2>1
  <2>2. CASE k # h
    <3>1. uTh'[k] = uTh[k] /\ Served(uTh, k) /\ Occupying(uTh, k)
      BY <1>9, <2>2 DEF Served, Occupying
    <3>2. uTh[k].slot # s /\ uTh[k].slot \in TaskSlot
      BY <1>1, <1>2, <3>1 DEF Tasks, ThreadsPlaced
    <3> QED
      BY <1>10, <3>1, <3>2 DEF UvInv, SemsOwn
  <2> QED
    BY <2>1, <2>2
<1>14. MutexesApart'
  BY <1>1, <1>3 DEF UvInv, MutexesApart
<1> QED
  BY <1>3, <1>11, <1>12, <1>13, <1>14 DEF UvInv, UvTasks

LEMMA UvMutexes ==
  ASSUME UvInv, U!MutexCreate \/ \E m \in 1 .. Mutexes : U!MutexDestroy(m)
  PROVE  UvInv'
<1>1. /\ UNCHANGED <<uTask, sem, uTh, uPc, uCur, uTicker>> /\ uPc = "run"
      /\ valid = user \cup {1} /\ 1 \notin user /\ user \subseteq 1 .. Mutexes
  BY DEF UvInv, MutexesApart, U!MutexCreate, U!MutexDestroy
<1>2. UvTasks' /\ SemsOwn'
  BY <1>1 DEF UvInv, UvTasks, UvTyped, SemsOwn
<1>3. CASE U!MutexCreate
  <2> DEFINE free == U!Min((1 .. Mutexes) \ valid)
  <2>1. (1 .. Mutexes) \ valid # {}
    <3>1. valid \subseteq 1 .. Mutexes /\ valid # 1 .. Mutexes
      BY <1>1, <1>3, LibraryAssumption DEF U!MutexCreate
    <3> QED
      BY <3>1
  <2>2. free \in (1 .. Mutexes) \ valid
    BY <2>1, MinLeast
  <2>3. valid' = valid \cup {free} /\ user' = user \cup {free}
    BY <1>3 DEF U!MutexCreate
  <2> HIDE DEF free
  <2> QED
    BY <1>1, <1>2, <2>2, <2>3 DEF UvInv, MutexesApart
<1>4. ASSUME NEW m \in 1 .. Mutexes, U!MutexDestroy(m) PROVE UvInv'
  <2>1. m \in user /\ valid' = valid \ {m} /\ user' = user \ {m}
    BY <1>4 DEF U!MutexDestroy
  <2> QED
    BY <1>1, <1>2, <2>1 DEF UvInv, MutexesApart
<1> QED
  BY <1>3, <1>4

LEMMA UvMain ==
  ASSUME UvInv,
         U!CreateDone \/ U!GateScan \/ U!GateEnter \/ U!GateWait \/ U!TickerStop \/ U!Deinit
  PROVE  UvInv'
<1> USE DEF UvInv, UvTasks
<1>1. MutexesApart'
  BY DEF MutexesApart, U!CreateDone, U!GateScan, U!GateEnter, U!GateWait, U!TickerStop, U!Deinit
<1>2. CASE U!CreateDone
  <2> DEFINE b == ~uTh[uTask[uCur].thread].detached
  <2>1. /\ uPc = "created" /\ uPc' = "run" /\ uTask' = [uTask EXCEPT ![uCur].joinable = b]
        /\ UNCHANGED <<sem, uTh, uCur, uTicker>> /\ b \in BOOLEAN
        /\ uCur \in TaskSlot /\ uTask \in [TaskSlot -> TaskRecords]
    BY <1>2 DEF U!CreateDone, UvTyped
  <2>2. FlagSet(uTask, uTask', uCur, "joinable", b)
    <3> HIDE DEF b
    <3> QED
      BY <2>1, SetsJoinable
  <2>3. UvTyped'
    BY <2>1, <2>2 DEF UvTyped, FlagSet
  <2>4. Tasks(uTask', uTh, "run", uCur)
    <3>1. \A i \in TaskSlot :
            /\ uTask'[i].created = uTask[i].created /\ uTask'[i].thread = uTask[i].thread
            /\ uTask'[i].running = uTask[i].running
            /\ i # uCur => uTask'[i].joinable = uTask[i].joinable
      BY <2>2 DEF FlagSet
    <3>2. uTask'[uCur].joinable = b
      BY <2>1, <2>2 DEF FlagSet
    <3> QED
      BY <2>1, <3>1, <3>2, CreationEnds
  <2>5. SemsOwn'
    BY <2>1 DEF SemsOwn
  <2> QED
    BY <1>1, <2>1, <2>3, <2>4, <2>5
<1>3. CASE U!GateScan \/ U!GateEnter \/ U!GateWait \/ U!TickerStop \/ U!Deinit
  <2>1. /\ UNCHANGED <<uTask, uTh>> /\ uPc # "created" /\ uPc' # "created"
        /\ uCur' \in {uCur, 1} /\ uTicker'.slot = uTicker.slot
    <3>1. CASE U!TickerStop
      BY <3>1 DEF U!TickerStop
    <3> QED
      BY <1>3, <3>1 DEF U!GateScan, U!GateEnter, U!GateWait, U!Deinit
  <2>2. /\ sem' \in [TaskSlot \cup {0} -> SemRecords]
        /\ \A i \in TaskSlot : sem'[i] = sem[i]
    <3>1. CASE U!GateWait
      <4>1. Counted(0, -1)
        BY <3>1, UvSlots, UvCounted DEF U!GateWait
      <4>2. 0 \notin TaskSlot
        BY DEF TaskSlot
      <4> QED
        BY <4>1, <4>2 DEF Counted
    <3>2. CASE U!GateScan \/ U!GateEnter \/ U!TickerStop \/ U!Deinit
      BY <3>2 DEF U!GateScan, U!GateEnter, U!TickerStop, U!Deinit, UvTyped
    <3> QED
      BY <1>3, <3>1, <3>2
  <2>3. UvTyped'
    BY <2>1, <2>2, LibraryAssumption DEF UvTyped, TaskSlot
  <2>4. Tasks(uTask, uTh, uPc', uCur')
    BY <2>1, MainMoves
  <2>5. SemsOwn'
    BY <2>1, <2>2 DEF SemsOwn, Tasks, ThreadsPlaced
  <2> QED
    BY <1>1, <2>1, <2>3, <2>4, <2>5
<1> QED
  BY <1>2, <1>3

\* Main joins what is joinable: no other descriptor has the thread that is gone, and no
\* thread that goes on has the semaphore.
LEMMA UvJoin ==
  ASSUME UvInv, U!TickerJoin \/ U!DeinitJoin
  PROVE  UvInv'
<1> USE DEF UvInv, UvTasks
<1>1. /\ uPc # "created" /\ uPc' # "created" /\ uCur' \in TaskSlot /\ uTicker' = uTicker
      /\ uCur \in TaskSlot /\ uTicker.slot \in TaskSlot
      /\ uTask \in [TaskSlot -> TaskRecords] /\ uTh \in [Thread -> UvThreadRecords]
      /\ sem \in [TaskSlot \cup {0} -> SemRecords]
  <2>1. CASE U!TickerJoin
    BY <2>1 DEF U!TickerJoin, UvTyped
  <2>2. CASE U!DeinitJoin
    BY <2>2, LibraryAssumption DEF U!DeinitJoin, UvTyped, TaskSlot
  <2> QED
    BY <2>1, <2>2
<1>2. MutexesApart'
  BY DEF MutexesApart, U!TickerJoin, U!DeinitJoin
<1>3. UNCHANGED <<uTask, sem, uTh>> \/ \E i \in TaskSlot : uTask[i].joinable /\ U!Join(i)
  BY <1>1 DEF U!TickerJoin, U!DeinitJoin, U!JoinIfJoinable
<1>4. Tasks(uTask, uTh, uPc', uCur')
  BY <1>1, MainMoves
<1>5. CASE UNCHANGED <<uTask, sem, uTh>>
  <2>1. UvTyped'
    BY <1>1, <1>5 DEF UvTyped
  <2>2. SemsOwn'
    BY <1>5 DEF SemsOwn
  <2> QED
    BY <1>2, <1>4, <1>5, <2>1, <2>2
<1>6. ASSUME NEW i \in TaskSlot, uTask[i].joinable, U!Join(i) PROVE UvInv'
  <2> DEFINE h == uTask[i].thread
             r == [sem[i] EXCEPT !.alive = FALSE]
  <2>1. /\ h \in Thread /\ uTh[h].pc = "ended"
        /\ \A j \in TaskSlot : j # i /\ uTask[j].joinable => uTask[j].thread # h
    BY <1>1, <1>6 DEF U!Join, Tasks, JoinableAlive
  <2>2. /\ uTask' = [uTask EXCEPT ![i].joinable = FALSE] /\ uTh' = [uTh EXCEPT ![h] = U!NoThread]
        /\ sem' = [sem EXCEPT ![i] = r]
    BY <1>6 DEF U!Join
  <2>3. r \in SemRecords
    BY <1>1 DEF SemRecords
  <2>4. \A k \in Thread : Served(uTh, k) => uTh[k].slot # i /\ uTh[k].slot \in TaskSlot /\ k # h
    BY <2>1 DEF Served, Occupying, Tasks, ThreadsPlaced
  <2> HIDE DEF h, r
  <2>5. FlagSet(uTask, uTask', i, "joinable", FALSE)
    BY <1>1, <2>2, SetsJoinable
  <2>6. /\ uTh' \in [Thread -> UvThreadRecords] /\ uTh'[h] = U!NoThread
        /\ \A k \in Thread : k # h => uTh'[k] = uTh[k]
    BY <1>1, <2>1, <2>2, UvNoThread
  <2>7. /\ sem' \in [TaskSlot \cup {0} -> SemRecords]
        /\ \A j \in TaskSlot : j # i => sem'[j] = sem[j]
    BY <1>1, <2>2, <2>3
  <2>8. UvTyped'
    BY <1>1, <2>5, <2>6, <2>7 DEF UvTyped, FlagSet
  <2>9. Goes(uTask, uTh, uTask', uTh', uPc', uCur', h)
    BY <1>1, <2>1, <2>5, <2>6, UvNoThread DEF Goes, FlagSet
  <2>10. Tasks(uTask', uTh', uPc', uCur')
    BY <1>4, <2>1, <2>9, ThreadGone
  <2>11. \A k \in Thread : Served(uTh', k) => k # h /\ Served(uTh, k)
    BY <2>6, UvNoThread DEF Served, Occupying
  <2>12. SemsOwn'
    BY <2>4, <2>6, <2>7, <2>11 DEF SemsOwn
  <2> QED
    BY <1>2, <2>8, <2>10, <2>12
<1> QED
  BY <1>3, <1>5, <1>6

\* What a thread does in its own descriptor, and with semaphores.
Steps(h, q, n) ==
  /\ Occupying(uTh, h) /\ q \in {"gate", "tell", "lock", "body", "wait", "end", "free"}
  /\ Becomes(uTh, uTh', h, q, n) /\ UNCHANGED <<uPc, uCur, uTicker>>
  /\ sem' \in [TaskSlot \cup {0} -> SemRecords]
  /\ \/ FlagSet(uTask, uTask', uTh[h].slot, "running", TRUE)
     \/ Entered(uTh, h) /\ FlagSet(uTask, uTask', uTh[h].slot, "initComplete", TRUE)
     \/ Entered(uTh, h) /\ uTask' = uTask

LEMMA UvRunsTasks ==
  ASSUME UvTasks, NEW h \in Thread, NEW q, NEW n, Steps(h, q, n)
  PROVE  UvTasks'
<1>1. /\ uTask \in [TaskSlot -> TaskRecords] /\ Tasks(uTask, uTh, uPc, uCur)
      /\ uTh[h].slot \in TaskSlot
      /\ Entered(uTh, h) => uTask[uTh[h].slot].running
  BY DEF UvTasks, UvTyped, Tasks, ThreadsPlaced
<1>2. /\ uTask' \in [TaskSlot -> TaskRecords]
      /\ \A i \in TaskSlot :
           /\ uTask'[i].created = uTask[i].created /\ uTask'[i].thread = uTask[i].thread
           /\ uTask'[i].joinable = uTask[i].joinable
           /\ uTask[i].running => uTask'[i].running
      /\ uTask'[uTh[h].slot].running
  BY <1>1 DEF FlagSet, Steps
<1>3. Moves(uTask, uTh, uTask', uTh', h)
  BY <1>1, <1>2 DEF Moves, Becomes, Entered, Occupying, Steps
<1>4. Tasks(uTask', uTh', uPc, uCur)
  BY <1>1, <1>3, ThreadMoves
<1> QED
  BY <1>2, <1>4 DEF UvTasks, UvTyped, Becomes, Steps

LEMMA UvRuns ==
  ASSUME UvInv, NEW h \in Thread,
         U!Start(h) \/ U!InitComplete(h) \/ U!InitTell(h) \/ U!InitPass(h) \/ U!TaskWait(h)
           \/ U!TaskWake(h) \/ U!TaskReturn(h) \/ U!TaskDestroy(h)
  PROVE  UvInv'
<1> USE DEF UvInv
<1>1. /\ uTask \in [TaskSlot -> TaskRecords] /\ uTh \in [Thread -> UvThreadRecords]
      /\ uTh[h] \in UvThreadRecords /\ uTh[h].slot \in TaskSlot
      /\ sem \in [TaskSlot \cup {0} -> SemRecords] /\ 0 \notin TaskSlot
  BY DEF UvTasks, UvTyped, Tasks, ThreadsPlaced, TaskSlot
<1>2. UNCHANGED <<uPc, uCur, uTicker, valid, user>> /\ Occupying(uTh, h)
  BY DEF U!Start, U!InitComplete, U!InitTell, U!InitPass, U!TaskWait, U!TaskWake, U!TaskReturn,
         U!TaskDestroy, Occupying
<1>3. MutexesApart'
  BY <1>2 DEF MutexesApart
<1>4. /\ \A k \in Thread : Served(uTh, k) => /\ uTh[k].slot \in TaskSlot
                                             /\ k # h => uTh[k].slot # uTh[h].slot
      /\ \A k \in Thread : Occupying(uTh, k) => uTh[k].slot \in TaskSlot
  BY <1>2, UvApart DEF Served
<1>5. CASE U!Start(h) \/ U!InitComplete(h) \/ U!InitTell(h) \/ U!InitPass(h) \/ U!TaskWait(h)
             \/ U!TaskReturn(h)
  <2>1. \E q \in {"gate", "tell", "lock", "body", "wait", "end"} : U!Becomes(h, q)
    BY <1>5 DEF U!Start, U!InitComplete, U!InitTell, U!InitPass, U!TaskWait, U!TaskReturn
  <2>2. PICK q \in {"gate", "tell", "lock", "body", "wait", "end"} : U!Becomes(h, q)
    BY <2>1
  <2>3. Becomes(uTh, uTh', h, q, 0)
    <3>1. uTh' = [uTh EXCEPT ![h].pc = q]
      BY <2>2 DEF U!Becomes
    <3>2. q \in {"start", "gate", "tell", "lock", "body", "wait", "end", "free", "ended"}
      BY <2>2
    <3>4. uTh \in [Thread -> UvThreadRecords]
      BY <1>1
    <3>3. Becomes(uTh, [uTh EXCEPT ![h].pc = q], h, q, 0)
      BY <3>2, <3>4, UvGoesOn, Zenon
    <3> QED
      BY <3>1, <3>3
  <2>4. /\ sem' \in [TaskSlot \cup {0} -> SemRecords]
        /\ \A i \in TaskSlot : sem'[i] = sem[i]
    <3>1. CASE U!InitTell(h)
      <4>1. Counted(0, 1)
        BY <3>1, UvSlots, UvCounted DEF U!InitTell, UvTasks
      <4> QED
        BY <1>1, <4>1 DEF Counted
    <3>2. CASE U!Start(h) \/ U!InitComplete(h) \/ U!InitPass(h) \/ U!TaskWait(h) \/ U!TaskReturn(h)
      BY <1>1, <3>2 DEF U!Start, U!InitComplete, U!InitPass, U!TaskWait, U!TaskReturn
    <3> QED
      BY <1>5, <3>1, <3>2
  <2>5. \/ FlagSet(uTask, uTask', uTh[h].slot, "running", TRUE)
        \/ Entered(uTh, h) /\ FlagSet(uTask, uTask', uTh[h].slot, "initComplete", TRUE)
        \/ Entered(uTh, h) /\ uTask' = uTask
    <3>1. CASE U!Start(h)
      BY <1>1, <3>1, SetsRunning DEF U!Start
    <3>2. CASE U!InitComplete(h)
      <4>1. Entered(uTh, h)
        BY <3>2 DEF U!InitComplete, Entered, Occupying
      <4>2. uTask' = [uTask EXCEPT ![uTh[h].slot].initComplete = TRUE]
        BY <3>2, <4>1, UvOwnId DEF U!InitComplete
      <4> QED
        BY <1>1, <4>1, <4>2, SetsInitComplete
    <3>3. CASE U!InitTell(h) \/ U!InitPass(h) \/ U!TaskWait(h) \/ U!TaskReturn(h)
      BY <3>3 DEF U!InitTell, U!InitPass, U!TaskWait, U!TaskReturn, Entered, Occupying
    <3> QED
      BY <1>5, <3>1, <3>2, <3>3
  <2>6. UvTasks'
    <3>1. Steps(h, q, 0)
      BY <1>2, <2>2, <2>3, <2>4, <2>5 DEF Steps
    <3> QED
      BY <3>1, UvRunsTasks
  <2>7. SemsOwn'
    <3>1. \A k \in Thread : /\ uTh'[k].slot = uTh[k].slot /\ uTh'[k].owed = uTh[k].owed
                            /\ Served(uTh', k) => Served(uTh, k)
      <4>1. Served(uTh, h)
        BY <1>5 DEF U!Start, U!InitComplete, U!InitTell, U!InitPass, U!TaskWait, U!TaskReturn,
                    Served, Occupying
      <4>2. \A k \in Thread : uTh[k].owed \in Int
        BY <1>1 DEF UvThreadRecords
      <4> QED
        BY <2>3, <4>1, <4>2 DEF Becomes, Served, Occupying
    <3> QED
      BY <1>4, <2>4, <3>1 DEF SemsOwn
  <2> QED
    BY <1>3, <2>6, <2>7
<1>6. CASE U!TaskWake(h)
  <2>1. Entered(uTh, h) /\ Served(uTh, h) /\ uTask' = uTask
    BY <1>6 DEF U!TaskWake, Entered, Served, Occupying
  <2>2. Counted(uTh[h].slot, -1)
    BY <1>1, <1>6, <2>1, UvOwnId, UvCounted DEF U!TaskWake, UvTasks
  <2>3. Becomes(uTh, uTh', h, "body", -1)
    BY <1>1, <1>6, UvWakes DEF U!TaskWake
  <2>4. UvTasks'
    <3>1. Steps(h, "body", -1)
      BY <1>2, <2>1, <2>2, <2>3 DEF Steps, Counted
    <3> QED
      BY <3>1, UvRunsTasks
  <2>5. SemsOwn'
    <3> SUFFICES ASSUME NEW k \in Thread, Served(uTh', k)
                 PROVE  sem'[uTh'[k].slot] = [alive |-> TRUE, count |-> uTh'[k].owed]
      BY DEF SemsOwn
    <3>1. Served(uTh, k)
      BY <2>1, <2>3 DEF Becomes, Served, Occupying
    <3>4. /\ uTh'[k].slot = uTh[k].slot /\ uTh[k].owed \in Int
          /\ uTh'[k].owed = IF k = h THEN uTh[k].owed + (-1) ELSE uTh[k].owed
      BY <1>1, <2>3 DEF Becomes, UvThreadRecords
    <3>5. sem[uTh[k].slot] = [alive |-> TRUE, count |-> uTh[k].owed] /\ uTh[k].slot \in TaskSlot
      BY <1>4, <3>1 DEF SemsOwn
    <3>2. CASE k = h
      <4>2. sem'[uTh[k].slot] =
              [alive |-> sem[uTh[k].slot].alive, count |-> sem[uTh[k].slot].count + (-1)]
        BY <2>2, <3>2, <3>5 DEF Counted
      <4>1. sem'[uTh[k].slot] = [alive |-> TRUE, count |-> uTh[k].owed + (-1)]
        BY <3>5, <4>2
      <4> QED
        BY <3>2, <3>4, <4>1
    <3>3. CASE k # h
      <4>1. sem'[uTh[k].slot] = sem[uTh[k].slot]
        BY <1>4, <2>2, <3>1, <3>3, <3>5 DEF Counted
      <4> QED
        BY <3>3, <3>4, <3>5, <4>1
    <3> QED
      BY <3>2, <3>3
  <2> QED
    BY <1>3, <2>4, <2>5
<1>7. CASE U!TaskDestroy(h)
  <2> DEFINE r == [sem[uTh[h].slot] EXCEPT !.alive = @ /\ uTask[uTh[h].slot].joinable]
  <2>1. Entered(uTh, h) /\ uTask' = uTask
    BY <1>7 DEF U!TaskDestroy, Entered, Occupying
  <2>2. r \in SemRecords
    BY <1>1 DEF SemRecords, TaskRecords
  <2>3. sem' = [sem EXCEPT ![uTh[h].slot] = r]
    BY <1>7 DEF U!TaskDestroy
  <2> HIDE DEF r
  <2>4. /\ sem' \in [TaskSlot \cup {0} -> SemRecords]
        /\ \A i \in TaskSlot : i # uTh[h].slot => sem'[i] = sem[i]
    BY <1>1, <2>2, <2>3
  <2>5. Becomes(uTh, uTh', h, "free", 0)
    BY <1>1, <1>7, UvGoesOn DEF U!TaskDestroy, U!Becomes
  <2>6. UvTasks'
    <3>1. Steps(h, "free", 0)
      BY <1>2, <2>1, <2>4, <2>5 DEF Steps
    <3> QED
      BY <3>1, UvRunsTasks
  <2>7. SemsOwn'
    <3>1. \A k \in Thread : Served(uTh', k) => k # h /\ Served(uTh, k)
      BY <2>5 DEF Becomes, Served, Occupying
    <3>2. \A k \in Thread : k # h => uTh'[k].slot = uTh[k].slot /\ uTh'[k].owed = uTh[k].owed
      BY <2>5 DEF Becomes
    <3> QED
      BY <1>4, <2>4, <3>1, <3>2 DEF SemsOwn
  <2> QED
    BY <1>3, <2>6, <2>7
<1> QED
  BY <1>5, <1>6, <1>7

\* A task that notifies another leaves descriptors alone.
LEMMA UvNotifies ==
  ASSUME UvInv, NEW h \in Thread, NEW t \in TaskSlot \cup {0}, U!TaskNotify(h, t)
  PROVE  UvInv'
<1> USE DEF UvInv
<1>1. /\ uTh \in [Thread -> UvThreadRecords] /\ 0 \notin TaskSlot
      /\ UNCHANGED <<uTask, uPc, uCur, uTicker, valid, user>>
  BY DEF UvTasks, UvTyped, TaskSlot, U!TaskNotify
<1>2. Counted(t, 1)
  BY UvCounted DEF UvTasks, U!TaskNotify
<1>3. /\ \A k \in Thread : uTh[k].owed \in Int
      /\ \A k \in Thread : Served(uTh, k) => uTh[k].slot \in TaskSlot
  BY <1>1, UvApart DEF UvThreadRecords, Served
<1>4. ASSUME uTh' \in [Thread -> UvThreadRecords],
             \A k \in Thread : /\ uTh'[k].pc = uTh[k].pc /\ uTh'[k].slot = uTh[k].slot
                               /\ uTh'[k].detached = uTh[k].detached
                               /\ Served(uTh, k) =>
                                    uTh'[k].owed = uTh[k].owed + (IF uTh[k].slot = t THEN 1 ELSE 0)
      PROVE  UvInv'
  <2>1. /\ \A k \in Thread : Occupying(uTh', k) <=> Occupying(uTh, k)
        /\ \A k \in Thread : Entered(uTh', k) <=> Entered(uTh, k)
        /\ \A k \in Thread : Served(uTh', k) <=> Served(uTh, k)
    BY <1>4 DEF Occupying, Entered, Served
  <2>2. UvTyped'
    BY <1>1, <1>2, <1>4 DEF UvTasks, UvTyped, Counted
  <2>3. CreatedOwned(uTask', uTh')
    BY <1>1, <1>4, <2>1 DEF UvTasks, Tasks, CreatedOwned
  <2>4. ThreadsPlaced(uTask', uTh')
    BY <1>1, <1>4, <2>1 DEF UvTasks, Tasks, ThreadsPlaced
  <2>5. JoinableAlive(uTask', uTh', uPc', uCur')
    BY <1>1, <1>4 DEF UvTasks, Tasks, JoinableAlive
  <2>6. SemsOwn'
    <3> SUFFICES ASSUME NEW k \in Thread, Served(uTh', k)
                 PROVE  sem'[uTh'[k].slot] = [alive |-> TRUE, count |-> uTh'[k].owed]
      BY DEF SemsOwn
    <3>1. /\ sem[uTh[k].slot] = [alive |-> TRUE, count |-> uTh[k].owed]
          /\ uTh[k].slot \in TaskSlot /\ uTh'[k].slot = uTh[k].slot /\ uTh[k].owed \in Int
          /\ uTh'[k].owed = uTh[k].owed + (IF uTh[k].slot = t THEN 1 ELSE 0)
      BY <1>3, <1>4, <2>1 DEF SemsOwn
    <3>2. CASE uTh[k].slot = t
      <4>2. sem'[uTh[k].slot] =
              [alive |-> sem[uTh[k].slot].alive, count |-> sem[uTh[k].slot].count + 1]
        BY <1>2, <3>1, <3>2 DEF Counted
      <4>1. sem'[uTh[k].slot] = [alive |-> TRUE, count |-> uTh[k].owed + 1]
        BY <3>1, <4>2
      <4> QED
        BY <3>1, <3>2, <4>1
    <3>3. CASE uTh[k].slot # t
      <4>1. sem'[uTh[k].slot] = sem[uTh[k].slot]
        BY <1>2, <3>1, <3>3 DEF Counted
      <4>2. uTh'[k].owed = uTh[k].owed
        BY <3>1, <3>3
      <4> QED
        BY <3>1, <4>1, <4>2
    <3> QED
      BY <3>2, <3>3
  <2>7. MutexesApart'
    BY <1>1 DEF MutexesApart
  <2> QED
    BY <2>2, <2>3, <2>4, <2>5, <2>6, <2>7 DEF UvTasks, Tasks
<1>5. CASE t = 0
  <2>1. uTh' = uTh
    BY <1>5, UvSlots DEF U!TaskNotify
  <2>2. \A k \in Thread : Served(uTh, k) => uTh[k].slot # t
    BY <1>1, <1>3, <1>5
  <2>3. \A k \in Thread : /\ uTh'[k].pc = uTh[k].pc /\ uTh'[k].slot = uTh[k].slot
                          /\ uTh'[k].detached = uTh[k].detached
                          /\ Served(uTh, k) =>
                               uTh'[k].owed = uTh[k].owed + (IF uTh[k].slot = t THEN 1 ELSE 0)
    BY <1>3, <2>1, <2>2
  <2> QED
    BY <1>1, <1>4, <2>1, <2>3
<1>6. CASE t # 0
  <2>1. PICK k \in Thread : /\ uTh[k].slot = t /\ uTh[k].pc \in {"body", "wait"}
                            /\ uTh' = [uTh EXCEPT ![k].owed = @ + 1]
    BY <1>6, UvSlots DEF U!TaskNotify
  <2>2. Becomes(uTh, uTh', k, uTh[k].pc, 1)
    BY <1>1, <2>1, UvNotified
  <2>3. Occupying(uTh, k)
    BY <2>1 DEF Occupying
  <2>4. \A m \in Thread : Served(uTh, m) => (uTh[m].slot = t <=> m = k)
    BY <2>1, <2>3, UvApart DEF Served
  <2>5. \A m \in Thread : /\ uTh'[m].pc = uTh[m].pc /\ uTh'[m].slot = uTh[m].slot
                          /\ uTh'[m].detached = uTh[m].detached
                          /\ uTh'[m].owed = IF m = k THEN uTh[m].owed + 1 ELSE uTh[m].owed
    BY <2>2 DEF Becomes
  <2>6. \A m \in Thread : Served(uTh, m) =>
          uTh'[m].owed = uTh[m].owed + (IF uTh[m].slot = t THEN 1 ELSE 0)
    BY <1>3, <2>4, <2>5
  <2> QED
    BY <1>4, <2>2, <2>5, <2>6 DEF Becomes
<1> QED
  BY <1>5, <1>6

LEMMA UvEnds ==
  ASSUME UvInv, NEW h \in Thread, U!TaskEnd(h) \/ U!Detached(h)
  PROVE  UvInv'
<1> USE DEF UvInv, UvTasks
<1>1. /\ uTask \in [TaskSlot -> TaskRecords] /\ uTh \in [Thread -> UvThreadRecords]
      /\ uTh[h].slot \in TaskSlot
      /\ UNCHANGED <<sem, uPc, uCur, uTicker, valid, user>>
  BY DEF UvTyped, Tasks, ThreadsPlaced, U!TaskEnd, U!Detached
<1>2. MutexesApart'
  BY <1>1 DEF MutexesApart
<1>3. CASE U!TaskEnd(h)
  <2>1. FlagSet(uTask, uTask', uTh[h].slot, "created", FALSE)
    BY <1>1, <1>3, SetsCreated DEF U!TaskEnd
  <2>2. Becomes(uTh, uTh', h, "ended", 0)
    BY <1>1, <1>3, UvGoesOn DEF U!TaskEnd, U!Becomes
  <2>3. UvTyped'
    BY <1>1, <2>1, <2>2 DEF UvTyped, FlagSet, Becomes
  <2>4. Ends(uTask, uTh, uTask', uTh', h)
    BY <1>1, <1>3, <2>1, <2>2 DEF U!TaskEnd, Ends, Occupying, FlagSet, Becomes
  <2>5. Tasks(uTask', uTh', uPc, uCur)
    BY <2>4, ThreadEnds
  <2>6. SemsOwn'
    <3>1. \A k \in Thread : Served(uTh', k) => k # h /\ Served(uTh, k)
      BY <2>2 DEF Becomes, Served, Occupying
    <3>2. \A k \in Thread : k # h => uTh'[k].slot = uTh[k].slot /\ uTh'[k].owed = uTh[k].owed
      BY <2>2 DEF Becomes
    <3> QED
      BY <1>1, <3>1, <3>2 DEF SemsOwn
  <2> QED
    BY <1>1, <1>2, <2>3, <2>5, <2>6
<1>4. CASE U!Detached(h)
  <2>1. /\ uTh[h].pc = "ended" /\ uTh[h].detached /\ (uPc = "created" => uTask[uCur].thread # h)
        /\ uTh' = [uTh EXCEPT ![h] = U!NoThread] /\ uTask' = uTask
    BY <1>4 DEF U!Detached
  <2>2. /\ uTh' \in [Thread -> UvThreadRecords] /\ uTh'[h] = U!NoThread
        /\ \A k \in Thread : k # h => uTh'[k] = uTh[k]
    BY <1>1, <2>1, UvNoThread
  <2>3. UvTyped'
    BY <1>1, <2>1, <2>2 DEF UvTyped
  <2>4. \A i \in TaskSlot :
          uTask[i].joinable => uTask[i].thread # h \/ (uPc = "created" /\ uCur = i)
    BY <2>1 DEF Tasks, JoinableAlive
  <2>5. Goes(uTask, uTh, uTask, uTh', uPc, uCur, h)
    BY <2>1, <2>2, <2>4, UvNoThread DEF Goes
  <2>6. Tasks(uTask, uTh', uPc, uCur)
    BY <2>5, ThreadGone
  <2>7. SemsOwn'
    <3>1. \A k \in Thread : Served(uTh', k) => k # h /\ Served(uTh, k)
      BY <2>2, UvNoThread DEF Served, Occupying
    <3> QED
      BY <1>1, <2>2, <3>1 DEF SemsOwn
  <2> QED
    BY <1>1, <1>2, <2>1, <2>3, <2>6, <2>7
<1> QED
  BY <1>3, <1>4

LEMMA UvNext == UvInv /\ (U!Next \/ UNCHANGED uvVars) => UvInv'
<1> SUFFICES ASSUME UvInv, U!Next \/ UNCHANGED uvVars PROVE UvInv'
  OBVIOUS
<1>1. CASE UNCHANGED uvVars
  BY <1>1 DEF uvVars, UvInv, UvTasks, UvTyped, SemsOwn, MutexesApart
<1>2. CASE U!Stopped /\ UNCHANGED U!vars
  BY <1>2 DEF U!vars, UvInv, UvTasks, UvTyped, SemsOwn, MutexesApart
<1>3. ASSUME NEW h \in Thread, NEW wait \in BOOLEAN, NEW detach \in BOOLEAN, NEW tick \in BOOLEAN,
             U!CreateThread(h, wait, detach, tick)
      PROVE  UvInv'
  BY <1>3, UvCreate
<1>4. CASE U!MainStep
  BY <1>3, <1>4, UvSlots, UvMutexes, UvMain, UvJoin DEF U!MainStep
<1>5. ASSUME NEW h \in Thread, U!Runs(h) \/ U!TaskWait(h) PROVE UvInv'
  BY <1>5, UvRuns, UvEnds DEF U!Runs
<1>6. ASSUME NEW h \in Thread, NEW t \in TaskSlot \cup {0}, U!TaskNotify(h, t) PROVE UvInv'
  BY <1>6, UvNotifies
<1> QED
  BY <1>1, <1>2, <1>4, <1>5, <1>6, UvSlots DEF U!Next

-----------------------------------------------------------------------------
(* Both layers.                                                            *)

LEMMA PosixKnown == PosixInv => A!OwnIdFound /\ A!JoinsOnce
<1> SUFFICES ASSUME PosixInv PROVE A!OwnIdFound /\ A!JoinsOnce
  OBVIOUS
<1>1. ASSUME NEW h \in Thread, th[h].pc \in {"gate", "body", "wait"} PROVE Entered(th, h)
  BY <1>1 DEF Entered, Occupying
<1>2. A!OwnIdFound
  BY <1>1, PosixSlots, PosixOwnId DEF A!OwnIdFound
<1>3. A!JoinsOnce
  BY PosixSlots DEF A!JoinsOnce, PosixInv, Tasks, JoinableAlive
<1> QED
  BY <1>2, <1>3

LEMMA UvKnown == UvInv => U!NotifiedItself /\ U!JoinsOnce /\ U!MutexesKept
<1> SUFFICES ASSUME UvInv PROVE U!NotifiedItself /\ U!JoinsOnce /\ U!MutexesKept
  OBVIOUS
<1>1. ASSUME NEW h \in Thread, uTh[h].pc \in {"body", "wait"}
      PROVE  Entered(uTh, h) /\ Served(uTh, h)
  BY <1>1 DEF Entered, Served, Occupying
<1>2. U!NotifiedItself
  BY <1>1, UvSlots, UvOwnId DEF U!NotifiedItself, UvInv, SemsOwn
<1>3. U!JoinsOnce
  BY UvSlots DEF U!JoinsOnce, UvInv, UvTasks, Tasks, JoinableAlive
<1>4. U!MutexesKept
  BY DEF U!MutexesKept, U!InitMutex, UvInv, MutexesApart
<1> QED
  BY <1>2, <1>3, <1>4

\* What the run checks of the tasks of both platform layers holds for every number of
\* descriptors, threads, mutexes and calls: a thread finds its own descriptor, although
\* ended tasks still say that they run; main joins each thread once; with libuv the
\* semaphore of a task is alive and holds its own notifications; and the mutexes in use
\* are valid.
THEOREM TasksKnownCorrect == LibSpec => []TasksKnown
<1>1. LibInit => PosixInv /\ UvInv
  BY PosixInit, UvInit DEF LibInit
<1>2. PosixInv /\ UvInv /\ [LibNext]_libVars => PosixInv' /\ UvInv'
  <2>1. LibNext => (A!Next \/ UNCHANGED palVars) /\ (U!Next \/ UNCHANGED uvVars)
    BY DEF LibNext, Only
  <2>2. UNCHANGED libVars => UNCHANGED palVars /\ UNCHANGED uvVars
    BY DEF libVars
  <2> QED
    BY <2>1, <2>2, PosixNext, UvNext
<1>3. PosixInv /\ UvInv => TasksKnown
  BY PosixKnown, UvKnown DEF TasksKnown
<1> QED
  BY <1>1, <1>2, <1>3, PTL DEF LibSpec

=============================================================================
