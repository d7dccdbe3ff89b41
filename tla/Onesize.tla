------------------------------- MODULE Onesize -------------------------------
(***************************************************************************)
(* The fixed-size block allocator (libs/onesize/onesize.c).  Its callers   *)
(* serialise its calls (event.c wraps them in a critical section), so each *)
(* call is one action.  Block i is the block at pool_beg + i * block_size. *)
(* Blocks that were never allocated are not linked anywhere: they lie from *)
(* nbump up to the end of the pool.                                        *)
(***************************************************************************)
EXTENDS Integers, Sequences, FiniteSets

CONSTANTS NTotal,    \* ntotal: blocks in the pool
          Margins    \* the margins callers pass to am_onesize_allocate_x

ASSUME OnesizeAssumption ==
  /\ NTotal \in Nat \ {0}
  /\ Margins \subseteq Nat

VARIABLES
  fl,         \* the free list, head first
  nbump,      \* bump index
  nfree,      \* free blocks
  nfree_min,  \* fewest free blocks seen
  held,       \* the blocks the callers hold (not kept by the code)
  got         \* what the last call to allocate returned

vars == <<fl, nbump, nfree, nfree_min, held, got>>

Block == 0 .. NTotal - 1
Null == NTotal

Init ==
  /\ fl = <<>>
  /\ nbump = 0
  /\ nfree = NTotal /\ nfree_min = NTotal
  /\ held = {}
  /\ got = Null

-----------------------------------------------------------------------------

Minimum(a, b) == IF a < b THEN a ELSE b

\* Mutant: the bump index is not advanced.
TakeBumpStuck ==
  /\ fl = <<>>
  /\ got' = nbump
  /\ UNCHANGED <<fl, nbump>>

TakeBump ==
  /\ fl = <<>>
  /\ got' = nbump
  /\ nbump' = nbump + 1
  /\ UNCHANGED fl

TakeListed ==
  /\ fl # <<>>
  /\ got' = Head(fl)
  /\ fl' = Tail(fl)
  /\ UNCHANGED nbump

\* Mutant: the margin is left free only after the next allocation.
RefusedOffByOne(margin) == nfree < margin

Refused(margin) == nfree <= margin

Allocate(margin) ==
  /\ ~Refused(margin)
  /\ TakeBump \/ TakeListed
  /\ nfree' = nfree - 1
  /\ nfree_min' = Minimum(nfree_min, nfree - 1)
  /\ held' = held \cup {got'}

AllocateFails(margin) ==
  /\ Refused(margin)
  /\ got' = Null
  /\ UNCHANGED <<fl, nbump, nfree, nfree_min, held>>

\* Mutant: the freed block takes the place of the head of the list.
FreeDropsHead(b) ==
  /\ b \in held
  /\ fl' = <<b>> \o (IF fl = <<>> THEN <<>> ELSE Tail(fl))
  /\ nfree' = nfree + 1
  /\ held' = held \ {b}
  /\ UNCHANGED <<nbump, nfree_min, got>>

\* am_onesize_free of a block its caller holds.
Free(b) ==
  /\ b \in held
  /\ fl' = <<b>> \o fl
  /\ nfree' = nfree + 1
  /\ held' = held \ {b}
  /\ UNCHANGED <<nbump, nfree_min, got>>

\* Mutant: the blocks of the free list are not forgotten.
FreeAllKeepsList ==
  /\ nbump' = 0
  /\ nfree' = NTotal
  /\ held' = {}
  /\ UNCHANGED <<fl, nfree_min, got>>

\* am_onesize_free_all: every block is given back, whoever holds it.
FreeAll ==
  /\ fl' = <<>>
  /\ nbump' = 0
  /\ nfree' = NTotal
  /\ held' = {}
  /\ UNCHANGED <<nfree_min, got>>

Next ==
  \/ \E m \in Margins : Allocate(m) \/ AllocateFails(m)
  \/ \E b \in Block : Free(b)
  \/ FreeAll

Spec == Init /\ [][Next]_vars

-----------------------------------------------------------------------------
(* am_onesize_iterate_over_allocated_unsafe                                *)

Listed == {fl[i] : i \in DOMAIN fl}

\* Mutant: the scan runs over the whole pool and not up to nbump.
AllocatedScanAll == [i \in 0 .. NTotal - 1 |-> i \notin Listed]

\* Which of the blocks below nbump the scan takes for allocated.
AllocatedScan == [i \in 0 .. nbump - 1 |-> i \notin Listed]

\* The blocks that are passed to the callback when at most num are wanted.
Visited(num) ==
  LET taken == {i \in DOMAIN AllocatedScan : AllocatedScan[i]}
      want == IF num < 0 THEN nbump ELSE Minimum(num, nbump)
  IN  {i \in taken : Cardinality({j \in taken : j < i}) < want}

-----------------------------------------------------------------------------
(* Properties                                                              *)

TypeOK ==
  /\ fl \in Seq(Block)
  /\ nbump \in 0 .. NTotal
  /\ nfree \in 0 .. NTotal
  /\ nfree_min \in 0 .. NTotal
  /\ held \subseteq Block
  /\ got \in Block \cup {Null}

\* Every block is in exactly one place: on the free list (once), above the
\* bump index, or with a caller.
Partition ==
  /\ \A i, j \in DOMAIN fl : fl[i] = fl[j] => i = j
  /\ Listed \cap held = {}
  /\ Listed \cup held = 0 .. nbump - 1

\* nfree, which alone decides whether an allocation is served, counts the
\* blocks that the free list and the bump index really have to give.
CountExact == nfree = Len(fl) + (NTotal - nbump)

\* No block is lost or handed out twice, and the count that decides is right.
BlocksAccounted == Partition /\ CountExact

\* A log of the pool shows exactly the blocks in use, or as many as asked for.
LogsAllocated ==
  /\ Visited(-1) = held
  /\ \A n \in 1 .. NTotal :
       /\ Visited(n) \subseteq held
       /\ Cardinality(Visited(n)) = Minimum(n, Cardinality(held))

\* The allocator is a pool of interchangeable blocks: it serves a request exactly
\* when more than `margin` blocks are free, and never with a block in use.
Pool == INSTANCE BlockPool WITH out <- held, last <- got

ImplementsPool == Pool!Spec
=============================================================================
