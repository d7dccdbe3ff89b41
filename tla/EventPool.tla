----------------------------- MODULE EventPool -----------------------------
(***************************************************************************)
(* The event allocator (libs/event/event_pool.c, libs/event/event.c): a    *)
(* few pools of blocks, each with a larger block size than the one before, *)
(* and events that are allocated by size, shared by reference counting and *)
(* given back to the pool whose index they carry.  A pool is used as what  *)
(* module Onesize shows it to be, a number of interchangeable blocks.      *)
(***************************************************************************)
EXTENDS Integers, Sequences, FiniteSets

CONSTANTS Event,        \* the pointers of the program's events
          Sizes,        \* block sizes, and sizes of events
          Blocks,       \* blocks of a pool
          MaxPools,     \* AM_EVENT_POOLS_NUM_MAX
          RefMax,       \* AM_EVENT_REF_COUNTER_MAX
          Margins

VARIABLES block_size,    \* of each pool; its length is npools
          nfree,         \* of each pool
          event          \* pool_index_plus_one, ref_counter, and the size asked for

vars == <<block_size, nfree, event>>

npools == Len(block_size)

NotAllocated == [pool_index_plus_one |-> 0, ref_counter |-> 0, size |-> 0]

Init ==
  /\ block_size = <<>> /\ nfree = <<>>
  /\ event = [e \in Event |-> NotAllocated]

\* am_event_alloc_add_pool asserts the order of the block sizes.
AddPool(s) ==
  /\ npools < MaxPools
  /\ npools > 0 => s > block_size[npools]
  /\ block_size' = Append(block_size, s) /\ nfree' = Append(nfree, Blocks)
  /\ UNCHANGED event

\* Mutant: the upper half of the search starts at the middle.
SearchFromMiddle(size) ==
  LET f[left, right \in 0 .. MaxPools] ==
        LET mid == (left + right) \div 2
        IN  IF left + 1 >= right THEN left
            ELSE IF size > block_size[mid + 1] THEN f[mid, right]
            ELSE IF size < block_size[mid + 1] THEN f[left, mid]
            ELSE mid
  IN  f[0, npools - 1]

\* The binary search of am_event_allocate_x; indices count from zero.
Search(size) ==
  LET f[left, right \in 0 .. MaxPools] ==
        LET mid == (left + right) \div 2
        IN  IF left >= right THEN left
            ELSE IF size > block_size[mid + 1] THEN f[mid + 1, right]
            ELSE IF size < block_size[mid + 1] THEN f[left, mid]
            ELSE mid
  IN  f[0, npools - 1]

\* am_event_allocate_x.
Allocate(e, size, margin) ==
  /\ event[e] = NotAllocated
  /\ npools > 0 /\ size <= block_size[npools]
  /\ LET i == Search(size) + 1
     IN  /\ nfree[i] > margin
         /\ nfree' = [nfree EXCEPT ![i] = @ - 1]
         /\ event' = [event EXCEPT ![e] =
                        [pool_index_plus_one |-> i, ref_counter |-> 0, size |-> size]]
  /\ UNCHANGED block_size

IsStatic(e) == event[e].pool_index_plus_one = 0

\* am_event_dup_x: the caller copies as much of an event as there is of it.
Dup(e, copy, size, margin) ==
  ~IsStatic(e) /\ size <= event[e].size /\ Allocate(copy, size, margin)

IncRefCnt(e) ==
  /\ ~IsStatic(e) /\ event[e].ref_counter < RefMax
  /\ event' = [event EXCEPT ![e].ref_counter = @ + 1]
  /\ UNCHANGED <<block_size, nfree>>

\* Mutant: the block goes to the pool that fits its size now.
FreeBySize(e) ==
  /\ ~IsStatic(e)
  /\ IF event[e].ref_counter > 1
       THEN event' = [event EXCEPT ![e].ref_counter = @ - 1] /\ UNCHANGED nfree
       ELSE /\ nfree' = [nfree EXCEPT ![npools] = @ + 1]
            /\ event' = [event EXCEPT ![e] = NotAllocated]
  /\ UNCHANGED block_size

\* am_event_free_unsafe.
Free(e) ==
  /\ ~IsStatic(e)
  /\ IF event[e].ref_counter > 1
       THEN event' = [event EXCEPT ![e].ref_counter = @ - 1] /\ UNCHANGED nfree
       ELSE /\ nfree' = [nfree EXCEPT ![event[e].pool_index_plus_one] = @ + 1]
            /\ event' = [event EXCEPT ![e] = NotAllocated]
  /\ UNCHANGED block_size

Next ==
  \/ \E s \in Sizes : AddPool(s)
  \/ \E e \in Event, s \in Sizes, m \in Margins : Allocate(e, s, m)
  \/ \E e, copy \in Event, s \in Sizes, m \in Margins : Dup(e, copy, s, m)
  \/ \E e \in Event : IncRefCnt(e) \/ Free(e)

Spec == Init /\ [][Next]_vars

-----------------------------------------------------------------------------
\* Every event lies in the pool with the smallest blocks it fits in, also after
\* pools were added, and every block is free or holds one event: none changes
\* pools, whatever the sizes of the events that are allocated and freed.
PoolsExact ==
  /\ \A e \in Event : ~IsStatic(e) =>
       LET p == event[e].pool_index_plus_one
       IN  /\ event[e].size <= block_size[p]
           /\ \A q \in 1 .. p - 1 : event[e].size > block_size[q]
  /\ \A p \in 1 .. npools :
       nfree[p] + Cardinality({e \in Event : event[e].pool_index_plus_one = p}) = Blocks

=============================================================================
