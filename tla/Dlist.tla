------------------------------- MODULE Dlist -------------------------------
(***************************************************************************)
(* The doubly linked list of libs/dlist/dlist.c, pointer by pointer, with  *)
(* an iterator that may pop what it visits while items are pushed and      *)
(* popped elsewhere.  list is the sequence that the pointers stand for.    *)
(***************************************************************************)
EXTENDS SequencesExt

CONSTANTS Item, Sentinel, Null

VARIABLES next, prev,       \* of each item and of the sentinel
          list,
          cur, forward,     \* the iterator: cur is Null when it is over
          visiting,         \* cur was returned by the last call, and is in the list
          todo, seen        \* items to be visited, and visited ones, of this round

vars == <<next, prev, list, cur, forward, visiting, todo, seen>>
iterator == <<cur, forward, visiting, todo, seen>>

Node == Item \cup {Sentinel}

Init ==
  /\ next = [x \in Node |-> IF x = Sentinel THEN Sentinel ELSE Null]
  /\ prev = next
  /\ list = <<>>
  /\ cur = Null /\ forward = TRUE /\ visiting = FALSE
  /\ todo = {} /\ seen = {}

IsLinked(x) == next[x] # Null /\ prev[x] # Null

\* Position of an item in the list, and that of the sentinel before the first one.
Position(x) == IF x = Sentinel THEN 0 ELSE CHOOSE i \in DOMAIN list : list[i] = x

-----------------------------------------------------------------------------
\* am_dlist_push_after, and am_dlist_push_front for the sentinel.
PushAfter(x, new) ==
  /\ next[x] # Null /\ ~IsLinked(new)
  /\ next' = [next EXCEPT ![new] = next[x], ![x] = new]
  /\ prev' = [[prev EXCEPT ![new] = x] EXCEPT ![next[x]] = new]
  /\ list' = InsertAt(list, Position(x) + 1, new)
  /\ UNCHANGED iterator

\* Mutant: the item before is not told.
PushBeforeOneWay(x, new) ==
  /\ prev[x] # Null /\ ~IsLinked(new)
  /\ next' = [next EXCEPT ![new] = x]
  /\ prev' = [prev EXCEPT ![new] = prev[x], ![x] = new]
  /\ list' = InsertAt(list, IF x = Sentinel THEN Len(list) + 1 ELSE Position(x), new)
  /\ UNCHANGED iterator

\* am_dlist_push_before, and am_dlist_push_back for the sentinel.
PushBefore(x, new) ==
  /\ prev[x] # Null /\ ~IsLinked(new)
  /\ next' = [[next EXCEPT ![new] = x] EXCEPT ![prev[x]] = new]
  /\ prev' = [prev EXCEPT ![new] = prev[x], ![x] = new]
  /\ list' = InsertAt(list, IF x = Sentinel THEN Len(list) + 1 ELSE Position(x), new)
  /\ UNCHANGED iterator

Unlink(x) ==
  /\ prev' = [[prev EXCEPT ![next[x]] = prev[x]] EXCEPT ![x] = Null]
  /\ next' = [[next EXCEPT ![prev[x]] = next[x]] EXCEPT ![x] = Null]
  /\ list' = RemoveAt(list, Position(x))
  /\ todo' = todo \ {x} /\ seen' = seen \ {x}

\* am_dlist_pop, am_dlist_pop_front, am_dlist_pop_back.  The item on which the
\* iterator stands is popped by the iterator only (dlist.h).
Pop(x) ==
  /\ IsLinked(x) /\ x # cur
  /\ Unlink(x)
  /\ UNCHANGED <<cur, forward, visiting>>

\* The ends of the list, by the sentinel's pointers.
PushFront(new) == PushAfter(Sentinel, new)
PushBack(new) == PushBefore(Sentinel, new)
IsEmpty == next[Sentinel] = Sentinel
PopFront == ~IsEmpty /\ Pop(next[Sentinel])
PopBack == ~IsEmpty /\ Pop(prev[Sentinel])

-----------------------------------------------------------------------------
(* What is read *)

NextItem(x) == IF next[x] = Sentinel THEN Null ELSE next[x]
PrevItem(x) == IF prev[x] = Sentinel THEN Null ELSE prev[x]
PeekFront == IF IsEmpty THEN Null ELSE next[Sentinel]
PeekBack == IF IsEmpty THEN Null ELSE prev[Sentinel]

\* The n-th node after the sentinel, along next.
Walk(n) ==
  LET node[i \in 0 .. n] ==
        IF i = 0 THEN Sentinel ELSE IF node[i - 1] = Null THEN Null ELSE next[node[i - 1]]
  IN  node[n]

\* The first item for which is_found is true, that is, which is in found.
Find(found) ==
  LET stop == Min({n \in 1 .. Cardinality(Node) : Walk(n) \in found \cup {Sentinel}})
  IN  IF Walk(stop) = Sentinel THEN Null ELSE Walk(stop)

Owns(x) ==
  \E n \in 1 .. Cardinality(Item) : Walk(n) = x /\ \A i \in 1 .. n : Walk(i) # Sentinel

-----------------------------------------------------------------------------
IteratorInit(dir) ==
  /\ cur' = Sentinel /\ forward' = dir /\ visiting' = FALSE
  /\ todo' = Range(list) /\ seen' = {}
  /\ UNCHANGED <<next, prev, list>>

Following == IF forward THEN next[cur] ELSE prev[cur]

IteratorNext ==
  /\ cur # Null
  /\ cur' = IF Following = Sentinel THEN Null ELSE Following
  /\ visiting' = (Following # Sentinel)
  /\ todo' = todo \ {Following} /\ seen' = seen \cup {Following}
  /\ UNCHANGED <<next, prev, list, forward>>

\* Mutant: the iterator steps on instead of back before it pops.
IteratorPopSkips ==
  /\ visiting
  /\ cur' = IF forward THEN next[cur] ELSE prev[cur]
  /\ visiting' = FALSE
  /\ Unlink(cur)
  /\ UNCHANGED forward

IteratorPop ==
  /\ visiting
  /\ cur' = IF forward THEN prev[cur] ELSE next[cur]
  /\ visiting' = FALSE
  /\ Unlink(cur)
  /\ UNCHANGED forward

Next ==
  \/ \E x \in Node, new \in Item : PushAfter(x, new) \/ PushBefore(x, new)
  \/ \E x \in Item : Pop(x) \/ PushFront(x) \/ PushBack(x)
  \/ PopFront \/ PopBack
  \/ \E dir \in BOOLEAN : IteratorInit(dir)
  \/ IteratorNext \/ IteratorPop

Spec == Init /\ [][Next]_vars

-----------------------------------------------------------------------------
\* Both directions of the pointers are the list, and items outside of it are not
\* linked.
PointersAreList ==
  LET ring == <<Sentinel>> \o list \o <<Sentinel>>
  IN  /\ \A i \in 1 .. Len(ring) - 1 :
           next[ring[i]] = ring[i + 1] /\ prev[ring[i + 1]] = ring[i]
      /\ \A x \in Item : x \in Range(list) \/ (next[x] = Null /\ prev[x] = Null)

\* What is read of the list is what its sequence says: searches, both ends, and
\* both neighbours of an item.
ReadsAgree ==
  LET At(i) == IF i \in DOMAIN list THEN list[i] ELSE Null
      n == Len(list)
  IN  /\ IsEmpty <=> n = 0
      /\ PeekFront = At(1) /\ PeekBack = At(n)
      /\ \A i \in 1 .. n : NextItem(list[i]) = At(i + 1) /\ PrevItem(list[i]) = At(i - 1)
      /\ \A x \in Item : Owns(x) <=> x \in Range(list)
      /\ \A found \in SUBSET Item :
           LET wanted == {i \in 1 .. n : list[i] \in found}
           IN  Find(found) = IF wanted = {} THEN Null ELSE list[Min(wanted)]

\* An iterator visits no item twice, and has visited every item that was in the
\* list all the time when it is over, whatever is pushed and popped meanwhile.
IteratesAll ==
  [][IteratorNext => /\ cur' \notin seen
                     /\ cur' = Null => todo = {}]_vars

=============================================================================
