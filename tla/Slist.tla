------------------------------- MODULE Slist -------------------------------
(***************************************************************************)
(* The singly linked list of libs/slist/slist.c, pointer by pointer: a     *)
(* list with an iterator, and a second list that is appended to it.  Each  *)
(* list is one with a sentinel of its own.  seq holds the sequences that   *)
(* the pointers stand for.                                                 *)
(***************************************************************************)
EXTENDS SequencesExt

CONSTANTS Item, Main, Other, Null     \* Main and Other name lists and sentinels

VARIABLES next, back,       \* of items and sentinels; of lists
          seq,
          cur, before,      \* the iterator over Main, and its field prev
          todo, seen

vars == <<next, back, seq, cur, before, todo, seen>>
iterator == <<cur, before, todo, seen>>

Lists == {Main, Other}
Node == Item \cup Lists

Init ==
  /\ next = [x \in Node |-> IF x \in Lists THEN x ELSE Null]
  /\ back = [l \in Lists |-> l]
  /\ seq = [l \in Lists |-> <<>>]
  /\ cur = Main /\ before = Null
  /\ todo = {} /\ seen = {}

InList(x, l) == x = l \/ x \in Range(seq[l])
IsFree(x) == \A l \in Lists : x \notin Range(seq[l])
\* The items that the iterator works with, until it is over.
Held == IF cur = Main THEN {} ELSE {cur, before}
Position(x, l) == IF x = l THEN 0 ELSE CHOOSE i \in DOMAIN seq[l] : seq[l][i] = x

-----------------------------------------------------------------------------
\* Mutant: the end of the list is not moved.
PushKeepsBack(l, x, new) ==
  /\ InList(x, l) /\ IsFree(new) /\ (cur # Main => x # before)
  /\ next' = [next EXCEPT ![new] = next[x], ![x] = new]
  /\ seq' = [seq EXCEPT ![l] = InsertAt(@, Position(x, l) + 1, new)]
  /\ UNCHANGED <<back, iterator>>

\* am_slist_push_after; push_front with the sentinel and push_back with the last
\* item.  Nothing is pushed between the item that is visited and the one before
\* it: am_slist_iterator_pop would drop it.
PushAfter(l, x, new) ==
  /\ InList(x, l) /\ IsFree(new) /\ (cur # Main => x # before)
  /\ next' = [next EXCEPT ![new] = next[x], ![x] = new]
  /\ back' = [back EXCEPT ![l] = IF @ = x THEN new ELSE @]
  /\ seq' = [seq EXCEPT ![l] = InsertAt(@, Position(x, l) + 1, new)]
  /\ UNCHANGED iterator

\* am_slist_pop_after and am_slist_pop_front: next of the popped item stays.  The
\* two items that the iterator holds are not popped this way.
PopAfter(l, x) ==
  /\ InList(x, l) /\ next[x] # l /\ next[x] \notin Held
  /\ back' = [back EXCEPT ![l] = IF @ = next[x] THEN x ELSE @]
  /\ next' = [next EXCEPT ![x] = next[next[x]]]
  /\ seq' = [seq EXCEPT ![l] = RemoveAt(@, Position(next[x], l))]
  /\ todo' = todo \ {next[x]} /\ seen' = seen \ {next[x]}
  /\ UNCHANGED <<cur, before>>

PushFront(l, new) == PushAfter(l, l, new)
PushBack(l, new) == PushAfter(l, back[l], new)
PopFront(l) == PopAfter(l, l)

\* am_slist_append.
AppendOther ==
  /\ next[Other] # Other
  /\ next' = [next EXCEPT ![back[Main]] = next[Other], ![back[Other]] = Main,
                          ![Other] = Other]
  /\ back' = [l \in Lists |-> IF l = Main THEN back[Other] ELSE Other]
  /\ seq' = [l \in Lists |-> IF l = Main THEN seq[Main] \o seq[Other] ELSE <<>>]
  /\ UNCHANGED iterator

-----------------------------------------------------------------------------
(* What is read *)

IsEmpty(l) == next[l] = l
NextItem(l, x) == IF next[x] = l THEN Null ELSE next[x]
PeekFront(l) == IF IsEmpty(l) THEN Null ELSE next[l]
PeekBack(l) == IF IsEmpty(l) THEN Null ELSE back[l]

\* The n-th node after the sentinel, along next.
Walk(l, n) ==
  LET node[i \in 0 .. n] ==
        IF i = 0 THEN l ELSE IF node[i - 1] = Null THEN Null ELSE next[node[i - 1]]
  IN  node[n]

\* Mutant: the search starts after the first item.
FindAfterFirst(l, found) ==
  LET stop == Min({n \in 2 .. Cardinality(Node) + 1 : Walk(l, n) \in found \cup {l}})
  IN  IF Walk(l, stop) = l THEN Null ELSE Walk(l, stop)

\* The first item for which is_found is true, that is, which is in found.
Find(l, found) ==
  LET stop == Min({n \in 1 .. Cardinality(Node) : Walk(l, n) \in found \cup {l}})
  IN  IF Walk(l, stop) = l THEN Null ELSE Walk(l, stop)

Owns(l, x) == \E n \in 1 .. Cardinality(Item) : Walk(l, n) = x /\ \A i \in 1 .. n : Walk(l, i) # l

-----------------------------------------------------------------------------
IteratorInit ==
  /\ cur' = Main /\ before' = Null
  /\ todo' = Range(seq[Main]) /\ seen' = {}
  /\ UNCHANGED <<next, back, seq>>

\* The last call of a round returns the sentinel, that is NULL.
IteratorNext ==
  /\ ~(cur = Main /\ before # Null)
  /\ before' = cur /\ cur' = next[cur]
  /\ todo' = todo \ {next[cur]} /\ seen' = seen \cup {next[cur]}
  /\ UNCHANGED <<next, back, seq>>

IteratorPop ==
  /\ before # Null /\ cur # Main
  /\ next' = [next EXCEPT ![before] = next[cur], ![cur] = Null]
  /\ back' = [back EXCEPT ![Main] = IF @ = cur THEN before ELSE @]
  /\ seq' = [seq EXCEPT ![Main] = RemoveAt(@, Position(cur, Main))]
  /\ cur' = before /\ before' = Null
  /\ todo' = todo \ {cur} /\ seen' = seen \ {cur}

Next ==
  \/ \E l \in Lists, x \in Node, new \in Item : PushAfter(l, x, new)
  \/ \E l \in Lists, x \in Node : PopAfter(l, x)
  \/ \E l \in Lists : PopFront(l) \/ \E new \in Item : PushFront(l, new) \/ PushBack(l, new)
  \/ AppendOther \/ IteratorInit \/ IteratorNext \/ IteratorPop

Spec == Init /\ [][Next]_vars

-----------------------------------------------------------------------------
\* The pointers of each list are its sequence, in a circle through its sentinel,
\* and back is the last item.
PointersAreLists ==
  \A l \in Lists :
    LET ring == <<l>> \o seq[l] \o <<l>>
    IN  /\ \A i \in 1 .. Len(ring) - 1 : next[ring[i]] = ring[i + 1]
        /\ back[l] = ring[Len(ring) - 1]

\* What is read of a list is what its sequence says: searches and both ends.
ReadsAgree ==
  \A l \in Lists :
    /\ IsEmpty(l) <=> seq[l] = <<>>
    /\ PeekFront(l) = (IF seq[l] = <<>> THEN Null ELSE Head(seq[l]))
    /\ PeekBack(l) = (IF seq[l] = <<>> THEN Null ELSE Last(seq[l]))
    /\ \A x \in Item : Owns(l, x) <=> x \in Range(seq[l])
    /\ \A i \in DOMAIN seq[l] :
         NextItem(l, seq[l][i]) = IF i = Len(seq[l]) THEN Null ELSE seq[l][i + 1]
    /\ \A found \in SUBSET Item :
         LET wanted == {i \in DOMAIN seq[l] : seq[l][i] \in found}
         IN  Find(l, found) = IF wanted = {} THEN Null ELSE seq[l][Min(wanted)]

\* An iterator visits no item twice, and has visited every item that was in the
\* list all the time when it is over, although items are pushed, popped and
\* appended meanwhile.
IteratesAll ==
  [][IteratorNext => /\ cur' \notin seen
                     /\ cur' = Main => todo = {}]_vars

=============================================================================
