--------------------------- MODULE EventQueueProofs ---------------------------
(***************************************************************************)
(* Theorems about module EventQueue, for any threads, events, capacity and *)
(* margins: the variables keep their types, the fields of the ring agree,  *)
(* and the queue implements the bounded double-ended queue EventQueueAbs.  *)
(***************************************************************************)
EXTENDS EventQueue, SequenceTheorems, FiniteSetTheorems, TLAPS

-----------------------------------------------------------------------------
(* The operators on the heap keep its type.                                *)

LEMMA HeapInitType == HeapInit \in HeapType
BY RefMaxAssumption DEF HeapInit, HeapType

LEMMA AllocatedType ==
  ASSUME NEW h \in HeapType, NEW e \in Dynamic
  PROVE  Allocated(h, e) \in HeapType
BY RefMaxAssumption DEF HeapType, Allocated

LEMMA CountedType ==
  ASSUME NEW h \in HeapType, NEW e, CanCount(h, e)
  PROVE  Counted(h, e) \in HeapType
<1>1. CASE IsStatic(e) \/ e \notin h.live
  BY <1>1 DEF HeapType, Counted
<1>2. CASE ~IsStatic(e) /\ e \in h.live
  <2>1. e \in Dynamic /\ h.ref[e] + 1 \in 0 .. RefMax
    BY <1>2, RefMaxAssumption DEF IsStatic, CanCount, HeapType
  <2> QED
    BY <1>2, <2>1 DEF HeapType, Counted
<1> QED
  BY <1>1, <1>2

LEMMA FreedType ==
  ASSUME NEW h \in HeapType, NEW e
  PROVE  Freed(h, e) \in HeapType
<1>1. CASE IsStatic(e) \/ e \notin h.live
  BY <1>1 DEF HeapType, Freed
<1>2. CASE ~IsStatic(e) /\ e \in h.live /\ h.ref[e] > 1
  <2>1. e \in Dynamic /\ h.ref[e] - 1 \in 0 .. RefMax
    BY <1>2, RefMaxAssumption DEF IsStatic, HeapType
  <2> QED
    BY <1>2, <2>1 DEF HeapType, Freed
<1>3. CASE ~IsStatic(e) /\ e \in h.live /\ ~(h.ref[e] > 1)
  BY <1>3 DEF HeapType, Freed
<1> QED
  BY <1>1, <1>2, <1>3

-----------------------------------------------------------------------------
(* Counting: how often a value occurs in a sequence or as the value of a   *)
(* function, before and after a step.                                      *)

Occurrences(s, x) == Cardinality({i \in 1 .. Len(s) : s[i] = x})

CountOf(f, T, x) == Cardinality({t \in T : f[t] = x})

\* What a place that holds a adds to the count of b.
One(a, b) == IF a = b THEN 1 ELSE 0

LEMMA OccurrencesType ==
  ASSUME NEW S, NEW s \in Seq(S), NEW x
  PROVE  /\ IsFiniteSet({i \in 1 .. Len(s) : s[i] = x})
         /\ Occurrences(s, x) \in Nat
<1>1. IsFiniteSet(1 .. Len(s))
  BY FS_Interval
<1>2. IsFiniteSet({i \in 1 .. Len(s) : s[i] = x})
  BY <1>1, FS_Subset
<1> QED
  BY <1>2, FS_CardinalityType DEF Occurrences

LEMMA OccurrencesEmpty == ASSUME NEW x PROVE Occurrences(<<>>, x) = 0
<1>1. {i \in 1 .. Len(<<>>) : <<>>[i] = x} = {}
  OBVIOUS
<1> QED
  BY <1>1, FS_EmptySet DEF Occurrences

LEMMA OccurrencesAppend ==
  ASSUME NEW S, NEW s \in Seq(S), NEW e \in S, NEW x
  PROVE  Occurrences(Append(s, e), x) = Occurrences(s, x) + One(e, x)
<1> DEFINE I == {i \in 1 .. Len(s) : s[i] = x}
           J == {i \in 1 .. Len(Append(s, e)) : Append(s, e)[i] = x}
           n == Len(s) + 1
<1>1. IsFiniteSet(I) /\ Cardinality(I) \in Nat /\ n \notin I
  <2>1. n \notin 1 .. Len(s)
    OBVIOUS
  <2> QED
    BY <2>1, OccurrencesType DEF Occurrences
<1>2. CASE e = x
  <2>1. J = I \cup {n}
    BY <1>2
  <2>2. Cardinality(J) = Cardinality(I) + 1
    BY <1>1, <2>1, FS_AddElement
  <2> QED
    BY <1>2, <2>2 DEF Occurrences, One
<1>3. CASE e # x
  <2>1. J = I
    BY <1>3
  <2>2. Cardinality(J) = Cardinality(I) + One(e, x)
    <3> HIDE DEF I, J
    <3> QED
      BY <1>1, <1>3, <2>1 DEF One
  <2> QED
    BY <2>2 DEF Occurrences
<1> QED
  BY <1>2, <1>3

LEMMA OccurrencesPrepend ==
  ASSUME NEW S, NEW s \in Seq(S), NEW e \in S, NEW x
  PROVE  Occurrences(<<e>> \o s, x) = Occurrences(s, x) + One(e, x)
<1> DEFINE p == <<e>> \o s
           I == {i \in 1 .. Len(s) : s[i] = x}
           K == {i \in 2 .. Len(s) + 1 : p[i] = x}
           J == {i \in 1 .. Len(p) : p[i] = x}
           up == [i \in I |-> i + 1]
<1>1. IsFiniteSet(I) /\ Cardinality(I) \in Nat
  BY OccurrencesType DEF Occurrences
<1>2. Len(p) = Len(s) + 1 /\ p[1] = e /\ \A i \in 1 .. Len(s) : p[i + 1] = s[i]
  OBVIOUS
<1>3. up \in Bijection(I, K)
  <2> HIDE DEF p
  <2>1. \A i \in I : up[i] \in K
    <3> SUFFICES ASSUME NEW i \in I PROVE up[i] \in K
      OBVIOUS
    <3>1. i \in 1 .. Len(s) /\ s[i] = x /\ up[i] = i + 1
      OBVIOUS
    <3>2. i + 1 \in 2 .. Len(s) + 1
      BY <3>1
    <3>3. p[i + 1] = x
      BY <1>2, <3>1
    <3> QED
      BY <3>1, <3>2, <3>3
  <2>2. \A i, j \in I : up[i] = up[j] => i = j
    OBVIOUS
  <2>3. \A k \in K : \E i \in I : up[i] = k
    <3> SUFFICES ASSUME NEW k \in K PROVE \E i \in I : up[i] = k
      OBVIOUS
    <3>1. k - 1 \in 1 .. Len(s) /\ p[(k - 1) + 1] = p[k]
      OBVIOUS
    <3>2. k - 1 \in I
      BY <1>2, <3>1
    <3> QED
      BY <3>2
  <2> QED
    BY <2>1, <2>2, <2>3 DEF Bijection, Injection, Surjection, IsInjective
<1>4. IsFiniteSet(K) /\ Cardinality(K) = Cardinality(I)
  BY <1>1, <1>3, FS_Bijection DEF ExistsBijection
<1>5. 1 \notin K
  OBVIOUS
<1>6. CASE e = x
  <2>1. J = K \cup {1}
    BY <1>2, <1>6
  <2>2. Cardinality(J) = Cardinality(K) + 1
    BY <1>4, <1>5, <2>1, FS_AddElement
  <2> QED
    BY <1>4, <1>6, <2>2 DEF Occurrences, One
<1>7. CASE e # x
  <2>1. J = K
    BY <1>2, <1>7
  <2>2. Cardinality(J) = Cardinality(I) + One(e, x)
    <3> HIDE DEF I, J, K
    <3> QED
      BY <1>1, <1>4, <1>7, <2>1 DEF One
  <2> QED
    BY <2>2 DEF Occurrences
<1> QED
  BY <1>6, <1>7

LEMMA OccurrencesTail ==
  ASSUME NEW S, NEW s \in Seq(S), s # <<>>, NEW x
  PROVE  Occurrences(s, x) = Occurrences(Tail(s), x) + One(s[1], x)
<1>1. Tail(s) \in Seq(S) /\ s[1] \in S
  OBVIOUS
<1>2. s = <<s[1]>> \o Tail(s)
  OBVIOUS
<1> QED
  <2> DEFINE r == Tail(s)
             e == s[1]
  <2>1. r \in Seq(S) /\ e \in S /\ s = <<e>> \o r
    BY <1>1, <1>2
  <2> HIDE DEF r, e
  <2>2. Occurrences(<<e>> \o r, x) = Occurrences(r, x) + One(e, x)
    BY <2>1, OccurrencesPrepend
  <2> QED
    BY <2>1, <2>2 DEF r, e

LEMMA CountOfType ==
  ASSUME NEW T, IsFiniteSet(T), NEW f, NEW x
  PROVE  /\ IsFiniteSet({t \in T : f[t] = x})
         /\ CountOf(f, T, x) \in Nat
<1>1. {t \in T : f[t] = x} \in SUBSET T
  OBVIOUS
<1>2. IsFiniteSet({t \in T : f[t] = x})
  BY <1>1, FS_Subset
<1> QED
  BY <1>2, FS_CardinalityType DEF CountOf

LEMMA CountOfPositive ==
  ASSUME NEW T, IsFiniteSet(T), NEW f, NEW x
  PROVE  CountOf(f, T, x) > 0 <=> \E t \in T : f[t] = x
<1> DEFINE U == {t \in T : f[t] = x}
<1>1. IsFiniteSet(U) /\ Cardinality(U) \in Nat
  <2>1. U \in SUBSET T
    OBVIOUS
  <2> QED
    BY <2>1, FS_Subset, FS_CardinalityType
<1>2. Cardinality(U) = 0 <=> U = {}
  BY <1>1, FS_EmptySet
<1>3. U # {} <=> \E t \in T : f[t] = x
  OBVIOUS
<1> QED
  BY <1>1, <1>2, <1>3 DEF CountOf

\* Two functions that differ at most in t.
SameBut(f, g, T, t) == \A u \in T \ {t} : g[u] = f[u]

\* A value is counted for the place that takes it and no longer for the place
\* that gives it up.
LEMMA CountOfMoved ==
  ASSUME NEW T, IsFiniteSet(T), NEW f, NEW g, NEW t \in T,
         SameBut(f, g, T, t), NEW x
  PROVE  CountOf(g, T, x) = CountOf(f, T, x) - One(f[t], x) + One(g[t], x)
<1> DEFINE F == {u \in T : f[u] = x}
           G == {u \in T : g[u] = x}
           R == {u \in T \ {t} : f[u] = x}
<1>1. IsFiniteSet(F) /\ IsFiniteSet(R) /\ Cardinality(R) \in Nat /\ t \notin R
  <2>1. F \in SUBSET T /\ IsFiniteSet(F)
    BY FS_Subset
  <2>2. R \in SUBSET F
    OBVIOUS
  <2> QED
    BY <2>1, <2>2, FS_Subset, FS_CardinalityType
<1>2. Cardinality(F) = Cardinality(R) + One(f[t], x)
  <2>1. CASE f[t] = x
    <3>1. F = R \cup {t}
      BY <2>1
    <3> QED
      BY <1>1, <2>1, <3>1, FS_AddElement DEF One
  <2>2. CASE f[t] # x
    <3>1. F = R
      BY <2>2
    <3> QED
      BY <1>1, <2>2, <3>1 DEF One
  <2> QED
    BY <2>1, <2>2
<1>3. Cardinality(G) = Cardinality(R) + One(g[t], x)
  <2>1. CASE g[t] = x
    <3>1. G = R \cup {t}
      BY <2>1 DEF SameBut
    <3> QED
      BY <1>1, <2>1, <3>1, FS_AddElement DEF One
  <2>2. CASE g[t] # x
    <3>1. G = R
      BY <2>2 DEF SameBut
    <3> HIDE DEF G, R
    <3> QED
      BY <1>1, <2>2, <3>1 DEF One
  <2> QED
    BY <2>1, <2>2
<1> QED
  BY <1>1, <1>2, <1>3 DEF CountOf, One

-----------------------------------------------------------------------------
(* Heaps h whose counters agree with the holders H[e] of each dynamic      *)
(* event e.                                                                *)

\* The counters are right, and what is not allocated is not held.
Balanced(h, H) ==
  /\ \A e \in h.live : h.ref[e] = H[e]
  /\ \A e \in Dynamic \ h.live : H[e] = 0

\* One more holder of an allocated event, and one more reference.
LEMMA CountedBalanced ==
  ASSUME NEW h \in HeapType, NEW H \in [Dynamic -> Nat], NEW H2,
         NEW e \in h.live, CanCount(h, e), Balanced(h, H),
         \A x \in Dynamic : H2[x] = H[x] + One(e, x)
  PROVE  /\ Balanced(Counted(h, e), H2)
         /\ Counted(h, e).live = h.live
         /\ Counted(h, e).corrupt = h.corrupt
<1>1. e \in Dynamic /\ h.live \subseteq Dynamic /\ h.ref \in [Dynamic -> 0 .. RefMax]
  BY DEF HeapType
<1>2. Counted(h, e) = [h EXCEPT !.ref[e] = @ + 1]
  BY <1>1 DEF Counted, IsStatic
<1>3. Counted(h, e).live = h.live /\ Counted(h, e).corrupt = h.corrupt
  BY <1>2 DEF HeapType
<1>4. Counted(h, e).ref = [h.ref EXCEPT ![e] = @ + 1]
  BY <1>2 DEF HeapType
<1>5. \A x \in h.live : Counted(h, e).ref[x] = H2[x]
  <2> SUFFICES ASSUME NEW x \in h.live PROVE Counted(h, e).ref[x] = H2[x]
    OBVIOUS
  <2>1. h.ref[x] = H[x] /\ H2[x] = H[x] + One(e, x)
    BY <1>1 DEF Balanced
  <2>2. Counted(h, e).ref[x] = h.ref[x] + One(e, x)
    BY <1>1, <1>4 DEF One
  <2> QED
    BY <2>1, <2>2
<1>6. ASSUME NEW x \in Dynamic \ h.live PROVE H2[x] = 0
  <2>1. H[x] = 0 /\ H2[x] = H[x] + One(e, x) /\ One(e, x) = 0
    BY <1>6 DEF Balanced, One
  <2> QED
    BY <2>1
<1> QED
  BY <1>3, <1>5, <1>6 DEF Balanced

\* One holder less, and one reference less: the last one recycles the event.
LEMMA FreedBalanced ==
  ASSUME NEW h \in HeapType, NEW H \in [Dynamic -> Nat], NEW H2,
         NEW e \in Dynamic, Balanced(h, H), H[e] > 0,
         \A x \in Dynamic : H2[x] = H[x] - One(e, x)
  PROVE  /\ Balanced(Freed(h, e), H2)
         /\ Freed(h, e).live = IF H2[e] = 0 THEN h.live \ {e} ELSE h.live
         /\ Freed(h, e).corrupt = h.corrupt
<1>1. h.live \subseteq Dynamic /\ h.ref \in [Dynamic -> 0 .. RefMax]
  BY DEF HeapType
<1>2. e \in h.live /\ h.ref[e] = H[e] /\ H2[e] = H[e] - 1 /\ H[e] \in Nat
  BY DEF Balanced, One
<1>3. CASE h.ref[e] > 1
  <2>1. Freed(h, e) = [h EXCEPT !.ref[e] = @ - 1]
    BY <1>2, <1>3 DEF Freed, IsStatic
  <2>2. /\ Freed(h, e).live = h.live /\ Freed(h, e).corrupt = h.corrupt
        /\ Freed(h, e).ref = [h.ref EXCEPT ![e] = @ - 1]
    BY <2>1 DEF HeapType
  <2>3. H2[e] # 0
    BY <1>2, <1>3
  <2>4. \A x \in h.live : Freed(h, e).ref[x] = H2[x]
    <3> SUFFICES ASSUME NEW x \in h.live PROVE Freed(h, e).ref[x] = H2[x]
      OBVIOUS
    <3>1. h.ref[x] = H[x] /\ H2[x] = H[x] - One(e, x)
      BY <1>1 DEF Balanced
    <3>2. Freed(h, e).ref[x] = h.ref[x] - One(e, x)
      BY <1>1, <2>2 DEF One
    <3> QED
      BY <3>1, <3>2
  <2>5. ASSUME NEW x \in Dynamic \ h.live PROVE H2[x] = 0
    <3>1. H[x] = 0 /\ H2[x] = H[x] - One(e, x) /\ One(e, x) = 0
      BY <1>2, <2>5 DEF Balanced, One
    <3> QED
      BY <3>1
  <2> QED
    BY <2>2, <2>3, <2>4, <2>5 DEF Balanced
<1>4. CASE ~(h.ref[e] > 1)
  <2>1. Freed(h, e) = [h EXCEPT !.live = @ \ {e}]
    BY <1>2, <1>4 DEF Freed, IsStatic
  <2>2. /\ Freed(h, e).live = h.live \ {e} /\ Freed(h, e).corrupt = h.corrupt
        /\ Freed(h, e).ref = h.ref
    BY <2>1 DEF HeapType
  <2>3. H2[e] = 0
    BY <1>2, <1>4
  <2>4. ASSUME NEW x \in Dynamic, x # e PROVE H2[x] = H[x] /\ H[x] \in Nat
    <3>1. H2[x] = H[x] - One(e, x) /\ One(e, x) = 0 /\ H[x] \in Nat
      BY <2>4 DEF One
    <3> QED
      BY <3>1
  <2>5. \A x \in h.live \ {e} : h.ref[x] = H2[x]
    BY <1>1, <2>4 DEF Balanced
  <2>6. \A x \in Dynamic \ (h.live \ {e}) : H2[x] = 0
    BY <2>3, <2>4 DEF Balanced
  <2> QED
    BY <2>2, <2>3, <2>5, <2>6 DEF Balanced
<1> QED
  BY <1>3, <1>4

\* Freeing an event that nobody holds recycles it.
LEMMA FreedUnheld ==
  ASSUME NEW h \in HeapType, NEW H \in [Dynamic -> Nat],
         NEW e \in h.live, Balanced(h, H), H[e] = 0
  PROVE  /\ Balanced(Freed(h, e), H)
         /\ Freed(h, e).live = h.live \ {e}
         /\ Freed(h, e).corrupt = h.corrupt
<1>1. e \in Dynamic /\ h.ref[e] = 0
  BY DEF Balanced, HeapType
<1>2. Freed(h, e) = [h EXCEPT !.live = @ \ {e}]
  <2>1. ~(0 > 1)
    OBVIOUS
  <2> QED
    BY <1>1, <2>1 DEF Freed, IsStatic
<1>3. /\ Freed(h, e).live = h.live \ {e} /\ Freed(h, e).corrupt = h.corrupt
      /\ Freed(h, e).ref = h.ref
  BY <1>2 DEF HeapType
<1> QED
  BY <1>3 DEF Balanced

-----------------------------------------------------------------------------
(* The ring buffer operators of module EventRing implement the operations  *)
(* of a sequence, for every capacity.                                      *)

\* A queue value in the type of its C fields whose fields agree.
IsRing(q, C, Null, E) ==
  q \in QueueType(C, E \cup {Null}) /\ WellFormed(q, E)

\* The index of a ring of size C wraps around at most once.
LEMMA ModOnce ==
  ASSUME NEW C \in Nat \ {0}, NEW x \in Nat, x < 2 * C
  PROVE  Wrap(x, C) = IF x < C THEN x ELSE x - C
BY DEF Wrap

\* Two offsets below C from the same index meet only if they are equal.
LEMMA ModInjective ==
  ASSUME NEW C \in Nat \ {0}, NEW r \in 0 .. C - 1,
         NEW i \in 0 .. C - 1, NEW j \in 0 .. C - 1,
         Wrap(r + i, C) = Wrap(r + j, C)
  PROVE  i = j
BY ModOnce

\* An index and an offset wrap to an index.
LEMMA WrapRange ==
  ASSUME NEW C \in Nat \ {0}, NEW r \in 0 .. C - 1, NEW k \in 0 .. C - 1
  PROVE  Wrap(r + k, C) \in 0 .. C - 1
BY DEF Wrap

\* An offset below C that leads back to the same index is zero.
LEMMA ModFixed ==
  ASSUME NEW C \in Nat \ {0}, NEW r \in 0 .. C - 1, NEW k \in 0 .. C
  PROVE  Wrap(r + k, C) = r <=> k = 0 \/ k = C
BY ModOnce

\* What a ring is, field by field.
LEMMA RingFields ==
  ASSUME NEW C \in Nat \ {0}, NEW Null, NEW E, NEW q,
         IsRing(q, C, Null, E)
  PROVE  /\ q.events \in [0 .. C - 1 -> E \cup {Null}]
         /\ q.capacity = C
         /\ q.rd \in 0 .. C - 1
         /\ q.wr \in 0 .. C - 1
         /\ q.full \in BOOLEAN
         /\ q.nfree \in 0 .. C
         /\ q.nfree_min \in 0 .. C
         /\ NBusy(q) \in 0 .. C
         /\ NBusy(q) = C - q.nfree
         /\ q.wr = Wrap(q.rd + NBusy(q), C)
         /\ q.full <=> NBusy(q) = C
         /\ q.nfree_min <= q.nfree
         /\ \A i \in 1 .. NBusy(q) : Contents(q)[i] \in E
         /\ Contents(q) = [i \in 1 .. NBusy(q) |-> q.events[Wrap(q.rd + (i - 1), C)]]
<1>1. q \in QueueType(C, E \cup {Null}) /\ WellFormed(q, E)
  BY DEF IsRing
<1>2. /\ q.events \in [0 .. C - 1 -> E \cup {Null}]
      /\ q.capacity = C
      /\ q.rd \in 0 .. C - 1
      /\ q.wr \in 0 .. C - 1
      /\ q.full \in BOOLEAN
      /\ q.nfree \in 0 .. C
      /\ q.nfree_min \in 0 .. C
  BY <1>1 DEF QueueType
<1>3. NBusy(q) \in 0 .. C /\ NBusy(q) = C - q.nfree
  BY <1>2 DEF NBusy
<1>4. /\ q.wr = Wrap(q.rd + NBusy(q), C)
      /\ q.full <=> NBusy(q) = C
      /\ q.nfree_min <= q.nfree
      /\ \A i \in 1 .. NBusy(q) : Contents(q)[i] \in E
  BY <1>1, <1>2, <1>3 DEF WellFormed
<1>5. Contents(q) = [i \in 1 .. NBusy(q) |-> q.events[Wrap(q.rd + (i - 1), C)]]
  BY <1>2 DEF Contents
<1> QED
  BY <1>2, <1>3, <1>4, <1>5

\* An initialised queue is a well formed empty ring.
LEMMA InitRing ==
  ASSUME NEW C \in Nat \ {0}, NEW Null, NEW E
  PROVE  /\ IsRing(QueueInit(C, Null), C, Null, E)
         /\ Contents(QueueInit(C, Null)) = <<>>
<1> DEFINE q == QueueInit(C, Null)
<1>1. q \in QueueType(C, E \cup {Null})
  BY DEF QueueType, QueueInit
<1>2. NBusy(q) = 0 /\ q.capacity = C /\ q.rd = 0 /\ q.wr = 0 /\ ~q.full /\ q.nfree = C
      /\ q.nfree_min = C
  BY DEF NBusy, QueueInit
<1>3. Wrap(0 + 0, C) = 0
  BY ModOnce
<1>4. WellFormed(q, E)
  BY <1>2, <1>3 DEF WellFormed
<1>5. Contents(q) = <<>>
  BY <1>2 DEF Contents
<1> QED
  BY <1>1, <1>4, <1>5 DEF IsRing

\* The queue is empty exactly when its sequence is, whichever field is read.
LEMMA EmptyRing ==
  ASSUME NEW C \in Nat \ {0}, NEW Null, NEW E, NEW q,
         IsRing(q, C, Null, E)
  PROVE  /\ IsEmpty(q) <=> NBusy(q) = 0
         /\ WasEmpty(q) <=> NBusy(q) = 0
         /\ Contents(q) = <<>> <=> NBusy(q) = 0
         /\ Contents(q) \in Seq(E)
         /\ Len(Contents(q)) = NBusy(q)
<1>1. NBusy(q) = 0 => IsEmpty(q)
  <2> SUFFICES ASSUME NBusy(q) = 0 PROVE IsEmpty(q)
    OBVIOUS
  <2>1. q.rd \in Nat /\ q.rd < C /\ q.wr = Wrap(q.rd + 0, C) /\ ~q.full
    BY RingFields
  <2>2. q.wr = q.rd
    BY <2>1, ModOnce
  <2> QED
    BY <2>1, <2>2 DEF IsEmpty
<1>2. IsEmpty(q) => NBusy(q) = 0
  <2> SUFFICES ASSUME IsEmpty(q) PROVE NBusy(q) = 0
    OBVIOUS
  <2>1. q.rd = q.wr /\ ~q.full
    BY DEF IsEmpty
  <2>2. q.rd \in 0 .. C - 1 /\ NBusy(q) \in 0 .. C - 1 /\ q.wr = Wrap(q.rd + NBusy(q), C)
    BY <2>1, RingFields
  <2> QED
    BY <2>1, <2>2, ModFixed
<1>3. WasEmpty(q) <=> NBusy(q) = 0
  <2>1. q.capacity = C /\ NBusy(q) = C - q.nfree /\ q.nfree \in 0 .. C
    BY RingFields
  <2> QED
    BY <2>1 DEF WasEmpty
<1>4. Contents(q) \in Seq(E) /\ Len(Contents(q)) = NBusy(q)
  <2>1. NBusy(q) \in Nat /\ DOMAIN Contents(q) = 1 .. NBusy(q)
        /\ Contents(q) = [i \in 1 .. NBusy(q) |-> Contents(q)[i]]
        /\ \A i \in 1 .. NBusy(q) : Contents(q)[i] \in E
    BY RingFields
  <2> QED
    BY <2>1
<1>5. Contents(q) = <<>> <=> NBusy(q) = 0
  BY <1>4, RingFields
<1> QED
  BY <1>1, <1>2, <1>3, <1>4, <1>5

\* Stepping an index and then adding k is adding k + 1.
LEMMA ModStep ==
  ASSUME NEW C \in Nat \ {0}, NEW r \in 0 .. C - 1, NEW k \in 0 .. C - 1
  PROVE  /\ Wrap(r + 1, C) \in 0 .. C - 1
         /\ Wrap(Wrap(r + 1, C) + k, C) = Wrap(r + (k + 1), C)
<1>1. Wrap(r + 1, C) = IF r + 1 < C THEN r + 1 ELSE r + 1 - C
  <2>1. r + 1 \in Nat /\ r + 1 < 2 * C
    OBVIOUS
  <2> QED
    BY <2>1, ModOnce
<1>2. CASE r + 1 < C
  BY <1>1, <1>2
<1>3. CASE ~(r + 1 < C)
  <2>1. r = C - 1 /\ Wrap(r + 1, C) = 0
    BY <1>1, <1>3
  <2>2. Wrap(0 + k, C) = k
    BY ModOnce
  <2>3. Wrap(r + (k + 1), C) = k
    <3>1. r + (k + 1) \in Nat /\ r + (k + 1) < 2 * C /\ ~(r + (k + 1) < C)
      BY <2>1
    <3>2. r + (k + 1) - C = k
      BY <2>1
    <3> QED
      BY <3>1, <3>2, ModOnce
  <2> QED
    BY <2>1, <2>2, <2>3
<1> QED
  BY <1>2, <1>3

\* Adding k and then stepping is adding k + 1.
LEMMA ModStepAfter ==
  ASSUME NEW C \in Nat \ {0}, NEW r \in 0 .. C - 1, NEW k \in 0 .. C - 1
  PROVE  Wrap(Wrap(r + k, C) + 1, C) = Wrap(r + (k + 1), C)
<1>1. Wrap(r + k, C) = IF r + k < C THEN r + k ELSE r + k - C
  BY ModOnce
<1>2. CASE r + k < C
  BY <1>1, <1>2
<1>3. CASE ~(r + k < C)
  <2> DEFINE x == r + k - C
  <2>1. x \in 0 .. C - 2 /\ Wrap(r + k, C) = x
    BY <1>1, <1>3
  <2>2. Wrap(x + 1, C) = x + 1
    <3>1. x + 1 \in Nat /\ x + 1 < C
      BY <2>1
    <3> HIDE DEF x
    <3> QED
      BY <3>1, ModOnce
  <2>3. Wrap(r + (k + 1), C) = r + (k + 1) - C
    <3>1. r + (k + 1) \in Nat /\ r + (k + 1) < 2 * C /\ ~(r + (k + 1) < C)
      BY <1>3
    <3> QED
      BY <3>1, ModOnce
  <2> QED
    BY <2>1, <2>2, <2>3
<1> QED
  BY <1>2, <1>3

\* am_event_queue_pop_front_unsafe takes the head off the sequence.
LEMMA PopRing ==
  ASSUME NEW C \in Nat \ {0}, NEW Null, NEW E, NEW q,
         IsRing(q, C, Null, E), ~IsEmpty(q)
  PROVE  /\ IsRing(PopFront(q), C, Null, E)
         /\ Contents(PopFront(q)) = Tail(Contents(q))
         /\ FirstEvent(q) = Contents(q)[1]
         /\ FirstEvent(q) \in E
         /\ Contents(q) # <<>>
<1> DEFINE p == PopFront(q)
           n == NBusy(q)
<1>0. /\ q.events \in [0 .. C - 1 -> E \cup {Null}]
      /\ q.capacity = C
      /\ q.rd \in 0 .. C - 1
      /\ q.wr = Wrap(q.rd + n, C)
      /\ q.nfree \in 0 .. C /\ n = C - q.nfree
      /\ q.nfree_min <= q.nfree /\ q.nfree_min \in 0 .. C
      /\ \A i \in 1 .. n : Contents(q)[i] \in E
  BY RingFields
<1>1. n \in 1 .. C /\ Contents(q) # <<>>
  <2>1. n # 0 /\ Contents(q) # <<>>
    BY EmptyRing
  <2> QED
    BY <1>0, <2>1
<1>2. q \in QueueType(C, E \cup {Null})
  BY DEF IsRing
<1>3. /\ p.events = q.events /\ p.capacity = C /\ p.rd = Wrap(q.rd + 1, C)
      /\ p.wr = q.wr /\ p.full = FALSE /\ p.nfree = q.nfree + 1
      /\ p.nfree_min = q.nfree_min
  BY <1>0, <1>2 DEF PopFront, Next1, QueueType
<1>31. NBusy(p) = n - 1
  BY <1>0, <1>3 DEF NBusy
<1>4. Wrap(q.rd + 1, C) \in 0 .. C - 1
  BY <1>0, ModStep
<1>5. p \in QueueType(C, E \cup {Null})
  <2>1. q.nfree + 1 \in 0 .. C
    BY <1>0, <1>1
  <2> QED
    BY <1>0, <1>2, <1>4, <2>1 DEF PopFront, Next1, QueueType
<1> HIDE DEF p
<1>6. p.rd \in 0 .. C - 1 /\ \A k \in 0 .. C - 1 : Wrap(p.rd + k, C) = Wrap(q.rd + (k + 1), C)
  BY <1>0, <1>3, <1>4, ModStep
<1>7. p.wr = Wrap(p.rd + NBusy(p), C)
  <2>1. Wrap(p.rd + (n - 1), C) = Wrap(q.rd + ((n - 1) + 1), C)
    <3>1. n - 1 \in 0 .. C - 1
      BY <1>0, <1>1
    <3> QED
      BY <3>1, <1>6
  <2>2. (n - 1) + 1 = n
    BY <1>1
  <2> QED
    BY <1>0, <1>3, <1>31, <2>1, <2>2
<1>8. \A i \in 1 .. n - 1 : Contents(p)[i] = Contents(q)[i + 1]
  <2> TAKE i \in 1 .. n - 1
  <2>1. Contents(p)[i] = q.events[Wrap(p.rd + (i - 1), C)]
    BY <1>3, <1>31 DEF Contents
  <2>2. Contents(q)[i + 1] = q.events[Wrap(q.rd + ((i + 1) - 1), C)]
    BY <1>0, <1>1 DEF Contents
  <2>3. Wrap(p.rd + (i - 1), C) = Wrap(q.rd + i, C)
    <3>1. i - 1 \in 0 .. C - 1 /\ (i - 1) + 1 = i
      BY <1>1
    <3> QED
      BY <1>6, <3>1
  <2>4. q.rd + ((i + 1) - 1) = q.rd + i
    BY <1>0
  <2> QED
    BY <2>1, <2>2, <2>3, <2>4
<1>9. WellFormed(p, E)
  <2>1. \A i \in 1 .. NBusy(p) : Contents(p)[i] \in E
    BY <1>0, <1>1, <1>31, <1>8
  <2>2. (p.full <=> p.nfree = 0) /\ p.nfree_min <= p.nfree
    BY <1>0, <1>3
  <2> QED
    BY <1>3, <1>7, <2>1, <2>2 DEF WellFormed
<1>10. Contents(p) = Tail(Contents(q))
  <2>1. IsRing(p, C, Null, E)
    BY <1>5, <1>9 DEF IsRing
  <2>2. Contents(p) \in Seq(E) /\ Len(Contents(p)) = n - 1
    BY <1>31, <2>1, EmptyRing
  <2>3. Contents(q) \in Seq(E) /\ Len(Contents(q)) = n
    BY EmptyRing
  <2>4. /\ Tail(Contents(q)) \in Seq(E)
        /\ Len(Tail(Contents(q))) = n - 1
        /\ \A i \in 1 .. n - 1 : Tail(Contents(q))[i] = Contents(q)[i + 1]
    BY <1>1, <2>3, HeadTailProperties
  <2> QED
    BY <1>8, <2>2, <2>4, SeqEqual
<1>11. FirstEvent(q) = Contents(q)[1]
  <2>1. Contents(q)[1] = q.events[Wrap(q.rd + (1 - 1), C)]
    BY <1>0, <1>1 DEF Contents
  <2>2. q.rd + (1 - 1) = q.rd /\ Wrap(q.rd, C) = q.rd
    BY <1>0, ModOnce
  <2> QED
    BY <2>1, <2>2 DEF FirstEvent
<1> QED
  BY <1>0, <1>1, <1>5, <1>9, <1>10, <1>11 DEF IsRing, p

\* What a push of either kind finds and what it leaves in the counters.
LEMMA ClaimRing ==
  ASSUME NEW C \in Nat \ {0}, NEW Null, NEW E, NEW q,
         IsRing(q, C, Null, E), q.nfree # 0
  PROVE  /\ NBusy(q) \in 0 .. C - 1
         /\ q.full = FALSE
         /\ q.nfree - 1 \in 0 .. C
         /\ NFreeMin(q) \in 0 .. C
         /\ NFreeMin(q) <= q.nfree - 1
<1>1. /\ q.nfree \in 0 .. C
      /\ NBusy(q) = C - q.nfree /\ q.nfree_min \in 0 .. C
  BY RingFields
<1>2. q.full \in BOOLEAN /\ (q.full <=> NBusy(q) = C)
  BY RingFields
<1>3. NBusy(q) \in 0 .. C - 1
  BY <1>1
<1>4. q.full = FALSE
  BY <1>2, <1>3
<1> QED
  BY <1>1, <1>3, <1>4 DEF NFreeMin

\* t is s with e at its end.
IsAppended(t, s, e) == t = Append(s, e)

\* am_event_queue_push_unsafe in FIFO mode appends to the sequence.
LEMMA PushBackRing ==
  ASSUME NEW C \in Nat \ {0}, NEW Null, NEW E, NEW q, NEW e \in E,
         IsRing(q, C, Null, E), q.nfree # 0
  PROVE  /\ IsRing(PushBack(q, e), C, Null, E)
         /\ IsAppended(Contents(PushBack(q, e)), Contents(q), e)
<1> DEFINE p == PushBack(q, e)
           n == NBusy(q)
           w == Wrap(q.wr + 1, C)
<1>0. /\ q.events \in [0 .. C - 1 -> E \cup {Null}]
      /\ q.capacity = C
      /\ q.rd \in 0 .. C - 1
      /\ q.wr \in 0 .. C - 1
      /\ q.wr = Wrap(q.rd + n, C)
      /\ q.nfree \in 1 .. C /\ n = C - q.nfree
      /\ \A i \in 1 .. n : Contents(q)[i] \in E
  BY RingFields
<1>1. n \in 0 .. C - 1
  BY ClaimRing
<1>2. w \in 0 .. C - 1
  BY <1>0, ModStep
<1>3. w = Wrap(q.rd + (n + 1), C)
  <2>1. Wrap(Wrap(q.rd + n, C) + 1, C) = Wrap(q.rd + (n + 1), C)
    <3> HIDE DEF n
    <3> QED
      BY <1>0, <1>1, ModStepAfter
  <2> QED
    BY <1>0, <2>1
<1>4. /\ p.events = [q.events EXCEPT ![q.wr] = e] /\ p.capacity = C
      /\ p.rd = q.rd /\ p.wr = w /\ p.full = (w = q.rd)
      /\ p.nfree = q.nfree - 1 /\ p.nfree_min <= p.nfree
      /\ p \in QueueType(C, E \cup {Null})
  <2>1. /\ q.full = FALSE /\ q.nfree - 1 \in 0 .. C
        /\ NFreeMin(q) \in 0 .. C /\ NFreeMin(q) <= q.nfree - 1
    BY ClaimRing
  <2>2. p = [events |-> [q.events EXCEPT ![q.wr] = e], capacity |-> C, rd |-> q.rd,
             wr |-> w, full |-> (w = q.rd), nfree |-> q.nfree - 1,
             nfree_min |-> NFreeMin(q)]
    BY <1>0, <2>1 DEF PushBack, Next1
  <2> HIDE DEF p, w
  <2> QED
    BY <1>0, <1>2, <2>1, <2>2 DEF QueueType
<1> HIDE DEF p, w
<1>5. NBusy(p) = n + 1
  BY <1>0, <1>4 DEF NBusy
<1>6. \A i \in 1 .. n : Contents(p)[i] = Contents(q)[i]
  <2> TAKE i \in 1 .. n
  <2>1. Contents(p)[i] = p.events[Wrap(q.rd + (i - 1), C)]
    BY <1>0, <1>1, <1>4, <1>5 DEF Contents
  <2>2. Contents(q)[i] = q.events[Wrap(q.rd + (i - 1), C)]
    BY <1>0 DEF Contents
  <2>3. Wrap(q.rd + (i - 1), C) \in 0 .. C - 1 /\ Wrap(q.rd + (i - 1), C) # q.wr
    <3>1. i - 1 \in 0 .. C - 1 /\ i - 1 # n
      BY <1>1
    <3>2. Wrap(q.rd + (i - 1), C) # Wrap(q.rd + n, C)
      BY <1>0, <1>1, <3>1, ModInjective
    <3>3. Wrap(q.rd + (i - 1), C) \in 0 .. C - 1
      BY <1>0, <3>1, WrapRange
    <3> QED
      BY <1>0, <3>2, <3>3
  <2> QED
    BY <1>0, <1>4, <2>1, <2>2, <2>3
<1>7. Contents(p)[n + 1] = e
  <2>1. Contents(p)[n + 1] = p.events[Wrap(q.rd + ((n + 1) - 1), C)]
    BY SMTT(30), <1>0, <1>1, <1>4, <1>5 DEF Contents
  <2>2. (n + 1) - 1 = n
    BY <1>1
  <2> QED
    BY <1>0, <1>4, <2>1, <2>2
<1>8. p.full <=> p.nfree = 0
  <2>1. n + 1 \in 0 .. C /\ n + 1 # 0
    BY <1>1
  <2>2. w = q.rd <=> n + 1 = C
    BY <1>0, <1>3, <2>1, ModFixed
  <2> HIDE DEF n
  <2>3. p.full <=> n + 1 = C
    BY <1>4, <2>2
  <2>4. p.nfree = 0 <=> n + 1 = C
    BY SMTT(30), <1>0, <1>1, <1>4
  <2> QED
    BY <2>3, <2>4
<1>9. IsRing(p, C, Null, E)
  <2>1. \A i \in 1 .. NBusy(p) : Contents(p)[i] \in E
    <3> SUFFICES ASSUME NEW i \in 1 .. n + 1 PROVE Contents(p)[i] \in E
      BY <1>5
    <3>1. CASE i = n + 1
      BY <1>7, <3>1
    <3>2. CASE i # n + 1
      <4>1. i \in 1 .. n
        BY <1>1, <3>2
      <4> QED
        BY <1>0, <1>6, <4>1
    <3> QED
      BY <3>1, <3>2
  <2> QED
    BY <1>3, <1>4, <1>5, <1>8, <2>1 DEF IsRing, WellFormed
<1>10. Contents(p) = Append(Contents(q), e)
  <2>1. Contents(p) \in Seq(E) /\ Len(Contents(p)) = n + 1
    BY <1>5, <1>9, EmptyRing
  <2>2. Contents(q) \in Seq(E) /\ Len(Contents(q)) = n
    BY EmptyRing
  <2>3. /\ Append(Contents(q), e) \in Seq(E)
        /\ Len(Append(Contents(q), e)) = n + 1
        /\ \A i \in 1 .. n : Append(Contents(q), e)[i] = Contents(q)[i]
        /\ Append(Contents(q), e)[n + 1] = e
    BY <2>2, AppendProperties
  <2>4. \A i \in 1 .. n + 1 : Contents(p)[i] = Append(Contents(q), e)[i]
    BY <1>1, <1>6, <1>7, <2>3
  <2> QED
    BY <2>1, <2>3, <2>4, SeqEqual
<1> QED
  BY <1>9, <1>10 DEF p, IsAppended

\* Stepping back undoes stepping forth.
LEMMA ModBack ==
  ASSUME NEW C \in Nat \ {0}, NEW r \in 0 .. C - 1, NEW k \in 0 .. C - 1,
         NEW b, b = IF r > 0 THEN r - 1 ELSE C - 1
  PROVE  /\ b \in 0 .. C - 1
         /\ Wrap(b + 1, C) = r
         /\ Wrap(b + (k + 1), C) = Wrap(r + k, C)
<1>1. b \in 0 .. C - 1
  OBVIOUS
<1>2. Wrap(b + 1, C) = r
  <2>1. b + 1 \in Nat /\ b + 1 < 2 * C
    BY <1>1
  <2>2. Wrap(b + 1, C) = IF b + 1 < C THEN b + 1 ELSE b + 1 - C
    BY <2>1, ModOnce
  <2> QED
    BY <2>2
<1>3. Wrap(Wrap(b + 1, C) + k, C) = Wrap(b + (k + 1), C)
  BY <1>1, ModStep
<1> QED
  BY <1>1, <1>2, <1>3

\* am_event_queue_push_unsafe in LIFO mode puts the event before the sequence.
LEMMA PushFrontRing ==
  ASSUME NEW C \in Nat \ {0}, NEW Null, NEW E, NEW q, NEW e \in E,
         IsRing(q, C, Null, E), q.nfree # 0
  PROVE  /\ IsRing(PushFront(q, e), C, Null, E)
         /\ Contents(PushFront(q, e)) = <<e>> \o Contents(q)
<1> DEFINE p == PushFront(q, e)
           n == NBusy(q)
           b == IF q.rd > 0 THEN q.rd - 1 ELSE C - 1
<1>0. /\ q.events \in [0 .. C - 1 -> E \cup {Null}]
      /\ q.capacity = C
      /\ q.rd \in 0 .. C - 1
      /\ q.wr \in 0 .. C - 1
      /\ q.wr = Wrap(q.rd + n, C)
      /\ q.nfree \in 1 .. C /\ n = C - q.nfree
      /\ \A i \in 1 .. n : Contents(q)[i] \in E
  BY RingFields
<1>1. n \in 0 .. C - 1
  BY ClaimRing
<1>2. /\ b \in 0 .. C - 1
      /\ \A k \in 0 .. C - 1 : Wrap(b + (k + 1), C) = Wrap(q.rd + k, C)
  BY <1>0, ModBack
<1>21. b \in 0 .. C - 1
  BY <1>2
<1>3. q.wr = Wrap(b + (n + 1), C)
  <2> HIDE DEF n, b
  <2> QED
    BY <1>0, <1>1, <1>2
<1>4. /\ p.events = [q.events EXCEPT ![b] = e] /\ p.capacity = C
      /\ p.rd = b /\ p.wr = q.wr /\ p.full = (q.wr = b)
      /\ p.nfree = q.nfree - 1 /\ p.nfree_min <= p.nfree
      /\ p \in QueueType(C, E \cup {Null})
  <2>1. /\ q.full = FALSE /\ q.nfree - 1 \in 0 .. C
        /\ NFreeMin(q) \in 0 .. C /\ NFreeMin(q) <= q.nfree - 1
    BY ClaimRing
  <2>2. p = [events |-> [q.events EXCEPT ![b] = e], capacity |-> C, rd |-> b,
             wr |-> q.wr, full |-> (q.wr = b), nfree |-> q.nfree - 1,
             nfree_min |-> NFreeMin(q)]
    BY <1>0, <2>1 DEF PushFront, Prev1
  <2> HIDE DEF p, b
  <2> QED
    BY <1>0, <1>2, <2>1, <2>2 DEF QueueType
<1> HIDE DEF p, b
<1>5. NBusy(p) = n + 1
  BY <1>0, <1>4 DEF NBusy
<1>6. \A i \in 1 .. n : Contents(p)[i + 1] = Contents(q)[i]
  <2> TAKE i \in 1 .. n
  <2>1. Contents(p)[i + 1] = p.events[Wrap(b + ((i + 1) - 1), C)]
    BY <1>0, <1>1, <1>4, <1>5 DEF Contents
  <2>2. Contents(q)[i] = q.events[Wrap(q.rd + (i - 1), C)]
    BY <1>0 DEF Contents
  <2>3. Wrap(b + ((i + 1) - 1), C) = Wrap(q.rd + (i - 1), C)
    <3>1. i - 1 \in 0 .. C - 1 /\ (i + 1) - 1 = (i - 1) + 1
      BY <1>1
    <3> QED
      BY <1>2, <3>1
  <2>4. Wrap(b + i, C) \in 0 .. C - 1 /\ Wrap(b + i, C) # b
    <3>1. i \in 0 .. C - 1 /\ i # 0 /\ i # C
      BY <1>1
    <3>2. Wrap(b + i, C) # b
      BY <1>21, <3>1, ModFixed
    <3>3. Wrap(b + i, C) \in 0 .. C - 1
      BY <1>21, <3>1, WrapRange
    <3> QED
      BY <3>2, <3>3
  <2>5. (i + 1) - 1 = i
    OBVIOUS
  <2> QED
    BY <1>0, <1>4, <2>1, <2>2, <2>3, <2>4, <2>5
<1>7. Contents(p)[1] = e
  <2>1. Contents(p)[1] = p.events[Wrap(b + (1 - 1), C)]
    BY <1>0, <1>1, <1>4, <1>5 DEF Contents
  <2>2. b + (1 - 1) = b /\ Wrap(b, C) = b
    BY <1>2, ModOnce
  <2> QED
    BY <1>0, <1>2, <1>4, <2>1, <2>2
<1>8. p.full <=> p.nfree = 0
  <2>1. n + 1 \in 0 .. C /\ n + 1 # 0
    BY <1>1
  <2>2. q.wr = b <=> n + 1 = C
    <3> HIDE DEF n
    <3> QED
      BY <1>21, <1>3, <2>1, ModFixed
  <2> HIDE DEF n
  <2>3. p.full <=> n + 1 = C
    BY <1>4, <2>2
  <2>4. p.nfree = 0 <=> n + 1 = C
    BY <1>0, <1>1, <1>4
  <2> QED
    BY <2>3, <2>4
<1>9. IsRing(p, C, Null, E)
  <2>1. \A i \in 1 .. NBusy(p) : Contents(p)[i] \in E
    <3> SUFFICES ASSUME NEW i \in 1 .. n + 1 PROVE Contents(p)[i] \in E
      BY <1>5
    <3>1. CASE i = 1
      BY <1>7, <3>1
    <3>2. CASE i # 1
      <4>1. i - 1 \in 1 .. n /\ (i - 1) + 1 = i
        BY <1>1, <3>2
      <4>2. Contents(p)[(i - 1) + 1] = Contents(q)[i - 1]
        BY <1>6, <4>1
      <4> QED
        BY <1>0, <4>1, <4>2
    <3> QED
      BY <3>1, <3>2
  <2> QED
    BY <1>3, <1>4, <1>5, <1>8, <2>1 DEF IsRing, WellFormed
<1>10. Contents(p) = <<e>> \o Contents(q)
  <2>1. Contents(p) \in Seq(E) /\ Len(Contents(p)) = n + 1
    BY <1>5, <1>9, EmptyRing
  <2>2. Contents(q) \in Seq(E) /\ Len(Contents(q)) = n
    BY EmptyRing
  <2>3. <<e>> \in Seq(E) /\ Len(<<e>>) = 1 /\ <<e>>[1] = e
    OBVIOUS
  <2>4. /\ <<e>> \o Contents(q) \in Seq(E)
        /\ Len(<<e>> \o Contents(q)) = 1 + n
        /\ \A i \in 1 .. 1 + n : (<<e>> \o Contents(q))[i] =
             IF i <= 1 THEN <<e>>[i] ELSE Contents(q)[i - 1]
    BY <2>2, <2>3, ConcatProperties
  <2>5. ASSUME NEW i \in 1 .. n + 1
        PROVE  Contents(p)[i] = (<<e>> \o Contents(q))[i]
    <3>1. CASE i = 1
      BY <1>1, <1>7, <2>3, <2>4, <3>1
    <3>2. CASE i # 1
      <4>1. i - 1 \in 1 .. n /\ (i - 1) + 1 = i /\ ~(i <= 1) /\ i \in 1 .. 1 + n
        BY <1>1, <3>2
      <4>2. Contents(p)[(i - 1) + 1] = Contents(q)[i - 1]
        BY <1>6, <4>1
      <4> QED
        BY <2>4, <4>1, <4>2
    <3> QED
      BY <3>1, <3>2
  <2>6. Len(<<e>> \o Contents(q)) = n + 1
    BY <1>1, <2>4
  <2> QED
    BY <2>1, <2>4, <2>5, <2>6, SeqEqual
<1> QED
  BY <1>9, <1>10 DEF p

-----------------------------------------------------------------------------
(* The fields of the ring                                                  *)

\* The inductive invariant: beside the two properties, a flush that goes on has
\* not counted more events than the queue has slots, and a thread with a popped
\* event in hand has a real one.
FlushedBound == ~halted => \A t \in Thread : flushed[t] \in 0 .. Capacity

IInv == TypeOK /\ RingConsistent /\ FlushedBound

LEMMA InvRing ==
  ASSUME TypeOK, RingConsistent
  PROVE  IsRing(queue, Capacity, NoEvent, Event) /\ Capacity \in Nat \ {0}
BY EventQueueAssumption DEF TypeOK, RingConsistent, IsRing, EventOrNull

-----------------------------------------------------------------------------
(* The push, which two actions share.                                      *)

\* A push that is not refused is one append or one prepend.
LEMMA PushRing ==
  ASSUME TypeOK, RingConsistent, NEW e \in Event, NEW lifo \in BOOLEAN,
         queue.nfree # 0
  PROVE  /\ IsRing(Push(queue, e, lifo), Capacity, NoEvent, Event)
         /\ Contents(Push(queue, e, lifo)) =
              IF lifo THEN <<e>> \o Contents(queue) ELSE Append(Contents(queue), e)
<1>1. IsRing(queue, Capacity, NoEvent, Event) /\ Capacity \in Nat \ {0}
  BY InvRing
<1>2. CASE lifo
  <2>1. Push(queue, e, lifo) = PushFront(queue, e)
    BY <1>2 DEF Push
  <2>2. /\ IsRing(PushFront(queue, e), Capacity, NoEvent, Event)
        /\ Contents(PushFront(queue, e)) = <<e>> \o Contents(queue)
    BY <1>1, PushFrontRing
  <2> QED
    BY <1>2, <2>1, <2>2
<1>3. CASE ~lifo
  <2>1. Push(queue, e, lifo) = PushBack(queue, e)
    BY <1>3 DEF Push
  <2>2. /\ IsRing(PushBack(queue, e), Capacity, NoEvent, Event)
        /\ Contents(PushBack(queue, e)) = Append(Contents(queue), e)
    <3>1. IsRing(PushBack(queue, e), Capacity, NoEvent, Event)
      BY <1>1, PushBackRing
    <3>2. IsAppended(Contents(PushBack(queue, e)), Contents(queue), e)
      BY <1>1, PushBackRing
    <3> QED
      BY <3>1, <3>2 DEF IsAppended
  <2> QED
    BY <1>3, <2>1, <2>2
<1> QED
  BY <1>2, <1>3

LEMMA PushEventInv ==
  ASSUME IInv, NEW e \in Event, NEW lifo \in BOOLEAN, NEW m \in Nat,
         PushEvent(e, lifo, m)
  PROVE  /\ queue' \in QueueType(Capacity, EventOrNull)
         /\ WellFormed(queue', Event)
         /\ heap' \in HeapType
         /\ rc' \in {"none", "ok", "was_empty", "err"}
         /\ halted' \in BOOLEAN
<1> USE DEF IInv, TypeOK
<1>1. CASE PushOK(e, lifo, m)
  <2>1. queue.nfree # 0
    <3>1. queue.nfree \in Nat /\ ~(queue.nfree <= m)
      BY <1>1, EventQueueAssumption DEF PushOK, NoRoom, QueueType
    <3> QED
      BY <3>1
  <2>2. IsRing(queue', Capacity, NoEvent, Event)
    BY <1>1, <2>1, PushRing DEF PushOK
  <2>3. heap' \in HeapType
    BY <1>1, CountedType DEF PushOK
  <2> QED
    BY <1>1, <2>2, <2>3 DEF PushOK, IsRing, EventOrNull
<1>2. CASE PushRefused(e, m)
  <2>1. heap' \in HeapType
    BY <1>2, FreedType DEF PushRefused
  <2> QED
    BY <1>2, <2>1 DEF PushRefused, RingConsistent
<1>3. CASE PushOverflow(e, m)
  BY <1>3 DEF PushOverflow, RingConsistent
<1> QED
  BY <1>1, <1>2, <1>3 DEF PushEvent

-----------------------------------------------------------------------------
(* The invariant.                                                          *)

LEMMA InitInv == Init => IInv
<1> SUFFICES ASSUME Init PROVE IInv
  OBVIOUS
<1>1. IsRing(queue, Capacity, NoEvent, Event)
  BY InitRing, EventQueueAssumption DEF Init
<1>2. TypeOK
  <2>1. 0 \in 0 .. Capacity + 1
    BY EventQueueAssumption
  <2>2. queue \in QueueType(Capacity, EventOrNull)
    BY <1>1 DEF IsRing, EventOrNull
  <2>3. heap \in HeapType
    BY HeapInitType DEF Init
  <2> QED
    BY <2>1, <2>2, <2>3 DEF Init, TypeOK, EventOrNull
<1>3. RingConsistent
  BY <1>1 DEF RingConsistent, IsRing
<1>4. FlushedBound
  BY EventQueueAssumption DEF Init, FlushedBound
<1> QED
  BY <1>2, <1>3, <1>4 DEF IInv

LEMMA NextInv == IInv /\ [Next]_vars => IInv'
<1> SUFFICES ASSUME IInv, [Next]_vars PROVE IInv'
  OBVIOUS
<1> USE DEF IInv
<1>1. ASSUME NEW t \in Producer, NEW e \in Dynamic, ~halted, Allocate(t, e) PROVE IInv'
  <2>1. heap' \in HeapType
    BY <1>1, AllocatedType DEF Allocate, TypeOK
  <2>2. t \in Thread
    BY DEF Thread
  <2> QED
    BY <1>1, <2>1, <2>2 DEF Allocate, TypeOK, RingConsistent, FlushedBound
<1>2. ASSUME NEW t \in Producer, ~halted, Keep(t) PROVE IInv'
  <2>1. heap' \in HeapType
    BY <1>2, CountedType DEF Keep, TypeOK
  <2>2. t \in Thread
    BY DEF Thread
  <2>3. halted' \in BOOLEAN
    BY <1>2 DEF Keep
  <2> QED
    BY <1>2, <2>1, <2>2, <2>3 DEF Keep, TypeOK, RingConsistent, FlushedBound
<1>3. ASSUME NEW t \in Producer, ~halted, Release(t) PROVE IInv'
  <2>1. heap' \in HeapType
    BY <1>3, FreedType DEF Release, TypeOK
  <2>2. t \in Thread
    BY DEF Thread
  <2> QED
    BY <1>3, <2>1, <2>2 DEF Release, TypeOK, RingConsistent, FlushedBound
<1>4. ASSUME NEW t \in Producer, NEW e \in Event, NEW lifo \in BOOLEAN, NEW m \in Margins,
             ~halted, PushGive(t, e, lifo, m)
      PROVE  IInv'
  <2>1. PushEvent(e, lifo, m) /\ m \in Nat
    BY <1>4, EventQueueAssumption DEF PushGive
  <2>2. /\ queue' \in QueueType(Capacity, EventOrNull) /\ WellFormed(queue', Event)
        /\ heap' \in HeapType /\ rc' \in {"none", "ok", "was_empty", "err"}
        /\ halted' \in BOOLEAN
    BY <2>1, PushEventInv
  <2>3. owned' \in [Thread -> Dynamic \cup {NoEvent}]
    BY <1>4 DEF PushGive, TypeOK
  <2> QED
    BY <1>4, <2>2, <2>3 DEF PushGive, TypeOK, RingConsistent, FlushedBound
<1>5. ASSUME NEW t \in Thread, NEW e \in Event, NEW lifo \in BOOLEAN, NEW m \in HeldMargins,
             ~halted, PushHeld(t, e, lifo, m)
      PROVE  IInv'
  <2>1. PushEvent(e, lifo, m) /\ m \in Nat
    BY <1>5, EventQueueAssumption DEF PushHeld
  <2>2. /\ queue' \in QueueType(Capacity, EventOrNull) /\ WellFormed(queue', Event)
        /\ heap' \in HeapType /\ rc' \in {"none", "ok", "was_empty", "err"}
        /\ halted' \in BOOLEAN
    BY <2>1, PushEventInv
  <2> QED
    BY <1>5, <2>2 DEF PushHeld, TypeOK, RingConsistent, FlushedBound
<1>6. ASSUME NEW t \in Consumer, ~halted, PopBegin(t) PROVE IInv'
  <2>1. IsRing(queue', Capacity, NoEvent, Event) /\ FirstEvent(queue) \in Event
    <3>1. ~IsEmpty(queue) /\ queue' = PopFront(queue)
      BY <1>6 DEF PopBegin
    <3> QED
      BY <3>1, InvRing, PopRing
  <2>2. cur' \in [Thread -> EventOrNull]
    BY <1>6, <2>1 DEF PopBegin, TypeOK, EventOrNull
  <2> QED
    BY <1>6, <2>1, <2>2 DEF PopBegin, TypeOK, RingConsistent, FlushedBound, IsRing, EventOrNull
<1>7. ASSUME NEW t \in Consumer, ~halted, PopEnd(t) PROVE IInv'
  <2>1. heap' \in HeapType
    BY <1>7, FreedType DEF PopEnd, TypeOK
  <2> QED
    BY <1>7, <2>1 DEF PopEnd, TypeOK, RingConsistent, FlushedBound, EventOrNull
<1>8. ASSUME NEW t \in Flusher, ~halted, FlushBegin(t) PROVE IInv'
  <2>1. 0 \in 0 .. Capacity + 1 /\ 0 \in 0 .. Capacity
    BY EventQueueAssumption
  <2>2. TypeOK'
    BY <1>8, <2>1 DEF FlushBegin, TypeOK
  <2>3. FlushedBound'
    <3> SUFFICES ASSUME ~halted', NEW u \in Thread PROVE flushed'[u] \in 0 .. Capacity
      BY DEF FlushedBound
    <3>1. flushed \in [Thread -> 0 .. Capacity + 1] /\ flushed[u] \in 0 .. Capacity
      BY <1>8 DEF TypeOK, FlushedBound
    <3> QED
      BY <1>8, <2>1, <3>1 DEF FlushBegin
  <2> QED
    BY <1>8, <2>2, <2>3 DEF FlushBegin, RingConsistent
<1>9. ASSUME NEW t \in Flusher, ~halted, FlushPop(t) PROVE IInv'
  <2>1. IsRing(queue', Capacity, NoEvent, Event) /\ FirstEvent(queue) \in Event
    <3>1. ~IsEmpty(queue) /\ queue' = PopFront(queue)
      BY <1>9 DEF FlushPop
    <3> QED
      BY <3>1, InvRing, PopRing
  <2>2. cur' \in [Thread -> EventOrNull]
    BY <1>9, <2>1 DEF FlushPop, TypeOK, EventOrNull
  <2>3. t \in Thread /\ flushed[t] \in 0 .. Capacity /\ Capacity \in Nat
    BY <1>9, EventQueueAssumption DEF Thread, FlushedBound
  <2>4. /\ flushed' = [flushed EXCEPT ![t] = flushed[t] + 1]
        /\ halted' <=> flushed[t] + 1 > Capacity
    BY <1>9 DEF FlushPop
  <2>5. flushed' \in [Thread -> 0 .. Capacity + 1]
    <3>1. flushed[t] + 1 \in 0 .. Capacity + 1
      BY <2>3
    <3> QED
      BY <2>4, <3>1 DEF TypeOK
  <2>6. FlushedBound'
    <3> SUFFICES ASSUME ~halted', NEW u \in Thread PROVE flushed'[u] \in 0 .. Capacity
      BY DEF FlushedBound
    <3>1. flushed \in [Thread -> 0 .. Capacity + 1] /\ flushed[u] \in 0 .. Capacity
      BY <1>9 DEF TypeOK, FlushedBound
    <3>2. flushed[t] + 1 \in 0 .. Capacity
      <4>1. ~(flushed[t] + 1 > Capacity)
        BY <2>4
      <4> QED
        BY <2>3, <4>1
    <3> QED
      BY <2>3, <2>4, <3>1, <3>2
  <2>7. halted' \in BOOLEAN
    BY <1>9 DEF FlushPop
  <2> QED
    BY <1>9, <2>1, <2>2, <2>5, <2>6, <2>7
    DEF FlushPop, TypeOK, RingConsistent, IsRing, EventOrNull
<1>10. ASSUME NEW t \in Flusher, ~halted, FlushFree(t) PROVE IInv'
  <2>1. heap' \in HeapType
    BY <1>10, FreedType DEF FlushFree, TypeOK
  <2> QED
    BY <1>10, <2>1 DEF FlushFree, TypeOK, RingConsistent, FlushedBound, EventOrNull
<1>11. ASSUME NEW t \in Flusher, ~halted, FlushEnd(t) PROVE IInv'
  BY <1>11 DEF FlushEnd, TypeOK, RingConsistent, FlushedBound
<1>12. CASE UNCHANGED vars
  BY <1>12 DEF vars, TypeOK, RingConsistent, FlushedBound
<1>13. CASE Stopped
  BY <1>12, <1>13 DEF Stopped
<1> QED
  BY <1>1, <1>2, <1>3, <1>4, <1>5, <1>6, <1>7, <1>8, <1>9, <1>10, <1>11, <1>12, <1>13
  DEF Next, Produce, Consume, Flush, Thread

\* The variables keep their types and the fields of the ring agree in every
\* state of every instance: the indices, the free-slot counter, its minimum and
\* the full flag, which push and pop update one by one, never contradict each
\* other, and a flush that has not hit its assertion is within its bound.
THEOREM Invariance == Spec => []IInv
<1>1. Init => IInv
  BY InitInv
<1>2. IInv /\ [Next]_vars => IInv'
  BY NextInv
<1> QED
  BY <1>1, <1>2, PTL DEF Spec

\* Type correctness of the queue and its threads.
THEOREM TypeCorrect == Spec => []TypeOK
BY Invariance, PTL DEF IInv

\* The fields of the ring agree in every reachable state.
THEOREM RingCorrect == Spec => []RingConsistent
BY Invariance, PTL DEF IInv

-----------------------------------------------------------------------------
(* The refinement.                                                         *)

\* A push that finds room is a Put at one end, and answers as a Put does.
LEMMA PushRefines ==
  ASSUME TypeOK, RingConsistent, NEW e \in Event, NEW lifo \in BOOLEAN,
         NEW m \in 0 .. Capacity - 1, PushEvent(e, lifo, m)
  PROVE  Deque!Next \/ UNCHANGED <<queue, rc>>
<1>1. IsRing(queue, Capacity, NoEvent, Event) /\ Capacity \in Nat \ {0}
  BY InvRing
<1>2. /\ WasEmpty(queue) <=> NBusy(queue) = 0
      /\ Contents(queue) = <<>> <=> NBusy(queue) = 0
      /\ Len(Contents(queue)) = NBusy(queue)
  BY <1>1, EmptyRing
<1>3. queue.nfree \in 0 .. Capacity /\ NBusy(queue) = Capacity - queue.nfree
  BY <1>1, RingFields
<1>4. CASE PushOK(e, lifo, m)
  <2>1. ~(queue.nfree <= m)
    BY <1>4 DEF PushOK, NoRoom
  <2>2. queue.nfree # 0 /\ NBusy(queue) < Capacity
    <3>1. m \in Nat /\ Capacity \in Nat
      BY <1>1
    <3> QED
      BY <1>3, <2>1, <3>1
  <2>3. queue' = Push(queue, e, lifo)
        /\ rc' = IF WasEmpty(queue) THEN "was_empty" ELSE "ok"
    BY <1>4 DEF PushOK
  <2>4. Contents(queue') = IF lifo THEN <<e>> \o Contents(queue)
                                   ELSE Append(Contents(queue), e)
    BY <2>2, <2>3, PushRing
  <2>5. rc' = Deque!PutAnswer
    BY <1>2, <2>3 DEF Deque!PutAnswer
  <2>6. Len(Contents(queue)) < Capacity
    BY <1>2, <2>2
  <2>7. CASE lifo
    BY <2>4, <2>5, <2>6, <2>7 DEF Deque!PutFront, Deque!Next
  <2>8. CASE ~lifo
    BY <2>4, <2>5, <2>6, <2>8 DEF Deque!PutBack, Deque!Next
  <2> QED
    BY <2>7, <2>8
<1>5. CASE PushRefused(e, m)
  <2>1. queue.nfree <= m /\ rc' = "err" /\ queue' = queue
    BY <1>5 DEF PushRefused, NoRoom
  <2>2. NBusy(queue) # 0
    BY <1>1, <1>3, <2>1
  <2>3. Contents(queue) # <<>>
    BY <1>2, <2>2
  <2> QED
    BY <2>1, <2>3 DEF Deque!Refuse, Deque!Next
<1>6. CASE PushOverflow(e, m)
  BY <1>6 DEF PushOverflow
<1> QED
  BY <1>4, <1>5, <1>6 DEF PushEvent

\* A pop of a queue that is not empty is a Take.
LEMMA PopRefines ==
  ASSUME TypeOK, RingConsistent, ~IsEmpty(queue), queue' = PopFront(queue), rc' = rc
  PROVE  Deque!Next
<1>1. IsRing(queue, Capacity, NoEvent, Event) /\ Capacity \in Nat \ {0}
  BY InvRing
<1>2. Contents(PopFront(queue)) = Tail(Contents(queue)) /\ Contents(queue) # <<>>
  BY <1>1, PopRing
<1> QED
  BY <1>2 DEF Deque!Take, Deque!Next

\* Under every interleaving of pushes, pops and flushes, the queue accepts,
\* refuses, orders and answers as a bounded double-ended queue does: in
\* particular AM_RC_QUEUE_WAS_EMPTY, on which the wake-up of an active object
\* hangs, is returned exactly by the push that ends an empty queue.
THEOREM Refinement == Spec => RefinesDeque
<1>1. Init => Deque!Init
  <2> SUFFICES ASSUME Init PROVE Deque!Init
    OBVIOUS
  <2>1. Contents(queue) = <<>>
    BY InitRing, EventQueueAssumption DEF Init
  <2> QED
    BY <2>1 DEF Init, Deque!Init
<1>2. IInv /\ [Next]_vars => [Deque!Next]_<<Contents(queue), rc>>
  <2> SUFFICES ASSUME IInv, [Next]_vars,
                      ~(UNCHANGED <<queue, rc>>)
               PROVE  Deque!Next
    OBVIOUS
  <2> USE DEF IInv
  <2>1. ASSUME NEW t \in Thread, NEW e \in Event, NEW lifo \in BOOLEAN, NEW m \in Margins,
               PushGive(t, e, lifo, m)
        PROVE  Deque!Next
    <3>1. m \in 0 .. Capacity - 1 /\ PushEvent(e, lifo, m)
      BY <2>1, EventQueueAssumption DEF PushGive
    <3> QED
      BY <3>1, PushRefines
  <2>2. ASSUME NEW t \in Thread, NEW e \in Event, NEW lifo \in BOOLEAN, NEW m \in HeldMargins,
               PushHeld(t, e, lifo, m)
        PROVE  Deque!Next
    <3>1. m \in 0 .. Capacity - 1 /\ PushEvent(e, lifo, m)
      BY <2>2, EventQueueAssumption DEF PushHeld
    <3> QED
      BY <3>1, PushRefines
  <2>3. ASSUME NEW t \in Thread, PopBegin(t) \/ FlushPop(t) PROVE Deque!Next
    <3>1. ~IsEmpty(queue) /\ queue' = PopFront(queue) /\ rc' = rc
      BY <2>3 DEF PopBegin, FlushPop
    <3> QED
      BY <3>1, PopRefines
  <2> QED
    BY <2>1, <2>2, <2>3
    DEF Next, Produce, Consume, Flush, Stopped, vars, Thread,
        Allocate, Keep, Release, PopEnd, FlushBegin, FlushFree, FlushEnd
<1> QED
  BY <1>1, <1>2, Invariance, PTL DEF Spec, RefinesDeque, Deque!Spec

-----------------------------------------------------------------------------
(* The accounts of the events.  Held[e] is Holders(e) of a dynamic event e; *)
(* the predicates take the heap and the holders as parameters, because a   *)
(* step changes one, the other, or both.                                   *)

Held == [e \in Dynamic |-> Holders(e)]

\* The reference that thread t holds over its pushes.
KeptBy(o, k, t) == IF k[t] THEN o[t] ELSE NoEvent

\* A thread's own event is allocated, nobody else's, and not yet held unless it
\* is kept.
Ownership(h, H, o, k) ==
  /\ \A t \in Thread : o[t] # NoEvent => o[t] \in h.live
  /\ \A t \in Thread : o[t] # NoEvent /\ ~k[t] => H[o[t]] = 0
  /\ \A t, u \in Thread : o[t] = o[u] /\ o[t] # NoEvent => t = u

Leakless(h, H, o) == \A e \in h.live : H[e] > 0 \/ \E t \in Thread : o[t] = e

\* A thread has an event in hand exactly between the pop and the release.
InHand ==
  \A t \in Thread : cur[t] # NoEvent <=> pc[t] \in {"handling", "flush_free"}

KeptOwned == \A t \in Thread : kept[t] => owned[t] # NoEvent

\* The inductive invariant behind EventsAccounted.  A failed assertion may leave
\* a counter wrong (the refused push that asserts has already released the
\* event), but no event lost and no freed one touched.
AInv ==
  /\ ~heap.corrupt /\ Leakless(heap, Held, owned)
  /\ InHand /\ KeptOwned
  /\ ~halted => Balanced(heap, Held) /\ Ownership(heap, Held, owned, kept)

\* Holders of event e, of the values of the variables.
HoldersIn(q, c, o, k, e) ==
  Cardinality({i \in 1 .. NBusy(q) : Contents(q)[i] = e})
    + Cardinality({t \in Thread : c[t] = e})
    + Cardinality({t \in Thread : o[t] = e /\ k[t]})

KeptByAll(o, k) == [t \in Thread |-> KeptBy(o, k, t)]

\* The three places a reference is held in, counted one by one.
LEMMA HoldersAre ==
  ASSUME IsFiniteSet(Thread), NEW q, IsRing(q, Capacity, NoEvent, Event),
         NEW c, NEW o, NEW k, NEW e \in Dynamic
  PROVE  /\ HoldersIn(q, c, o, k, e)
              = Occurrences(Contents(q), e) + CountOf(c, Thread, e)
                + CountOf(KeptByAll(o, k), Thread, e)
         /\ Occurrences(Contents(q), e) \in Nat
         /\ CountOf(c, Thread, e) \in Nat
         /\ CountOf(KeptByAll(o, k), Thread, e) \in Nat
<1>1. Contents(q) \in Seq(Event) /\ Len(Contents(q)) = NBusy(q)
  BY EmptyRing, EventQueueAssumption
<1>2. Cardinality({i \in 1 .. NBusy(q) : Contents(q)[i] = e}) = Occurrences(Contents(q), e)
  BY <1>1 DEF Occurrences
<1>3. {t \in Thread : o[t] = e /\ k[t]} = {t \in Thread : KeptByAll(o, k)[t] = e}
  <2>1. NoEvent # e
    BY EventQueueAssumption
  <2> QED
    BY <2>1 DEF KeptBy, KeptByAll
<1>4. /\ Occurrences(Contents(q), e) \in Nat
      /\ CountOf(c, Thread, e) \in Nat
      /\ CountOf(KeptByAll(o, k), Thread, e) \in Nat
  BY <1>1, OccurrencesType, CountOfType
<1> QED
  BY <1>2, <1>3, <1>4 DEF CountOf, HoldersIn

\* How a step of thread t from one value of the variables to another changes
\* the holders of an event.
LEMMA HoldersMoved ==
  ASSUME IsFiniteSet(Thread),
         NEW q, IsRing(q, Capacity, NoEvent, Event), NEW q2, IsRing(q2, Capacity, NoEvent, Event),
         NEW c, NEW c2, NEW o, NEW o2,
         NEW k, NEW k2, NEW t \in Thread,
         SameBut(c, c2, Thread, t), SameBut(o, o2, Thread, t), SameBut(k, k2, Thread, t),
         NEW e \in Dynamic
  PROVE  /\ HoldersIn(q, c, o, k, e) \in Nat /\ HoldersIn(q2, c2, o2, k2, e) \in Nat
         /\ Occurrences(Contents(q), e) \in Nat
         /\ Occurrences(Contents(q2), e) \in Nat
         /\ HoldersIn(q2, c2, o2, k2, e) = HoldersIn(q, c, o, k, e)
              + Occurrences(Contents(q2), e) - Occurrences(Contents(q), e)
              + One(c2[t], e) - One(c[t], e)
              + One(KeptBy(o2, k2, t), e) - One(KeptBy(o, k, t), e)
         /\ c[t] = e \/ KeptBy(o, k, t) = e => HoldersIn(q, c, o, k, e) > 0
<1> DEFINE f == KeptByAll(o, k)
           f2 == KeptByAll(o2, k2)
           n == Occurrences(Contents(q), e)
           n2 == Occurrences(Contents(q2), e)
<1>1. /\ HoldersIn(q, c, o, k, e) = n + CountOf(c, Thread, e) + CountOf(f, Thread, e)
      /\ n \in Nat /\ CountOf(c, Thread, e) \in Nat /\ CountOf(f, Thread, e) \in Nat
  BY HoldersAre
<1>2. /\ HoldersIn(q2, c2, o2, k2, e) = n2 + CountOf(c2, Thread, e) + CountOf(f2, Thread, e)
      /\ n2 \in Nat /\ CountOf(c2, Thread, e) \in Nat /\ CountOf(f2, Thread, e) \in Nat
  BY HoldersAre
<1>3. /\ f[t] = KeptBy(o, k, t) /\ f2[t] = KeptBy(o2, k2, t)
      /\ SameBut(f, f2, Thread, t)
  BY DEF KeptBy, KeptByAll, SameBut
<1> HIDE DEF f, f2, n, n2
<1>4. CountOf(c2, Thread, e) = CountOf(c, Thread, e) - One(c[t], e) + One(c2[t], e)
  BY CountOfMoved
<1>5. CountOf(f2, Thread, e) = CountOf(f, Thread, e) - One(f[t], e) + One(f2[t], e)
  BY <1>3, CountOfMoved
<1>6. /\ c[t] = e => CountOf(c, Thread, e) > 0
      /\ f[t] = e => CountOf(f, Thread, e) > 0
  BY CountOfPositive
<1>7. \A a : One(a, e) \in Int
  BY DEF One
<1>8. /\ HoldersIn(q, c, o, k, e) \in Nat
      /\ HoldersIn(q2, c2, o2, k2, e) \in Nat
      /\ HoldersIn(q2, c2, o2, k2, e) = HoldersIn(q, c, o, k, e) + n2 - n
           + One(c2[t], e) - One(c[t], e) + One(f2[t], e) - One(f[t], e)
  BY <1>1, <1>2, <1>4, <1>5, <1>7
<1>9. c[t] = e \/ f[t] = e => HoldersIn(q, c, o, k, e) > 0
  BY <1>1, <1>6
<1> QED
  BY <1>1, <1>2, <1>3, <1>8, <1>9 DEF n, n2

\* An event that a thread keeps has a holder.
LEMMA KeptHeld ==
  ASSUME IsFiniteSet(Thread), NEW q, IsRing(q, Capacity, NoEvent, Event),
         NEW c, NEW o, NEW k, NEW e \in Dynamic, NEW u \in Thread, KeptBy(o, k, u) = e
  PROVE  HoldersIn(q, c, o, k, e) > 0
<1>1. KeptByAll(o, k)[u] = e
  BY DEF KeptByAll
<1>2. CountOf(KeptByAll(o, k), Thread, e) > 0
  BY <1>1, CountOfPositive
<1> QED
  BY <1>2, HoldersAre

\* The same of a step of the specification.
LEMMA HeldStep ==
  ASSUME IsFiniteSet(Thread), IInv, IInv', NEW t \in Thread,
         SameBut(cur, cur', Thread, t), SameBut(owned, owned', Thread, t),
         SameBut(kept, kept', Thread, t),
         NEW e \in Dynamic
  PROVE  /\ Held[e] \in Nat /\ Held'[e] \in Nat
         /\ Occurrences(Contents(queue), e) \in Nat
         /\ Occurrences(Contents(queue'), e) \in Nat
         /\ Held'[e] = Held[e]
              + Occurrences(Contents(queue'), e) - Occurrences(Contents(queue), e)
              + One(cur'[t], e) - One(cur[t], e)
              + One(KeptBy(owned', kept', t), e) - One(KeptBy(owned, kept, t), e)
         /\ cur[t] = e \/ KeptBy(owned, kept, t) = e => Held[e] > 0
         /\ \A u \in Thread : KeptBy(owned', kept', u) = e => Held'[e] > 0
<1>1. IsRing(queue, Capacity, NoEvent, Event)
  BY InvRing DEF IInv
<1>2. IsRing(queue', Capacity, NoEvent, Event)
  BY DEF IInv, TypeOK, RingConsistent, IsRing, EventOrNull
<1>3. Held[e] = HoldersIn(queue, cur, owned, kept, e)
  BY DEF Held, Holders, HoldersIn
<1>4. Held'[e] = HoldersIn(queue', cur', owned', kept', e)
  BY DEF Held, Holders, HoldersIn
<1>5. PICK q2, c2, o2, k2 : q2 = queue' /\ c2 = cur' /\ o2 = owned' /\ k2 = kept'
  OBVIOUS
<1>6. /\ IsRing(q2, Capacity, NoEvent, Event)
      /\ SameBut(cur, c2, Thread, t) /\ SameBut(owned, o2, Thread, t)
      /\ SameBut(kept, k2, Thread, t)
  BY <1>2, <1>5
<1>7. /\ HoldersIn(queue, cur, owned, kept, e) \in Nat /\ HoldersIn(q2, c2, o2, k2, e) \in Nat
      /\ Occurrences(Contents(queue), e) \in Nat
      /\ Occurrences(Contents(q2), e) \in Nat
      /\ HoldersIn(q2, c2, o2, k2, e) = HoldersIn(queue, cur, owned, kept, e)
           + Occurrences(Contents(q2), e) - Occurrences(Contents(queue), e)
           + One(c2[t], e) - One(cur[t], e)
           + One(KeptBy(o2, k2, t), e) - One(KeptBy(owned, kept, t), e)
      /\ cur[t] = e \/ KeptBy(owned, kept, t) = e =>
           HoldersIn(queue, cur, owned, kept, e) > 0
  BY <1>1, <1>6, HoldersMoved
<1>8. \A u \in Thread : KeptBy(o2, k2, u) = e => HoldersIn(q2, c2, o2, k2, e) > 0
  BY <1>6, KeptHeld
<1> QED
  BY <1>3, <1>4, <1>5, <1>7, <1>8

\* A step that leaves the queue and the popped event of thread t alone.
LEMMA OwnerStep ==
  ASSUME IsFiniteSet(Thread), IInv, IInv', queue' = queue, cur' = cur, NEW t \in Thread,
         SameBut(owned, owned', Thread, t), SameBut(kept, kept', Thread, t),
         NEW e \in Dynamic
  PROVE  /\ Held[e] \in Nat /\ Held'[e] \in Nat
         /\ Held'[e] = Held[e]
              + One(KeptBy(owned', kept', t), e) - One(KeptBy(owned, kept, t), e)
         /\ KeptBy(owned, kept, t) = e => Held[e] > 0
<1>1. SameBut(cur, cur', Thread, t)
  BY DEF SameBut
<1>2. /\ Held[e] \in Nat /\ Held'[e] \in Nat
      /\ Occurrences(Contents(queue), e) \in Nat
      /\ Held'[e] = Held[e]
           + Occurrences(Contents(queue'), e) - Occurrences(Contents(queue), e)
           + One(cur'[t], e) - One(cur[t], e)
           + One(KeptBy(owned', kept', t), e) - One(KeptBy(owned, kept, t), e)
      /\ cur[t] = e \/ KeptBy(owned, kept, t) = e => Held[e] > 0
  BY <1>1, HeldStep
<1>3. \A a : One(a, e) \in Int
  BY DEF One
<1> QED
  BY <1>2, <1>3

LEMMA InitAccounts ==
  ASSUME IsFiniteSet(Thread), Init
  PROVE  AInv
<1>1. /\ IsRing(queue, Capacity, NoEvent, Event) /\ Contents(queue) = <<>>
  BY InitRing, EventQueueAssumption DEF Init
<1>2. ASSUME NEW e \in Dynamic PROVE Held[e] = 0
  <2> DEFINE f == KeptByAll(owned, kept)
  <2>1. Held[e] = HoldersIn(queue, cur, owned, kept, e)
    BY DEF Held, Holders, HoldersIn
  <2>2. /\ Held[e] = Occurrences(Contents(queue), e) + CountOf(cur, Thread, e)
                       + CountOf(f, Thread, e)
        /\ CountOf(cur, Thread, e) \in Nat /\ CountOf(f, Thread, e) \in Nat
    BY <1>1, <2>1, HoldersAre
  <2>3. e # NoEvent
    BY EventQueueAssumption
  <2>4. \A t \in Thread : cur[t] # e /\ f[t] # e
    BY <2>3 DEF Init, KeptBy, KeptByAll
  <2> HIDE DEF f
  <2>5. CountOf(cur, Thread, e) = 0 /\ CountOf(f, Thread, e) = 0
    BY <2>2, <2>4, CountOfPositive
  <2>6. Occurrences(Contents(queue), e) = 0
    BY <1>1, OccurrencesEmpty
  <2> QED
    BY <2>2, <2>5, <2>6
<1>3. heap.live = {} /\ ~heap.corrupt
  BY DEF Init, HeapInit
<1>4. Balanced(heap, Held) /\ Ownership(heap, Held, owned, kept) /\ Leakless(heap, Held, owned)
  BY <1>2, <1>3 DEF Init, Balanced, Ownership, Leakless
<1> QED
  BY <1>3, <1>4 DEF Init, AInv, InHand, KeptOwned

\* One event more in the queue.
LEMMA PushCounts ==
  ASSUME IInv, NEW e \in Event, NEW lifo \in BOOLEAN, NEW m \in Nat,
         PushOK(e, lifo, m), NEW x
  PROVE  Occurrences(Contents(queue'), x) = Occurrences(Contents(queue), x) + One(e, x)
<1>1. queue.nfree # 0
  <2>1. queue.nfree \in Nat /\ ~(queue.nfree <= m)
    BY EventQueueAssumption DEF IInv, TypeOK, PushOK, NoRoom, QueueType
  <2> QED
    BY <2>1
<1>2. Contents(queue) \in Seq(Event)
  BY InvRing, EmptyRing DEF IInv
<1>3. Contents(queue') = IF lifo THEN <<e>> \o Contents(queue) ELSE Append(Contents(queue), e)
  BY <1>1, PushRing DEF IInv, PushOK
<1> QED
  BY <1>2, <1>3, OccurrencesAppend, OccurrencesPrepend

\* One event less.
LEMMA PopCounts ==
  ASSUME IInv, ~IsEmpty(queue), queue' = PopFront(queue), NEW x
  PROVE  /\ FirstEvent(queue) \in Event
         /\ Occurrences(Contents(queue), x)
              = Occurrences(Contents(queue'), x) + One(FirstEvent(queue), x)
<1>1. IsRing(queue, Capacity, NoEvent, Event) /\ Capacity \in Nat \ {0}
  BY InvRing DEF IInv
<1>2. Contents(queue) \in Seq(Event)
  BY <1>1, EmptyRing
<1>3. /\ Contents(queue') = Tail(Contents(queue)) /\ Contents(queue) # <<>>
      /\ FirstEvent(queue) = Contents(queue)[1] /\ FirstEvent(queue) \in Event
  BY <1>1, PopRing
<1> QED
  BY <1>2, <1>3, OccurrencesTail

\* A step that moves an event from the queue to a thread's hand, or moves none,
\* changes no account.
LEMMA SameAccounts ==
  ASSUME IInv, AInv, ~halted, heap' = heap, owned' = owned, kept' = kept,
         \A e \in Dynamic : Held'[e] = Held[e], InHand'
  PROVE  AInv'
<1>1. heap.live \subseteq Dynamic
  BY DEF IInv, TypeOK, HeapType
<1>2. Balanced(heap, Held') /\ Leakless(heap, Held', owned)
  BY <1>1 DEF AInv, Balanced, Leakless
<1>3. Ownership(heap, Held', owned, kept)
  BY <1>1 DEF AInv, Ownership
<1> QED
  BY <1>2, <1>3 DEF AInv, KeptOwned

\* What a step may do to the owners when it disturbs event e only: no thread
\* becomes an owner, and only e loses one.
OwnersLessThan(e) ==
  /\ \A u \in Thread : owned'[u] # NoEvent => owned'[u] = owned[u]
  /\ \A u \in Thread : owned[u] # e => owned'[u] = owned[u] /\ kept'[u] = kept[u]

\* A reference is taken: by a queue slot, or by the owner.
LEMMA CountedAccounts ==
  ASSUME IInv, AInv, ~halted, Held \in [Dynamic -> Nat],
         NEW e \in heap.live, CanCount(heap, e), heap' = Counted(heap, e),
         \A x \in Dynamic : Held'[x] = Held[x] + One(e, x),
         OwnersLessThan(e), \A u \in Thread : owned'[u] = e => kept'[u]
  PROVE  /\ ~heap'.corrupt /\ Leakless(heap', Held', owned')
         /\ Balanced(heap', Held') /\ Ownership(heap', Held', owned', kept')
<1>1. /\ heap \in HeapType /\ heap.live \subseteq Dynamic /\ e \in Dynamic /\ e # NoEvent
      /\ owned \in [Thread -> Dynamic \cup {NoEvent}]
  BY EventQueueAssumption DEF IInv, TypeOK, HeapType
<1>2. /\ ~heap.corrupt /\ Leakless(heap, Held, owned)
      /\ Balanced(heap, Held) /\ Ownership(heap, Held, owned, kept)
  BY DEF AInv
<1>3. PICK H2 : H2 = Held'
  OBVIOUS
<1>4. \A x \in Dynamic : H2[x] = Held[x] + One(e, x)
  BY <1>3
<1>5. Balanced(heap', H2) /\ heap'.live = heap.live /\ ~heap'.corrupt
  BY <1>1, <1>2, <1>4, CountedBalanced
<1>6. H2[e] > 0 /\ \A x \in Dynamic : x # e => H2[x] = Held[x]
  BY <1>1, <1>4 DEF One
<1>7. Leakless(heap', H2, owned')
  <2> SUFFICES ASSUME NEW x \in heap.live, x # e
               PROVE  H2[x] > 0 \/ \E u \in Thread : owned'[u] = x
    BY <1>5, <1>6 DEF Leakless
  <2>1. Held[x] > 0 \/ \E u \in Thread : owned[u] = x
    BY <1>2 DEF Leakless
  <2>2. H2[x] = Held[x]
    BY <1>1, <1>6
  <2> QED
    BY <2>1, <2>2 DEF OwnersLessThan
<1>8. Ownership(heap', H2, owned', kept')
  <2>1. \A u \in Thread : owned'[u] # NoEvent => owned'[u] \in heap.live
    BY <1>2 DEF Ownership, OwnersLessThan
  <2>2. ASSUME NEW u \in Thread, owned'[u] # NoEvent, ~kept'[u] PROVE H2[owned'[u]] = 0
    <3>1. owned'[u] = owned[u] /\ owned[u] # e /\ ~kept[u]
      BY <2>2 DEF OwnersLessThan
    <3>2. Held[owned[u]] = 0 /\ owned[u] \in Dynamic
      BY <1>1, <1>2, <2>2, <3>1 DEF Ownership
    <3> QED
      BY <1>6, <3>1, <3>2
  <2>3. \A u, v \in Thread : owned'[u] = owned'[v] /\ owned'[u] # NoEvent => u = v
    BY <1>2 DEF Ownership, OwnersLessThan
  <2> QED
    BY <1>5, <2>1, <2>2, <2>3 DEF Ownership
<1> QED
  BY <1>3, <1>5, <1>7, <1>8

\* A reference is given back: by a callback or flush, or by the owner.
LEMMA FreedAccounts ==
  ASSUME IInv, AInv, ~halted, Held \in [Dynamic -> Nat], Held' \in [Dynamic -> Nat],
         NEW e \in Dynamic, Held[e] > 0, heap' = Freed(heap, e),
         \A x \in Dynamic : Held'[x] = Held[x] - One(e, x),
         OwnersLessThan(e), \A u \in Thread : owned'[u] = e => kept'[u] = kept[u],
         \A u \in Thread : owned'[u] = e /\ kept'[u] => Held'[e] > 0
  PROVE  /\ ~heap'.corrupt /\ Leakless(heap', Held', owned')
         /\ Balanced(heap', Held') /\ Ownership(heap', Held', owned', kept')
<1>1. /\ heap \in HeapType /\ heap.live \subseteq Dynamic /\ e # NoEvent
      /\ owned \in [Thread -> Dynamic \cup {NoEvent}]
  BY EventQueueAssumption DEF IInv, TypeOK, HeapType
<1>2. /\ ~heap.corrupt /\ Leakless(heap, Held, owned)
      /\ Balanced(heap, Held) /\ Ownership(heap, Held, owned, kept)
  BY DEF AInv
<1>3. PICK H2 : H2 = Held'
  OBVIOUS
<1>4. \A x \in Dynamic : H2[x] = Held[x] - One(e, x)
  BY <1>3
<1>5. /\ Balanced(heap', H2) /\ ~heap'.corrupt
      /\ heap'.live = IF H2[e] = 0 THEN heap.live \ {e} ELSE heap.live
  <2>1. /\ Balanced(Freed(heap, e), H2)
        /\ Freed(heap, e).live = IF H2[e] = 0 THEN heap.live \ {e} ELSE heap.live
        /\ Freed(heap, e).corrupt = heap.corrupt
    BY SMTT(30), <1>1, <1>2, <1>4, FreedBalanced
  <2> QED
    BY <1>2, <2>1
<1>6. H2[e] \in Nat /\ \A x \in Dynamic : x # e => H2[x] = Held[x]
  BY <1>1, <1>3, <1>4 DEF One
<1>7. Leakless(heap', H2, owned')
  <2> SUFFICES ASSUME NEW x \in heap'.live
               PROVE  H2[x] > 0 \/ \E u \in Thread : owned'[u] = x
    BY DEF Leakless
  <2>1. CASE x = e
    BY <1>5, <1>6, <2>1
  <2>2. CASE x # e
    <3>1. x \in heap.live
      BY <1>5
    <3>2. Held[x] > 0 \/ \E u \in Thread : owned[u] = x
      BY <1>2, <3>1 DEF Leakless
    <3>3. H2[x] = Held[x]
      BY <1>1, <1>6, <2>2, <3>1
    <3> QED
      BY <2>2, <3>2, <3>3 DEF OwnersLessThan
  <2> QED
    BY <2>1, <2>2
<1>8. Ownership(heap', H2, owned', kept')
  <2>1. ASSUME NEW u \in Thread, owned'[u] # NoEvent, ~kept'[u] PROVE H2[owned'[u]] = 0 /\ owned'[u] # e
    <3>1. owned'[u] = owned[u] /\ ~kept[u]
      BY <2>1 DEF OwnersLessThan
    <3>2. Held[owned[u]] = 0 /\ owned[u] \in Dynamic
      BY <1>1, <1>2, <2>1, <3>1 DEF Ownership
    <3>3. owned[u] # e
      BY <3>2
    <3> QED
      BY <1>6, <3>1, <3>2, <3>3
  <2>2. ASSUME NEW u \in Thread, owned'[u] # NoEvent PROVE owned'[u] \in heap'.live
    <3>1. owned'[u] \in heap.live
      BY <1>2, <2>2 DEF Ownership, OwnersLessThan
    <3>2. owned'[u] = e => H2[e] # 0
      <4>1. owned'[u] = e => kept'[u]
        BY <2>1, <2>2
      <4>2. owned'[u] = e => Held'[e] > 0
        BY <4>1
      <4> QED
        BY <1>3, <1>6, <4>2
    <3> QED
      BY <1>5, <3>1, <3>2
  <2>3. \A u, v \in Thread : owned'[u] = owned'[v] /\ owned'[u] # NoEvent => u = v
    BY <1>2 DEF Ownership, OwnersLessThan
  <2> QED
    BY <2>1, <2>2, <2>3 DEF Ownership
<1> QED
  BY <1>3, <1>5, <1>7, <1>8

\* An owner gives its event up unheld: it is recycled.
LEMMA UnheldAccounts ==
  ASSUME IInv, AInv, ~halted, Held \in [Dynamic -> Nat],
         NEW e \in heap.live, Held[e] = 0, heap' = Freed(heap, e),
         \A x \in Dynamic : Held'[x] = Held[x],
         OwnersLessThan(e), \A u \in Thread : owned'[u] # e
  PROVE  /\ ~heap'.corrupt /\ Leakless(heap', Held', owned')
         /\ Balanced(heap', Held') /\ Ownership(heap', Held', owned', kept')
<1>1. /\ heap \in HeapType /\ heap.live \subseteq Dynamic /\ e # NoEvent
      /\ owned \in [Thread -> Dynamic \cup {NoEvent}]
  BY EventQueueAssumption DEF IInv, TypeOK, HeapType
<1>2. /\ ~heap.corrupt /\ Leakless(heap, Held, owned)
      /\ Balanced(heap, Held) /\ Ownership(heap, Held, owned, kept)
  BY DEF AInv
<1>3. Balanced(heap', Held) /\ heap'.live = heap.live \ {e} /\ ~heap'.corrupt
  BY <1>1, <1>2, FreedUnheld
<1>4. Balanced(heap', Held')
  BY <1>1, <1>3 DEF Balanced
<1>5. Leakless(heap', Held', owned')
  <2> SUFFICES ASSUME NEW x \in heap.live, x # e
               PROVE  Held'[x] > 0 \/ \E u \in Thread : owned'[u] = x
    BY <1>3 DEF Leakless
  <2>1. Held[x] > 0 \/ \E u \in Thread : owned[u] = x
    BY <1>2 DEF Leakless
  <2>2. Held'[x] = Held[x]
    BY <1>1
  <2> QED
    BY <2>1, <2>2 DEF OwnersLessThan
<1>6. \A u \in Thread : owned'[u] # NoEvent => owned[u] # e /\ owned'[u] = owned[u] /\ kept'[u] = kept[u]
  BY DEF OwnersLessThan
<1>7. Ownership(heap', Held', owned', kept')
  BY <1>1, <1>2, <1>3, <1>6 DEF Ownership
<1> QED
  BY <1>3, <1>4, <1>5, <1>7

\* A refused push of an event that others hold leaves no block touched after it
\* was freed, whatever becomes of the counter.
LEMMA RefusedHeld ==
  ASSUME IInv, AInv, NEW e \in heap.live, heap' = Freed(heap, e),
         owned' = owned, \A x \in Dynamic : Held'[x] = Held[x]
  PROVE  ~heap'.corrupt /\ Leakless(heap', Held', owned')
<1>1. heap \in HeapType /\ heap.live \subseteq Dynamic /\ ~heap.corrupt
  BY DEF IInv, TypeOK, HeapType, AInv
<1>2. heap'.live \subseteq heap.live /\ ~heap'.corrupt
  <2>1. CASE heap.ref[e] > 1
    <3>1. heap' = [heap EXCEPT !.ref[e] = @ - 1]
      BY <1>1, <2>1 DEF Freed, IsStatic
    <3> QED
      BY <1>1, <3>1 DEF HeapType
  <2>2. CASE ~(heap.ref[e] > 1)
    <3>1. heap' = [heap EXCEPT !.live = @ \ {e}]
      BY <1>1, <2>2 DEF Freed, IsStatic
    <3> QED
      BY <1>1, <3>1 DEF HeapType
  <2> QED
    BY <2>1, <2>2
<1>3. Leakless(heap', Held', owned)
  BY <1>1, <1>2 DEF AInv, Leakless
<1> QED
  BY <1>2, <1>3

\* An event that somebody holds is allocated.
LEMMA HeldLive ==
  ASSUME IInv, AInv, ~halted, NEW e \in Dynamic, Held[e] > 0
  PROVE  e \in heap.live
BY DEF AInv, Balanced

LEMMA OwnedLive ==
  ASSUME IInv, AInv, ~halted, NEW t \in Thread, owned[t] # NoEvent
  PROVE  /\ owned[t] \in heap.live /\ owned[t] \in Dynamic
         /\ ~kept[t] => Held[owned[t]] = 0
         /\ \A u \in Thread : owned[u] = owned[t] => u = t
BY DEF AInv, Ownership, IInv, TypeOK

LEMMA AllocateAccounts ==
  ASSUME IsFiniteSet(Thread), IInv, IInv', AInv, ~halted,
         NEW t \in Thread, NEW e \in Dynamic, Allocate(t, e)
  PROVE  AInv'
<1>1. /\ owned[t] = NoEvent /\ e \in Dynamic \ heap.live /\ heap' = Allocated(heap, e)
      /\ owned' = [owned EXCEPT ![t] = e]
      /\ queue' = queue /\ kept' = kept /\ cur' = cur /\ pc' = pc /\ halted' = halted
  BY DEF Allocate
<1>2. /\ owned \in [Thread -> Dynamic \cup {NoEvent}] /\ e # NoEvent
      /\ heap \in HeapType /\ heap.live \subseteq Dynamic /\ ~kept[t]
  BY <1>1, EventQueueAssumption DEF IInv, TypeOK, HeapType, AInv, KeptOwned
<1>3. /\ SameBut(cur, cur', Thread, t) /\ SameBut(owned, owned', Thread, t)
      /\ SameBut(kept, kept', Thread, t)
  BY <1>1, <1>2 DEF SameBut
<1>4. KeptBy(owned', kept', t) = NoEvent /\ KeptBy(owned, kept, t) = NoEvent
  BY <1>1, <1>2 DEF KeptBy
<1>5. \A x \in Dynamic : Held'[x] = Held[x] /\ Held[x] \in Nat
  <2> SUFFICES ASSUME NEW x \in Dynamic PROVE Held'[x] = Held[x] /\ Held[x] \in Nat
    OBVIOUS
  <2>1. /\ Held[x] \in Nat
        /\ Held'[x] = Held[x] + One(KeptBy(owned', kept', t), x) - One(KeptBy(owned, kept, t), x)
    BY <1>1, <1>3, OwnerStep
  <2>2. One(NoEvent, x) \in Int
    BY DEF One
  <2> QED
    BY <1>4, <2>1, <2>2
<1>6. /\ heap'.live = heap.live \cup {e} /\ heap'.ref = [heap.ref EXCEPT ![e] = 0]
      /\ ~heap'.corrupt
  BY <1>1 DEF Allocated, AInv
<1>7. Balanced(heap, Held) /\ Ownership(heap, Held, owned, kept) /\ Leakless(heap, Held, owned)
  BY DEF AInv
<1>8. Balanced(heap', Held')
  BY <1>1, <1>2, <1>5, <1>6, <1>7 DEF Balanced, HeapType
<1>9. Leakless(heap', Held', owned')
  <2>1. \A u \in Thread : owned'[u] = IF u = t THEN e ELSE owned[u]
    BY <1>1, <1>2
  <2>2. ASSUME NEW x \in heap'.live PROVE Held'[x] > 0 \/ \E u \in Thread : owned'[u] = x
    <3>1. CASE x = e
      BY <2>1, <3>1
    <3>2. CASE x # e
      <4>1. x \in heap.live
        BY <1>6, <2>2, <3>2
      <4>2. Held'[x] = Held[x]
        BY <1>2, <1>5, <4>1
      <4>3. Held[x] > 0 \/ \E u \in Thread : owned[u] = x
        BY <1>7, <4>1 DEF Leakless
      <4>4. x # NoEvent
        BY <1>2, <4>1, EventQueueAssumption
      <4> QED
        BY <1>1, <2>1, <4>2, <4>3, <4>4
    <3> QED
      BY <3>1, <3>2
  <2> QED
    BY <2>2 DEF Leakless
<1>10. Ownership(heap', Held', owned', kept')
  <2>1. \A u \in Thread : owned[u] # e
    BY <1>1, <1>2, <1>7 DEF Ownership
  <2>2. Held'[e] = 0
    BY <1>1, <1>5, <1>7 DEF Balanced
  <2>3. \A u \in Thread : owned'[u] = IF u = t THEN e ELSE owned[u]
    BY <1>1, <1>2
  <2>4. \A u \in Thread : owned'[u] # NoEvent => owned'[u] \in heap'.live
    BY <1>6, <1>7, <2>3 DEF Ownership
  <2>5. \A u \in Thread : owned'[u] # NoEvent /\ ~kept'[u] => Held'[owned'[u]] = 0
    BY <1>1, <1>2, <1>5, <1>7, <2>2, <2>3 DEF Ownership
  <2>6. \A u, v \in Thread : owned'[u] = owned'[v] /\ owned'[u] # NoEvent => u = v
    BY <1>7, <2>1, <2>3 DEF Ownership
  <2> QED
    BY <2>4, <2>5, <2>6 DEF Ownership
<1>11. KeptOwned' /\ InHand'
  BY <1>1, <1>2 DEF AInv, KeptOwned, InHand
<1> QED
  BY <1>6, <1>8, <1>9, <1>10, <1>11 DEF AInv

LEMMA KeepAccounts ==
  ASSUME IsFiniteSet(Thread), IInv, IInv', AInv, ~halted, NEW t \in Thread, Keep(t)
  PROVE  AInv'
<1> DEFINE e == owned[t]
<1>1. /\ e # NoEvent /\ ~kept[t] /\ kept' = [kept EXCEPT ![t] = TRUE]
      /\ queue' = queue /\ owned' = owned /\ cur' = cur /\ pc' = pc
      /\ halted' = ~CanCount(heap, e)
      /\ heap' = IF CanCount(heap, e) THEN Counted(heap, e) ELSE heap
  BY DEF Keep
<1>2. kept \in [Thread -> BOOLEAN] /\ heap.live \subseteq Dynamic
  BY DEF IInv, TypeOK, HeapType
<1>3. e \in heap.live /\ e \in Dynamic /\ \A u \in Thread : owned[u] = e => u = t
  BY <1>1, OwnedLive
<1>4. /\ SameBut(cur, cur', Thread, t) /\ SameBut(owned, owned', Thread, t)
      /\ SameBut(kept, kept', Thread, t)
  BY <1>1, <1>2 DEF SameBut
<1>5. KeptBy(owned', kept', t) = e /\ KeptBy(owned, kept, t) = NoEvent
  BY <1>1, <1>2 DEF KeptBy
<1>6. \A x \in Dynamic : Held'[x] = Held[x] + One(e, x) /\ Held[x] \in Nat
  <2> SUFFICES ASSUME NEW x \in Dynamic PROVE Held'[x] = Held[x] + One(e, x) /\ Held[x] \in Nat
    OBVIOUS
  <2>1. One(NoEvent, x) = 0 /\ One(e, x) \in Int
    BY EventQueueAssumption DEF One
  <2>2. /\ Held[x] \in Nat
        /\ Held'[x] = Held[x] + One(KeptBy(owned', kept', t), x) - One(KeptBy(owned, kept, t), x)
    BY <1>1, <1>4, OwnerStep
  <2> HIDE DEF e
  <2> QED
    BY <1>5, <2>1, <2>2
<1>7. KeptOwned' /\ InHand'
  BY <1>1, <1>2 DEF AInv, KeptOwned, InHand
<1>8. CASE CanCount(heap, e)
  <2>1. Held \in [Dynamic -> Nat]
    BY <1>6 DEF Held
  <2>2. OwnersLessThan(e) /\ \A u \in Thread : owned'[u] = e => kept'[u]
    BY <1>1, <1>2, <1>3 DEF OwnersLessThan
  <2>3. heap' = Counted(heap, e)
    BY <1>1, <1>8
  <2>4. /\ ~heap'.corrupt /\ Leakless(heap', Held', owned')
        /\ Balanced(heap', Held') /\ Ownership(heap', Held', owned', kept')
    <3> HIDE DEF e
    <3> QED
      BY <1>3, <1>6, <1>8, <2>1, <2>2, <2>3, CountedAccounts
  <2> QED
    BY <1>7, <2>4 DEF AInv
<1>9. CASE ~CanCount(heap, e)
  <2>1. heap' = heap /\ halted'
    BY <1>1, <1>9
  <2>2. \A x \in Dynamic : Held[x] > 0 => Held'[x] > 0
    BY <1>6 DEF One
  <2>3. Leakless(heap', Held', owned')
    BY <1>1, <1>2, <2>1, <2>2 DEF AInv, Leakless
  <2> QED
    BY <1>7, <2>1, <2>3 DEF AInv
<1> QED
  BY <1>8, <1>9

LEMMA ReleaseAccounts ==
  ASSUME IsFiniteSet(Thread), IInv, IInv', AInv, ~halted, NEW t \in Thread, Release(t)
  PROVE  AInv'
<1> DEFINE e == owned[t]
<1>1. /\ e # NoEvent /\ heap' = Freed(heap, e)
      /\ owned' = [owned EXCEPT ![t] = NoEvent] /\ kept' = [kept EXCEPT ![t] = FALSE]
      /\ queue' = queue /\ cur' = cur /\ pc' = pc /\ halted' = halted
  BY DEF Release
<1>2. kept \in [Thread -> BOOLEAN] /\ owned \in [Thread -> Dynamic \cup {NoEvent}]
  BY DEF IInv, TypeOK
<1>3. /\ e \in heap.live /\ e \in Dynamic /\ \A u \in Thread : owned[u] = e => u = t
      /\ ~kept[t] => Held[e] = 0
  BY <1>1, OwnedLive
<1>4. SameBut(owned, owned', Thread, t) /\ SameBut(kept, kept', Thread, t)
  BY <1>1, <1>2 DEF SameBut
<1>5. KeptBy(owned', kept', t) = NoEvent
  BY <1>1, <1>2 DEF KeptBy
<1>6. ASSUME NEW x \in Dynamic
      PROVE  /\ Held[x] \in Nat /\ Held'[x] \in Nat
             /\ Held'[x] = Held[x] - One(KeptBy(owned, kept, t), x)
             /\ KeptBy(owned, kept, t) = x => Held[x] > 0
  <2>1. One(NoEvent, x) = 0 /\ \A a : One(a, x) \in Int
    BY EventQueueAssumption DEF One
  <2>2. /\ Held[x] \in Nat /\ Held'[x] \in Nat
        /\ Held'[x] = Held[x] + One(KeptBy(owned', kept', t), x) - One(KeptBy(owned, kept, t), x)
        /\ KeptBy(owned, kept, t) = x => Held[x] > 0
    BY <1>1, <1>4, OwnerStep
  <2> QED
    BY <1>5, <2>1, <2>2
<1>7. KeptOwned' /\ InHand'
  BY <1>1, <1>2 DEF AInv, KeptOwned, InHand
<1>8. Held \in [Dynamic -> Nat] /\ Held' \in [Dynamic -> Nat]
  <2>1. \A x \in Dynamic : Held[x] \in Nat /\ Held'[x] \in Nat
    BY <1>6
  <2> QED
    BY <2>1 DEF Held
<1>9. OwnersLessThan(e) /\ \A u \in Thread : owned'[u] # e
  BY <1>1, <1>2, <1>3 DEF OwnersLessThan
<1>10. /\ ~heap'.corrupt /\ Leakless(heap', Held', owned')
       /\ Balanced(heap', Held') /\ Ownership(heap', Held', owned', kept')
  <2>1. CASE kept[t]
    <3>1. KeptBy(owned, kept, t) = e
      BY <2>1 DEF KeptBy
    <3>2. Held[e] > 0 /\ \A x \in Dynamic : Held'[x] = Held[x] - One(e, x)
      BY <1>3, <1>6, <3>1
    <3> HIDE DEF e
    <3> QED
      BY <1>1, <1>3, <1>8, <1>9, <3>2, FreedAccounts
  <2>2. CASE ~kept[t]
    <3>1. KeptBy(owned, kept, t) = NoEvent
      BY <2>2 DEF KeptBy
    <3>2. \A x \in Dynamic : One(NoEvent, x) = 0
      BY EventQueueAssumption DEF One
    <3>3. \A x \in Dynamic : Held'[x] = Held[x]
      BY <1>6, <3>1, <3>2
    <3> HIDE DEF e
    <3> QED
      BY <1>1, <1>3, <1>8, <1>9, <2>2, <3>3, UnheldAccounts
  <2> QED
    BY <2>1, <2>2
<1> QED
  BY <1>7, <1>10 DEF AInv

\* The pop of a consumer or of a flush: the event goes from the queue to the
\* thread's hand.
LEMMA TakeAccounts ==
  ASSUME IsFiniteSet(Thread), IInv, IInv', AInv, ~halted, NEW t \in Thread,
         pc[t] \in {"idle", "flush_pop"}, ~IsEmpty(queue),
         cur' = [cur EXCEPT ![t] = FirstEvent(queue)], queue' = PopFront(queue),
         NEW l \in {"handling", "flush_free"}, pc' = [pc EXCEPT ![t] = l],
         UNCHANGED <<heap, owned, kept>>
  PROVE  AInv'
<1> DEFINE f == FirstEvent(queue)
<1>1. /\ cur \in [Thread -> EventOrNull]
      /\ pc \in [Thread -> {"idle", "handling", "flush_pop", "flush_free"}]
  BY DEF IInv, TypeOK
<1>2. f \in Event /\ f # NoEvent
  BY PopCounts, EventQueueAssumption
<1>3. cur[t] = NoEvent /\ cur'[t] = f
  BY <1>1 DEF AInv, InHand
<1>4. /\ SameBut(cur, cur', Thread, t) /\ SameBut(owned, owned', Thread, t)
      /\ SameBut(kept, kept', Thread, t)
  BY <1>1 DEF SameBut
<1>5. ASSUME NEW x \in Dynamic PROVE Held'[x] = Held[x]
  <2>1. One(NoEvent, x) = 0 /\ \A a : One(a, x) \in Int
    BY EventQueueAssumption DEF One
  <2>2. Occurrences(Contents(queue), x) = Occurrences(Contents(queue'), x) + One(f, x)
    BY PopCounts
  <2>3. KeptBy(owned', kept', t) = KeptBy(owned, kept, t)
    BY DEF KeptBy
  <2>4. /\ Held[x] \in Nat
        /\ Occurrences(Contents(queue), x) \in Nat
        /\ Occurrences(Contents(queue'), x) \in Nat
        /\ Held'[x] = Held[x]
             + Occurrences(Contents(queue'), x) - Occurrences(Contents(queue), x)
             + One(cur'[t], x) - One(cur[t], x)
             + One(KeptBy(owned', kept', t), x) - One(KeptBy(owned, kept, t), x)
    BY <1>4, HeldStep
  <2> DEFINE n == Occurrences(Contents(queue), x)
             n2 == Occurrences(Contents(queue'), x)
             h2 == Held'[x]
  <2>5. cur'[t] = f /\ One(cur[t], x) = 0 /\ n = n2 + One(f, x)
    BY <1>3, <2>1, <2>2
  <2>6. h2 = Held[x] + n2 - n + One(f, x) - 0
             + One(KeptBy(owned, kept, t), x) - One(KeptBy(owned, kept, t), x)
    BY <2>3, <2>4, <2>5
  <2> HIDE DEF f, n, n2, h2
  <2>7. h2 = Held[x]
    BY <2>1, <2>4, <2>5, <2>6 DEF n, n2
  <2> QED
    BY <2>7 DEF h2
<1>6. InHand'
  BY <1>1, <1>2 DEF AInv, InHand
<1> QED
  BY <1>5, <1>6, SameAccounts

\* The release after the callback, or in the flush.
LEMMA DropAccounts ==
  ASSUME IsFiniteSet(Thread), IInv, IInv', AInv, ~halted, NEW t \in Thread,
         pc[t] \in {"handling", "flush_free"},
         heap' = Freed(heap, cur[t]), cur' = [cur EXCEPT ![t] = NoEvent],
         NEW l \in {"idle", "flush_pop"}, pc' = [pc EXCEPT ![t] = l],
         UNCHANGED <<queue, owned, kept>>
  PROVE  AInv'
<1> DEFINE e == cur[t]
<1>1. /\ cur \in [Thread -> EventOrNull] /\ heap.live \subseteq Dynamic
      /\ pc \in [Thread -> {"idle", "handling", "flush_pop", "flush_free"}]
      /\ owned \in [Thread -> Dynamic \cup {NoEvent}]
  BY DEF IInv, TypeOK, HeapType
<1>2. e \in Event /\ e # NoEvent /\ cur'[t] = NoEvent
  BY <1>1 DEF AInv, InHand, EventOrNull
<1>3. /\ SameBut(cur, cur', Thread, t) /\ SameBut(owned, owned', Thread, t)
      /\ SameBut(kept, kept', Thread, t)
  BY <1>1 DEF SameBut
<1>4. ASSUME NEW x \in Dynamic
      PROVE  /\ Held[x] \in Nat /\ Held'[x] \in Nat /\ Held'[x] = Held[x] - One(e, x)
             /\ e = x => Held[x] > 0
             /\ \A u \in Thread : KeptBy(owned', kept', u) = x => Held'[x] > 0
  <2>1. One(NoEvent, x) = 0 /\ \A a : One(a, x) \in Int
    BY EventQueueAssumption DEF One
  <2>2. /\ Held[x] \in Nat /\ Held'[x] \in Nat
        /\ Occurrences(Contents(queue), x) \in Nat
        /\ Held'[x] = Held[x]
             + Occurrences(Contents(queue'), x) - Occurrences(Contents(queue), x)
             + One(cur'[t], x) - One(cur[t], x)
             + One(KeptBy(owned', kept', t), x) - One(KeptBy(owned, kept, t), x)
        /\ cur[t] = x \/ KeptBy(owned, kept, t) = x => Held[x] > 0
        /\ \A u \in Thread : KeptBy(owned', kept', u) = x => Held'[x] > 0
    BY <1>3, HeldStep
  <2>3. KeptBy(owned', kept', t) = KeptBy(owned, kept, t)
    BY DEF KeptBy
  <2> QED
    BY <1>2, <2>1, <2>2, <2>3
<1>5. InHand'
  BY <1>1 DEF AInv, InHand
<1>6. CASE IsStatic(e)
  <2>1. heap' = heap
    BY <1>6 DEF Freed
  <2>2. \A x \in Dynamic : Held'[x] = Held[x]
    <3>1. \A x \in Dynamic : One(e, x) = 0
      BY <1>6 DEF One, IsStatic
    <3> QED
      BY <1>4, <3>1
  <2> QED
    BY <1>5, <2>1, <2>2, SameAccounts
<1>7. CASE ~IsStatic(e)
  <2>1. e \in Dynamic /\ Held[e] > 0 /\ e # NoEvent
    BY <1>2, <1>4, <1>7 DEF IsStatic
  <2>2. Held \in [Dynamic -> Nat] /\ Held' \in [Dynamic -> Nat]
    <3>1. \A x \in Dynamic : Held[x] \in Nat /\ Held'[x] \in Nat
      BY <1>4
    <3> QED
      BY <3>1 DEF Held
  <2>3. OwnersLessThan(e) /\ \A u \in Thread : owned'[u] = e => kept'[u] = kept[u]
    BY DEF OwnersLessThan
  <2>4. \A u \in Thread : owned'[u] = e /\ kept'[u] => Held'[e] > 0
    BY <1>4, <2>1 DEF KeptBy
  <2>5. \A x \in Dynamic : Held'[x] = Held[x] - One(e, x)
    BY <1>4
  <2>6. /\ ~heap'.corrupt /\ Leakless(heap', Held', owned')
        /\ Balanced(heap', Held') /\ Ownership(heap', Held', owned', kept')
    <3> HIDE DEF e
    <3>1. heap' = Freed(heap, e)
      BY DEF e
    <3> QED
      BY <2>1, <2>2, <2>3, <2>4, <2>5, <3>1, FreedAccounts
  <2>7. KeptOwned'
    BY DEF AInv, KeptOwned
  <2> QED
    BY <1>5, <2>6, <2>7 DEF AInv
<1> QED
  BY <1>6, <1>7

\* A push by thread t: what it does to the holders.
LEMMA PushStep ==
  ASSUME IsFiniteSet(Thread), IInv, IInv', cur' = cur, kept' = kept, NEW t \in Thread,
         SameBut(owned, owned', Thread, t),
         KeptBy(owned', kept', t) = KeptBy(owned, kept, t),
         NEW e \in Event, NEW lifo \in BOOLEAN, NEW m \in Nat, PushEvent(e, lifo, m),
         NEW x \in Dynamic
  PROVE  /\ Held[x] \in Nat /\ Held'[x] \in Nat
         /\ PushOK(e, lifo, m) => Held'[x] = Held[x] + One(e, x)
         /\ ~PushOK(e, lifo, m) => Held'[x] = Held[x]
         /\ cur[t] = x \/ KeptBy(owned, kept, t) = x => Held[x] > 0
<1> DEFINE n == Occurrences(Contents(queue), x)
           n2 == Occurrences(Contents(queue'), x)
           h2 == Held'[x]
<1>1. SameBut(cur, cur', Thread, t) /\ SameBut(kept, kept', Thread, t)
  BY DEF SameBut
<1>2. /\ Held[x] \in Nat /\ h2 \in Nat /\ n \in Nat /\ n2 \in Nat
      /\ h2 = Held[x] + n2 - n + One(cur'[t], x) - One(cur[t], x)
           + One(KeptBy(owned', kept', t), x) - One(KeptBy(owned, kept, t), x)
      /\ cur[t] = x \/ KeptBy(owned, kept, t) = x => Held[x] > 0
  BY <1>1, HeldStep
<1>3. \A a : One(a, x) \in Int
  BY DEF One
<1>4. h2 = Held[x] + n2 - n + One(cur[t], x) - One(cur[t], x)
             + One(KeptBy(owned, kept, t), x) - One(KeptBy(owned, kept, t), x)
  BY <1>2
<1>5. PushOK(e, lifo, m) => n2 = n + One(e, x)
  BY PushCounts
<1>6. ~PushOK(e, lifo, m) => n2 = n
  BY DEF PushEvent, PushRefused, PushOverflow
<1> HIDE DEF n, n2, h2
<1>7. h2 = Held[x] + n2 - n
  BY <1>2, <1>3, <1>4
<1>8. /\ PushOK(e, lifo, m) => h2 = Held[x] + One(e, x)
      /\ ~PushOK(e, lifo, m) => h2 = Held[x]
  BY <1>2, <1>3, <1>5, <1>6, <1>7
<1> QED
  BY <1>2, <1>8 DEF h2

LEMMA PushGiveAccounts ==
  ASSUME IsFiniteSet(Thread), IInv, IInv', AInv, ~halted, NEW t \in Thread,
         NEW e \in Event, NEW lifo \in BOOLEAN, NEW m \in Nat, PushGive(t, e, lifo, m)
  PROVE  AInv'
<1>1. /\ IsStatic(e) \/ (e = owned[t] /\ ~kept[t])
      /\ PushEvent(e, lifo, m)
      /\ owned' = IF IsStatic(e) THEN owned ELSE [owned EXCEPT ![t] = NoEvent]
      /\ kept' = kept /\ cur' = cur /\ pc' = pc
  BY DEF PushGive
<1>2. /\ owned \in [Thread -> Dynamic \cup {NoEvent}] /\ heap.live \subseteq Dynamic
      /\ e # NoEvent
  BY EventQueueAssumption DEF IInv, TypeOK, HeapType
<1>3. SameBut(owned, owned', Thread, t) /\ KeptBy(owned', kept', t) = KeptBy(owned, kept, t)
  BY <1>1, <1>2 DEF SameBut, KeptBy
<1>4. ASSUME NEW x \in Dynamic
      PROVE  /\ Held[x] \in Nat /\ Held'[x] \in Nat
             /\ PushOK(e, lifo, m) => Held'[x] = Held[x] + One(e, x)
             /\ ~PushOK(e, lifo, m) => Held'[x] = Held[x]
  BY <1>1, <1>3, PushStep
<1>5. Held \in [Dynamic -> Nat]
  <2>1. \A x \in Dynamic : Held[x] \in Nat
    BY <1>4
  <2> QED
    BY <2>1 DEF Held
<1>6. InHand'
  BY <1>1 DEF AInv, InHand
<1>7. CASE IsStatic(e)
  <2>1. heap' = heap /\ owned' = owned
    BY <1>1, <1>7 DEF PushEvent, PushOK, PushRefused, PushOverflow, Counted, Freed
  <2>2. \A x \in Dynamic : One(e, x) = 0
    BY <1>7 DEF One, IsStatic
  <2>3. \A x \in Dynamic : Held'[x] = Held[x]
    BY <1>4, <2>2
  <2> QED
    BY <1>1, <1>6, <2>1, <2>3, SameAccounts
<1>8. CASE ~IsStatic(e)
  <2>1. e = owned[t] /\ ~kept[t] /\ owned' = [owned EXCEPT ![t] = NoEvent]
    BY <1>1, <1>8
  <2>2. e \in heap.live /\ e \in Dynamic /\ Held[e] = 0 /\ \A u \in Thread : owned[u] = e => u = t
    BY <1>2, <2>1, OwnedLive
  <2>3. OwnersLessThan(e) /\ \A u \in Thread : owned'[u] # e
    BY <1>1, <1>2, <2>1, <2>2 DEF OwnersLessThan
  <2>4. KeptOwned'
    BY <1>1, <1>2, <2>1 DEF AInv, KeptOwned
  <2>5. CASE PushOK(e, lifo, m)
    <3>1. CanCount(heap, e) /\ heap' = Counted(heap, e)
      BY <2>5 DEF PushOK
    <3>2. \A x \in Dynamic : Held'[x] = Held[x] + One(e, x)
      BY <1>4, <2>5
    <3> QED
      BY <1>5, <1>6, <2>2, <2>3, <2>4, <3>1, <3>2, CountedAccounts DEF AInv
  <2>6. CASE PushRefused(e, m)
    <3>1. heap' = Freed(heap, e) /\ ~PushOK(e, lifo, m)
      BY <2>6 DEF PushRefused, PushOK
    <3>2. \A x \in Dynamic : Held'[x] = Held[x]
      BY <1>4, <3>1
    <3> QED
      BY <1>5, <1>6, <2>2, <2>3, <2>4, <3>1, <3>2, UnheldAccounts DEF AInv
  <2>7. ~PushOverflow(e, m)
    <3>1. heap.ref[e] = 0
      BY <2>2 DEF AInv, Balanced
    <3>2. CanCount(heap, e)
      BY <3>1, RefMaxAssumption DEF CanCount
    <3> QED
      BY <3>2 DEF PushOverflow
  <2> QED
    BY <1>1, <2>5, <2>6, <2>7 DEF PushEvent
<1> QED
  BY <1>7, <1>8

LEMMA PushHeldAccounts ==
  ASSUME IsFiniteSet(Thread), IInv, IInv', AInv, ~halted, NEW t \in Thread,
         NEW e \in Event, NEW lifo \in BOOLEAN, PushHeld(t, e, lifo, 0)
  PROVE  AInv'
<1>1. /\ e \in Dynamic /\ PushEvent(e, lifo, 0)
      /\ (e = owned[t] /\ kept[t]) \/ (e = cur[t] /\ pc[t] = "handling")
      /\ owned' = owned /\ kept' = kept /\ cur' = cur /\ pc' = pc
  BY DEF PushHeld, IsStatic
<1>2. SameBut(owned, owned', Thread, t) /\ KeptBy(owned', kept', t) = KeptBy(owned, kept, t)
  BY <1>1 DEF SameBut, KeptBy
<1>3. ASSUME NEW x \in Dynamic
      PROVE  /\ Held[x] \in Nat /\ Held'[x] \in Nat
             /\ PushOK(e, lifo, 0) => Held'[x] = Held[x] + One(e, x)
             /\ ~PushOK(e, lifo, 0) => Held'[x] = Held[x]
             /\ cur[t] = x \/ KeptBy(owned, kept, t) = x => Held[x] > 0
  BY <1>1, <1>2, PushStep
<1>4. Held \in [Dynamic -> Nat]
  <2>1. \A x \in Dynamic : Held[x] \in Nat
    BY <1>3
  <2> QED
    BY <2>1 DEF Held
<1>5. Held[e] > 0
  <2>1. cur[t] = e \/ KeptBy(owned, kept, t) = e
    BY <1>1 DEF KeptBy
  <2> QED
    BY <1>1, <1>3, <2>1
<1>6. e \in heap.live
  BY <1>1, <1>5, HeldLive
<1>7. InHand' /\ KeptOwned'
  BY <1>1 DEF AInv, InHand, KeptOwned
<1>8. CASE PushOK(e, lifo, 0)
  <2>1. CanCount(heap, e) /\ heap' = Counted(heap, e)
    BY <1>8 DEF PushOK
  <2>2. \A x \in Dynamic : Held'[x] = Held[x] + One(e, x)
    BY <1>3, <1>8
  <2>3. OwnersLessThan(e)
    BY <1>1 DEF OwnersLessThan
  <2>4. \A u \in Thread : owned'[u] = e => kept'[u]
    <3>1. e # NoEvent
      BY EventQueueAssumption
    <3> QED
      BY <1>1, <1>5, <3>1, OwnedLive
  <2> QED
    BY <1>4, <1>6, <1>7, <2>1, <2>2, <2>3, <2>4, CountedAccounts DEF AInv
<1>9. CASE PushRefused(e, 0)
  <2>1. heap' = Freed(heap, e) /\ ~PushOK(e, lifo, 0) /\ halted'
    BY <1>9 DEF PushRefused, PushOK
  <2>2. \A x \in Dynamic : Held'[x] = Held[x]
    BY <1>3, <2>1
  <2> QED
    BY <1>1, <1>6, <1>7, <2>1, <2>2, RefusedHeld DEF AInv
<1>10. CASE PushOverflow(e, 0)
  <2>1. heap' = heap /\ ~PushOK(e, lifo, 0)
    BY <1>10 DEF PushOverflow, PushOK
  <2>2. \A x \in Dynamic : Held'[x] = Held[x]
    BY <1>3, <2>1
  <2> QED
    BY <1>1, <1>7, <2>1, <2>2, SameAccounts
<1> QED
  BY <1>1, <1>8, <1>9, <1>10 DEF PushEvent

\* The begin and the end of a flush touch no event.
LEMMA IdleAccounts ==
  ASSUME IsFiniteSet(Thread), IInv, IInv', AInv, ~halted, NEW t \in Thread,
         pc[t] \in {"idle", "flush_pop"}, NEW l \in {"idle", "flush_pop"},
         pc' = [pc EXCEPT ![t] = l], UNCHANGED <<queue, heap, owned, kept, cur>>
  PROVE  AInv'
<1>1. pc \in [Thread -> {"idle", "handling", "flush_pop", "flush_free"}]
  BY DEF IInv, TypeOK
<1>2. InHand'
  BY <1>1 DEF AInv, InHand
<1>3. \A e \in Dynamic : Held'[e] = Held[e]
  BY DEF Held, Holders
<1> QED
  BY <1>2, <1>3, SameAccounts

LEMMA NextAccounts ==
  ASSUME IsFiniteSet(Thread), HeldMargins \subseteq {0}, IInv, IInv', AInv, [Next]_vars
  PROVE  AInv'
<1>1. CASE UNCHANGED vars
  <2>1. UNCHANGED <<queue, heap, owned, kept, cur, pc, halted>>
    BY <1>1 DEF vars
  <2>2. Held' = Held
    BY <2>1 DEF Held, Holders
  <2> QED
    BY <2>1, <2>2 DEF AInv, InHand, KeptOwned
<1>2. ASSUME NEW t \in Producer, ~halted, Produce(t) PROVE AInv'
  <2>1. t \in Thread
    BY DEF Thread
  <2>2. CASE \E e \in Dynamic : Allocate(t, e)
    BY <1>2, <2>1, <2>2, AllocateAccounts
  <2>3. CASE Keep(t)
    BY <1>2, <2>1, <2>3, KeepAccounts
  <2>4. CASE Release(t)
    BY <1>2, <2>1, <2>4, ReleaseAccounts
  <2>5. ASSUME NEW e \in Event, NEW lifo \in BOOLEAN, NEW m \in Margins,
               PushGive(t, e, lifo, m)
        PROVE  AInv'
    <3>1. m \in Nat
      BY EventQueueAssumption
    <3> QED
      BY <1>2, <2>1, <2>5, <3>1, PushGiveAccounts
  <2>6. ASSUME NEW e \in Event, NEW lifo \in BOOLEAN, NEW m \in HeldMargins,
               PushHeld(t, e, lifo, m)
        PROVE  AInv'
    <3>1. m = 0
      OBVIOUS
    <3> QED
      BY <1>2, <2>1, <2>6, <3>1, PushHeldAccounts
  <2> QED
    BY <1>2, <2>2, <2>3, <2>4, <2>5, <2>6 DEF Produce
<1>3. ASSUME NEW t \in Consumer, ~halted, Consume(t) PROVE AInv'
  <2>1. t \in Thread
    BY DEF Thread
  <2>2. CASE PopBegin(t)
    BY <1>3, <2>1, <2>2, TakeAccounts DEF PopBegin
  <2>3. CASE PopEnd(t)
    BY <1>3, <2>1, <2>3, DropAccounts DEF PopEnd
  <2>4. ASSUME NEW e \in Event, NEW lifo \in BOOLEAN, NEW m \in HeldMargins,
               PushHeld(t, e, lifo, m)
        PROVE  AInv'
    <3>1. m = 0
      OBVIOUS
    <3> QED
      BY <1>3, <2>1, <2>4, <3>1, PushHeldAccounts
  <2> QED
    BY <1>3, <2>2, <2>3, <2>4 DEF Consume
<1>4. ASSUME NEW t \in Flusher, ~halted, Flush(t) PROVE AInv'
  <2>1. t \in Thread
    BY DEF Thread
  <2>2. CASE FlushBegin(t)
    BY <1>4, <2>1, <2>2, IdleAccounts DEF FlushBegin
  <2>3. CASE FlushPop(t)
    BY <1>4, <2>1, <2>3, TakeAccounts DEF FlushPop
  <2>4. CASE FlushFree(t)
    BY <1>4, <2>1, <2>4, DropAccounts DEF FlushFree
  <2>5. CASE FlushEnd(t)
    BY <1>4, <2>1, <2>5, IdleAccounts DEF FlushEnd
  <2> QED
    BY <1>4, <2>2, <2>3, <2>4, <2>5 DEF Flush
<1> QED
  BY <1>1, <1>2, <1>3, <1>4 DEF Next, Stopped

LEMMA AccountsFollow ==
  ASSUME IsFiniteSet(Thread), IInv, AInv
  PROVE  EventsAccounted
<1>1. heap.live \subseteq Dynamic /\ \A e \in Dynamic : Held[e] = Holders(e)
  BY DEF IInv, TypeOK, HeapType, Held
<1>2. RefCountIsHolders
  BY <1>1 DEF AInv, Balanced, RefCountIsHolders
<1>3. NoUseAfterFree
  <2>1. \A e \in Dynamic, t \in Thread : owned[t] = e => owned[t] # NoEvent
    BY EventQueueAssumption
  <2> QED
    BY <1>1, <2>1 DEF AInv, Balanced, Ownership, NoUseAfterFree
<1>4. NoLeak
  BY <1>1 DEF AInv, Leakless, NoLeak
<1> QED
  BY <1>2, <1>3, <1>4 DEF EventsAccounted

\* Reference counting is right under every interleaving of any finite number of
\* producers, consumers and flushers: each counter is the number of queue slots,
\* callbacks, flushes and keepers that will decrement it, no event is recycled
\* while one of them is left, none is freed twice and none is lost.  A push of
\* an event that the caller goes on holding has margin 0, for am_event_queue_push
\* frees what it refuses and so takes back a reference which it never took.
THEOREM AccountsCorrect ==
  ASSUME IsFiniteSet(Thread), HeldMargins \subseteq {0}
  PROVE  Spec => []EventsAccounted
<1>1. Init => AInv
  BY InitAccounts
<1>2. IInv /\ IInv' /\ AInv /\ [Next]_vars => AInv'
  BY NextAccounts
<1>3. IInv /\ AInv => EventsAccounted
  BY AccountsFollow
<1> QED
  BY <1>1, <1>2, <1>3, Invariance, PTL DEF Spec


=============================================================================
