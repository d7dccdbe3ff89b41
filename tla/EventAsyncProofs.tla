-------------------------- MODULE EventAsyncProofs --------------------------
(***************************************************************************)
(* Theorems about module EventAsync, for any handlers, events, capacity    *)
(* and publishers: who is subscribed is registered, and an event is        *)
(* counted by those who hold it.                                           *)
(***************************************************************************)
EXTENDS EventAsync, SequenceTheorems, FiniteSetTheorems, TLAPS

-----------------------------------------------------------------------------
(* The lemmas about counts and heaps are those of EventQueueProofs: here   *)
(* the holders of an event are mailboxes, handlers and publishers.         *)

(* The operators on the heap keep its type.                                *)

LEMMA HeapInitType == HeapInit \in HeapType
BY RefMaxAssumption DEF HeapInit, HeapType

LEMMA AllocatedType ==
  ASSUME NEW h \in HeapType, NEW e \in Dynamic
  PROVE  Allocated(h, e) \in HeapType
BY RefMaxAssumption DEF HeapType, Allocated

LEMMA CountedType ==
  ASSUME NEW h \in HeapType, NEW e, CanCount(h, e)
  PROVE  Counted(h, e) \in HeapType
<1>1. CASE IsStatic(e) \/ e \notin h.live
  BY <1>1 DEF HeapType, Counted
<1>2. CASE ~IsStatic(e) /\ e \in h.live
  <2>1. e \in Dynamic /\ h.ref[e] + 1 \in 0 .. RefMax
    BY <1>2, RefMaxAssumption DEF IsStatic, CanCount, HeapType
  <2> QED
    BY <1>2, <2>1 DEF HeapType, Counted
<1> QED
  BY <1>1, <1>2

LEMMA FreedType ==
  ASSUME NEW h \in HeapType, NEW e
  PROVE  Freed(h, e) \in HeapType
<1>1. CASE IsStatic(e) \/ e \notin h.live
  BY <1>1 DEF HeapType, Freed
<1>2. CASE ~IsStatic(e) /\ e \in h.live /\ h.ref[e] > 1
  <2>1. e \in Dynamic /\ h.ref[e] - 1 \in 0 .. RefMax
    BY <1>2, RefMaxAssumption DEF IsStatic, HeapType
  <2> QED
    BY <1>2, <2>1 DEF HeapType, Freed
<1>3. CASE ~IsStatic(e) /\ e \in h.live /\ ~(h.ref[e] > 1)
  BY <1>3 DEF HeapType, Freed
<1> QED
  BY <1>1, <1>2, <1>3

-----------------------------------------------------------------------------
(* Counting: how often a value occurs in a sequence or as the value of a   *)
(* function, before and after a step.                                      *)

Occurrences(s, x) == Cardinality({i \in 1 .. Len(s) : s[i] = x})

CountOf(f, T, x) == Cardinality({t \in T : f[t] = x})

\* What a place that holds a adds to the count of b.
One(a, b) == IF a = b THEN 1 ELSE 0

LEMMA OccurrencesType ==
  ASSUME NEW S, NEW s \in Seq(S), NEW x
  PROVE  /\ IsFiniteSet({i \in 1 .. Len(s) : s[i] = x})
         /\ Occurrences(s, x) \in Nat
<1>1. IsFiniteSet(1 .. Len(s))
  BY FS_Interval
<1>2. IsFiniteSet({i \in 1 .. Len(s) : s[i] = x})
  BY <1>1, FS_Subset
<1> QED
  BY <1>2, FS_CardinalityType DEF Occurrences

LEMMA OccurrencesAppend ==
  ASSUME NEW S, NEW s \in Seq(S), NEW e \in S, NEW x
  PROVE  Occurrences(Append(s, e), x) = Occurrences(s, x) + One(e, x)
<1> DEFINE I == {i \in 1 .. Len(s) : s[i] = x}
           J == {i \in 1 .. Len(Append(s, e)) : Append(s, e)[i] = x}
           n == Len(s) + 1
<1>1. IsFiniteSet(I) /\ Cardinality(I) \in Nat /\ n \notin I
  <2>1. n \notin 1 .. Len(s)
    OBVIOUS
  <2> QED
    BY <2>1, OccurrencesType DEF Occurrences
<1>2. CASE e = x
  <2>1. J = I \cup {n}
    BY <1>2
  <2>2. Cardinality(J) = Cardinality(I) + 1
    BY <1>1, <2>1, FS_AddElement
  <2> QED
    BY <1>2, <2>2 DEF Occurrences, One
<1>3. CASE e # x
  <2>1. J = I
    BY <1>3
  <2>2. Cardinality(J) = Cardinality(I) + One(e, x)
    <3> HIDE DEF I, J
    <3> QED
      BY <1>1, <1>3, <2>1 DEF One
  <2> QED
    BY <2>2 DEF Occurrences
<1> QED
  BY <1>2, <1>3

LEMMA OccurrencesPrepend ==
  ASSUME NEW S, NEW s \in Seq(S), NEW e \in S, NEW x
  PROVE  Occurrences(<<e>> \o s, x) = Occurrences(s, x) + One(e, x)
<1> DEFINE p == <<e>> \o s
           I == {i \in 1 .. Len(s) : s[i] = x}
           K == {i \in 2 .. Len(s) + 1 : p[i] = x}
           J == {i \in 1 .. Len(p) : p[i] = x}
           up == [i \in I |-> i + 1]
<1>1. IsFiniteSet(I) /\ Cardinality(I) \in Nat
  BY OccurrencesType DEF Occurrences
<1>2. Len(p) = Len(s) + 1 /\ p[1] = e /\ \A i \in 1 .. Len(s) : p[i + 1] = s[i]
  OBVIOUS
<1>3. up \in Bijection(I, K)
  <2> HIDE DEF p
  <2>1. \A i \in I : up[i] \in K
    <3> SUFFICES ASSUME NEW i \in I PROVE up[i] \in K
      OBVIOUS
    <3>1. i \in 1 .. Len(s) /\ s[i] = x /\ up[i] = i + 1
      OBVIOUS
    <3>2. i + 1 \in 2 .. Len(s) + 1
      BY <3>1
    <3>3. p[i + 1] = x
      BY <1>2, <3>1
    <3> QED
      BY <3>1, <3>2, <3>3
  <2>2. \A i, j \in I : up[i] = up[j] => i = j
    OBVIOUS
  <2>3. \A k \in K : \E i \in I : up[i] = k
    <3> SUFFICES ASSUME NEW k \in K PROVE \E i \in I : up[i] = k
      OBVIOUS
    <3>1. k - 1 \in 1 .. Len(s) /\ p[(k - 1) + 1] = p[k]
      OBVIOUS
    <3>2. k - 1 \in I
      BY <1>2, <3>1
    <3> QED
      BY <3>2
  <2> QED
    BY <2>1, <2>2, <2>3 DEF Bijection, Injection, Surjection, IsInjective
<1>4. IsFiniteSet(K) /\ Cardinality(K) = Cardinality(I)
  BY <1>1, <1>3, FS_Bijection DEF ExistsBijection
<1>5. 1 \notin K
  OBVIOUS
<1>6. CASE e = x
  <2>1. J = K \cup {1}
    BY <1>2, <1>6
  <2>2. Cardinality(J) = Cardinality(K) + 1
    BY <1>4, <1>5, <2>1, FS_AddElement
  <2> QED
    BY <1>4, <1>6, <2>2 DEF Occurrences, One
<1>7. CASE e # x
  <2>1. J = K
    BY <1>2, <1>7
  <2>2. Cardinality(J) = Cardinality(I) + One(e, x)
    <3> HIDE DEF I, J, K
    <3> QED
      BY <1>1, <1>4, <1>7, <2>1 DEF One
  <2> QED
    BY <2>2 DEF Occurrences
<1> QED
  BY <1>6, <1>7

LEMMA OccurrencesTail ==
  ASSUME NEW S, NEW s \in Seq(S), s # <<>>, NEW x
  PROVE  Occurrences(s, x) = Occurrences(Tail(s), x) + One(s[1], x)
<1>1. Tail(s) \in Seq(S) /\ s[1] \in S
  OBVIOUS
<1>2. s = <<s[1]>> \o Tail(s)
  OBVIOUS
<1> QED
  <2> DEFINE r == Tail(s)
             e == s[1]
  <2>1. r \in Seq(S) /\ e \in S /\ s = <<e>> \o r
    BY <1>1, <1>2
  <2> HIDE DEF r, e
  <2>2. Occurrences(<<e>> \o r, x) = Occurrences(r, x) + One(e, x)
    BY <2>1, OccurrencesPrepend
  <2> QED
    BY <2>1, <2>2 DEF r, e

LEMMA CountOfType ==
  ASSUME NEW T, IsFiniteSet(T), NEW f, NEW x
  PROVE  /\ IsFiniteSet({t \in T : f[t] = x})
         /\ CountOf(f, T, x) \in Nat
<1>1. {t \in T : f[t] = x} \in SUBSET T
  OBVIOUS
<1>2. IsFiniteSet({t \in T : f[t] = x})
  BY <1>1, FS_Subset
<1> QED
  BY <1>2, FS_CardinalityType DEF CountOf

LEMMA CountOfPositive ==
  ASSUME NEW T, IsFiniteSet(T), NEW f, NEW x
  PROVE  CountOf(f, T, x) > 0 <=> \E t \in T : f[t] = x
<1> DEFINE U == {t \in T : f[t] = x}
<1>1. IsFiniteSet(U) /\ Cardinality(U) \in Nat
  <2>1. U \in SUBSET T
    OBVIOUS
  <2> QED
    BY <2>1, FS_Subset, FS_CardinalityType
<1>2. Cardinality(U) = 0 <=> U = {}
  BY <1>1, FS_EmptySet
<1>3. U # {} <=> \E t \in T : f[t] = x
  OBVIOUS
<1> QED
  BY <1>1, <1>2, <1>3 DEF CountOf

\* Two functions that differ at most in t.
SameBut(f, g, T, t) == \A u \in T \ {t} : g[u] = f[u]

\* A value is counted for the place that takes it and no longer for the place
\* that gives it up.
LEMMA CountOfMoved ==
  ASSUME NEW T, IsFiniteSet(T), NEW f, NEW g, NEW t \in T,
         SameBut(f, g, T, t), NEW x
  PROVE  CountOf(g, T, x) = CountOf(f, T, x) - One(f[t], x) + One(g[t], x)
<1> DEFINE F == {u \in T : f[u] = x}
           G == {u \in T : g[u] = x}
           R == {u \in T \ {t} : f[u] = x}
<1>1. IsFiniteSet(F) /\ IsFiniteSet(R) /\ Cardinality(R) \in Nat /\ t \notin R
  <2>1. F \in SUBSET T /\ IsFiniteSet(F)
    BY FS_Subset
  <2>2. R \in SUBSET F
    OBVIOUS
  <2> QED
    BY <2>1, <2>2, FS_Subset, FS_CardinalityType
<1>2. Cardinality(F) = Cardinality(R) + One(f[t], x)
  <2>1. CASE f[t] = x
    <3>1. F = R \cup {t}
      BY <2>1
    <3> QED
      BY <1>1, <2>1, <3>1, FS_AddElement DEF One
  <2>2. CASE f[t] # x
    <3>1. F = R
      BY <2>2
    <3> QED
      BY <1>1, <2>2, <3>1 DEF One
  <2> QED
    BY <2>1, <2>2
<1>3. Cardinality(G) = Cardinality(R) + One(g[t], x)
  <2>1. CASE g[t] = x
    <3>1. G = R \cup {t}
      BY <2>1 DEF SameBut
    <3> QED
      BY <1>1, <2>1, <3>1, FS_AddElement DEF One
  <2>2. CASE g[t] # x
    <3>1. G = R
      BY <2>2 DEF SameBut
    <3> HIDE DEF G, R
    <3> QED
      BY <1>1, <2>2, <3>1 DEF One
  <2> QED
    BY <2>1, <2>2
<1> QED
  BY <1>1, <1>2, <1>3 DEF CountOf, One

-----------------------------------------------------------------------------
(* Heaps h whose counters agree with the holders H[e] of each dynamic      *)
(* event e.                                                                *)

\* The counters are right, and what is not allocated is not held.
Balanced(h, H) ==
  /\ \A e \in h.live : h.ref[e] = H[e]
  /\ \A e \in Dynamic \ h.live : H[e] = 0

\* One more holder of an allocated event, and one more reference.
LEMMA CountedBalanced ==
  ASSUME NEW h \in HeapType, NEW H \in [Dynamic -> Nat], NEW H2,
         NEW e \in h.live, CanCount(h, e), Balanced(h, H),
         \A x \in Dynamic : H2[x] = H[x] + One(e, x)
  PROVE  /\ Balanced(Counted(h, e), H2)
         /\ Counted(h, e).live = h.live
         /\ Counted(h, e).corrupt = h.corrupt
<1>1. e \in Dynamic /\ h.live \subseteq Dynamic /\ h.ref \in [Dynamic -> 0 .. RefMax]
  BY DEF HeapType
<1>2. Counted(h, e) = [h EXCEPT !.ref[e] = @ + 1]
  BY <1>1 DEF Counted, IsStatic
<1>3. Counted(h, e).live = h.live /\ Counted(h, e).corrupt = h.corrupt
  BY <1>2 DEF HeapType
<1>4. Counted(h, e).ref = [h.ref EXCEPT ![e] = @ + 1]
  BY <1>2 DEF HeapType
<1>5. \A x \in h.live : Counted(h, e).ref[x] = H2[x]
  <2> SUFFICES ASSUME NEW x \in h.live PROVE Counted(h, e).ref[x] = H2[x]
    OBVIOUS
  <2>1. h.ref[x] = H[x] /\ H2[x] = H[x] + One(e, x)
    BY <1>1 DEF Balanced
  <2>2. Counted(h, e).ref[x] = h.ref[x] + One(e, x)
    BY <1>1, <1>4 DEF One
  <2> QED
    BY <2>1, <2>2
<1>6. ASSUME NEW x \in Dynamic \ h.live PROVE H2[x] = 0
  <2>1. H[x] = 0 /\ H2[x] = H[x] + One(e, x) /\ One(e, x) = 0
    BY <1>6 DEF Balanced, One
  <2> QED
    BY <2>1
<1> QED
  BY <1>3, <1>5, <1>6 DEF Balanced

\* One holder less, and one reference less: the last one recycles the event.
LEMMA FreedBalanced ==
  ASSUME NEW h \in HeapType, NEW H \in [Dynamic -> Nat], NEW H2,
         NEW e \in Dynamic, Balanced(h, H), H[e] > 0,
         \A x \in Dynamic : H2[x] = H[x] - One(e, x)
  PROVE  /\ Balanced(Freed(h, e), H2)
         /\ Freed(h, e).live = IF H2[e] = 0 THEN h.live \ {e} ELSE h.live
         /\ Freed(h, e).corrupt = h.corrupt
<1>1. h.live \subseteq Dynamic /\ h.ref \in [Dynamic -> 0 .. RefMax]
  BY DEF HeapType
<1>2. e \in h.live /\ h.ref[e] = H[e] /\ H2[e] = H[e] - 1 /\ H[e] \in Nat
  BY DEF Balanced, One
<1>3. CASE h.ref[e] > 1
  <2>1. Freed(h, e) = [h EXCEPT !.ref[e] = @ - 1]
    BY <1>2, <1>3 DEF Freed, IsStatic
  <2>2. /\ Freed(h, e).live = h.live /\ Freed(h, e).corrupt = h.corrupt
        /\ Freed(h, e).ref = [h.ref EXCEPT ![e] = @ - 1]
    BY <2>1 DEF HeapType
  <2>3. H2[e] # 0
    BY <1>2, <1>3
  <2>4. \A x \in h.live : Freed(h, e).ref[x] = H2[x]
    <3> SUFFICES ASSUME NEW x \in h.live PROVE Freed(h, e).ref[x] = H2[x]
      OBVIOUS
    <3>1. h.ref[x] = H[x] /\ H2[x] = H[x] - One(e, x)
      BY <1>1 DEF Balanced
    <3>2. Freed(h, e).ref[x] = h.ref[x] - One(e, x)
      BY <1>1, <2>2 DEF One
    <3> QED
      BY <3>1, <3>2
  <2>5. ASSUME NEW x \in Dynamic \ h.live PROVE H2[x] = 0
    <3>1. H[x] = 0 /\ H2[x] = H[x] - One(e, x) /\ One(e, x) = 0
      BY <1>2, <2>5 DEF Balanced, One
    <3> QED
      BY <3>1
  <2> QED
    BY <2>2, <2>3, <2>4, <2>5 DEF Balanced
<1>4. CASE ~(h.ref[e] > 1)
  <2>1. Freed(h, e) = [h EXCEPT !.live = @ \ {e}]
    BY <1>2, <1>4 DEF Freed, IsStatic
  <2>2. /\ Freed(h, e).live = h.live \ {e} /\ Freed(h, e).corrupt = h.corrupt
        /\ Freed(h, e).ref = h.ref
    BY <2>1 DEF HeapType
  <2>3. H2[e] = 0
    BY <1>2, <1>4
  <2>4. ASSUME NEW x \in Dynamic, x # e PROVE H2[x] = H[x] /\ H[x] \in Nat
    <3>1. H2[x] = H[x] - One(e, x) /\ One(e, x) = 0 /\ H[x] \in Nat
      BY <2>4 DEF One
    <3> QED
      BY <3>1
  <2>5. \A x \in h.live \ {e} : h.ref[x] = H2[x]
    BY <1>1, <2>4 DEF Balanced
  <2>6. \A x \in Dynamic \ (h.live \ {e}) : H2[x] = 0
    BY <2>3, <2>4 DEF Balanced
  <2> QED
    BY <2>2, <2>3, <2>5, <2>6 DEF Balanced
<1> QED
  BY <1>3, <1>4

\* Freeing an event that nobody holds recycles it.
LEMMA FreedUnheld ==
  ASSUME NEW h \in HeapType, NEW H \in [Dynamic -> Nat],
         NEW e \in h.live, Balanced(h, H), H[e] = 0
  PROVE  /\ Balanced(Freed(h, e), H)
         /\ Freed(h, e).live = h.live \ {e}
         /\ Freed(h, e).corrupt = h.corrupt
<1>1. e \in Dynamic /\ h.ref[e] = 0
  BY DEF Balanced, HeapType
<1>2. Freed(h, e) = [h EXCEPT !.live = @ \ {e}]
  <2>1. ~(0 > 1)
    OBVIOUS
  <2> QED
    BY <1>1, <2>1 DEF Freed, IsStatic
<1>3. /\ Freed(h, e).live = h.live \ {e} /\ Freed(h, e).corrupt = h.corrupt
      /\ Freed(h, e).ref = h.ref
  BY <1>2 DEF HeapType
<1> QED
  BY <1>3 DEF Balanced

-----------------------------------------------------------------------------
\* A publish of a dynamic event asserts that every subscriber has room: a margin
\* would let the refused push release the reference the publisher counts on.
Asserting == CountedMargins \subseteq {0}

-----------------------------------------------------------------------------
(* Registration                                                            *)

Subscribed ==
  /\ sub \in [Event -> SUBSET Handler]
  /\ SubscribersRegistered

LEMMA SubscribedInit == Init => Subscribed
BY DEF Init, Subscribed, SubscribersRegistered

\* Only registered handlers subscribe, and unregistering unsubscribes.
LEMMA SubscribedNext == Subscribed /\ [Next]_vars => Subscribed'
<1> SUFFICES ASSUME Subscribed, [Next]_vars PROVE Subscribed'
  OBVIOUS
<1> USE DEF Subscribed, SubscribersRegistered
<1>1. CASE UNCHANGED vars
  BY <1>1 DEF vars
<1>2. ASSUME NEW p \in Publisher, PublisherNext(p) PROVE Subscribed'
  BY <1>2 DEF PublisherNext, Allocate, Post, Publish, PublishBegin
<1>3. ASSUME NEW h \in Handler, HandlerNext(h) PROVE Subscribed'
  <2>1. CASE Register(h)
    BY <2>1 DEF Register
  <2>2. CASE Unregister(h)
    BY <2>2 DEF Unregister
  <2>3. CASE UnsubscribeAll(h)
    BY <2>3 DEF UnsubscribeAll
  <2>4. ASSUME NEW e \in Topics, Subscribe(h, e) PROVE Subscribed'
    <3>1. sub' = [sub EXCEPT ![e] = @ \cup {h}] /\ h \in registered
          /\ registered' = registered
      BY <2>4 DEF Subscribe
    <3>2. \A x \in Event : sub'[x] = IF x = e THEN sub[x] \cup {h} ELSE sub[x]
      BY <3>1
    <3> QED
      BY <3>1, <3>2
  <2>5. ASSUME NEW e \in Topics, Unsubscribe(h, e) PROVE Subscribed'
    <3>1. sub' = [sub EXCEPT ![e] = @ \ {h}] /\ registered' = registered
      BY <2>5 DEF Unsubscribe
    <3>2. \A x \in Event : sub'[x] = IF x = e THEN sub[x] \ {h} ELSE sub[x]
      BY <3>1
    <3> QED
      BY <3>1, <3>2
  <2>6. CASE PopBegin(h) \/ PopEnd(h)
    BY <2>6 DEF PopBegin, PopEnd
  <2>7. ASSUME NEW m \in Margins \cup CountedMargins, PublishHandled(h, h, m)
        PROVE  Subscribed'
    BY <2>7 DEF PublishHandled, PublishBegin
  <2> QED
    BY <1>3, <2>1, <2>2, <2>3, <2>4, <2>5, <2>6, <2>7 DEF HandlerNext
<1>4. ASSUME NEW t \in Thread, PublishSteps(t) PROVE Subscribed'
  BY <1>4 DEF PublishSteps, Snapshot, Deliver, PublishEnd
<1> QED
  BY <1>1, <1>2, <1>3, <1>4 DEF Next, Stopped

\* Who is subscribed to an event is registered, whatever handlers come and go
\* while events are published (am_event_async_subscribe, _unregister).
THEOREM RegisteredCorrect == Spec => []SubscribersRegistered
<1>1. Subscribed => SubscribersRegistered
  BY DEF Subscribed
<1> QED
  BY <1>1, SubscribedInit, SubscribedNext, PTL DEF Spec

-----------------------------------------------------------------------------
(* The accounts of the events                                              *)

Types ==
  /\ queue \in [Handler -> Seq(Event)]
  /\ \A h \in Handler : Len(queue[h]) <= Capacity
  /\ heap \in HeapType
  /\ sub \in [Event -> SUBSET Handler]
  /\ registered \subseteq Handler
  /\ owned \in [Publisher -> Dynamic \cup {NoEvent}]
  /\ cur \in [Handler -> Event \cup {NoEvent}]
  /\ pc \in [Thread -> {"idle", "snapshot", "deliver", "handling", "handled"}]
  /\ arg \in [Thread -> [event : Event \cup {NoEvent},
                         exclude : Handler \cup {Nobody},
                         margin : Margins \cup CountedMargins \cup {0}]]
  /\ todo \in [Thread -> SUBSET Handler]
  /\ halted \in BOOLEAN

\* A thread has a publish's arguments from its begin to its end.
Publishing ==
  \A t \in Thread :
    /\ pc[t] \in {"snapshot", "deliver"} => arg[t].event \in Event
    /\ pc[t] \notin {"snapshot", "deliver"} => arg[t].event = NoEvent

\* A handler has an event in hand from the pop to the release; publishers pop
\* nothing.
InHand ==
  /\ \A h \in Handler : pc[h] = "idle" <=> cur[h] = NoEvent
  /\ \A p \in Publisher : pc[p] \notin {"handling", "handled"}

\* The deliveries of a dynamic event assert that there is room.
Asserted == \A t \in Thread : arg[t].event \in Dynamic => arg[t].margin = 0

Held == [e \in Dynamic |-> Holders(e)]

\* A publisher's own event is allocated, nobody else's, and not yet held.
Ownership(h, H, o) ==
  /\ \A p \in Publisher : o[p] # NoEvent => o[p] \in h.live /\ H[o[p]] = 0
  /\ \A p, q \in Publisher : o[p] = o[q] /\ o[p] # NoEvent => p = q

\* What a step must keep once the heap, the holders or the owners changed.
Accounts(h, H, o) == Balanced(h, H) /\ Ownership(h, H, o)

\* The inductive invariant behind EventsAccounted.  A failed assertion may leave
\* a counter wrong (a refused delivery has released the event before it asserts)
\* but no freed event touched.
IInv ==
  /\ Types /\ Publishing /\ InHand /\ Asserted
  /\ ~heap.corrupt
  /\ ~halted => Accounts(heap, Held, owned)

-----------------------------------------------------------------------------
(* Counting the holders                                                    *)

SlotsIn(q, e) ==
  {s \in Handler \X (1 .. Capacity) : s[2] <= Len(q[s[1]]) /\ q[s[1]][s[2]] = e}

\* The same of one queue s, that of handler h.
SlotsOf(h, s, e) == {x \in {h} \X (1 .. Capacity) : x[2] <= Len(s) /\ s[x[2]] = e}

LEMMA Sizes ==
  ASSUME IsFiniteSet(Publisher)
  PROVE  /\ IsFiniteSet(Handler) /\ IsFiniteSet(Thread)
         /\ IsFiniteSet(Handler \X (1 .. Capacity))
         /\ Capacity \in Nat \ {0}
<1>1. NHandlers \in Nat /\ Capacity \in Nat \ {0}
  BY EventAsyncAssumption, CapacityAssumption
<1>2. IsFiniteSet(Handler) /\ IsFiniteSet(1 .. Capacity)
  BY <1>1, FS_Interval DEF Handler
<1>3. IsFiniteSet(Thread)
  BY <1>2, FS_Union DEF Thread
<1>4. IsFiniteSet(Handler \X (1 .. Capacity))
  BY <1>2, FS_Product
<1> QED
  BY <1>1, <1>2, <1>3, <1>4

\* The slots of one queue are counted one for one.
LEMMA SlotsOfOne ==
  ASSUME NEW s \in Seq(Event), Len(s) <= Capacity, NEW h \in Handler, NEW e
  PROVE  /\ IsFiniteSet(SlotsOf(h, s, e))
         /\ Cardinality(SlotsOf(h, s, e)) = Occurrences(s, e)
<1> DEFINE M == {x \in {h} \X (1 .. Capacity) : x[2] <= Len(s) /\ s[x[2]] = e}
           I == {i \in 1 .. Len(s) : s[i] = e}
           f == [i \in I |-> <<h, i>>]
<1>0. Capacity \in Nat /\ Len(s) \in Nat
  BY CapacityAssumption
<1>1. IsFiniteSet(I) /\ Cardinality(I) = Occurrences(s, e)
  BY OccurrencesType DEF Occurrences
<1>2. f \in Bijection(I, M)
  <2>1. \A i \in I : f[i] \in M
    BY <1>0
  <2>2. \A i, j \in I : f[i] = f[j] => i = j
    OBVIOUS
  <2>3. \A x \in M : \E i \in I : f[i] = x
    <3> SUFFICES ASSUME NEW x \in M PROVE \E i \in I : f[i] = x
      OBVIOUS
    <3>1. x = <<h, x[2]>> /\ x[2] \in I
      BY <1>0
    <3> QED
      BY <3>1
  <2> HIDE DEF f, M, I
  <2>4. f \in [I -> M]
    BY <2>1 DEF f
  <2> QED
    BY <2>2, <2>3, <2>4 DEF Bijection, Injection, Surjection, IsInjective
<1>3. IsFiniteSet(M) /\ Cardinality(M) = Cardinality(I)
  <2> HIDE DEF f, M, I
  <2> QED
    BY <1>1, <1>2, FS_Bijection DEF ExistsBijection
<1> QED
  BY <1>1, <1>3 DEF SlotsOf

\* A set split in two parts.
LEMMA Parts ==
  ASSUME NEW S, NEW A, NEW B, S = A \cup B, A \cap B = {}, IsFiniteSet(A), IsFiniteSet(B)
  PROVE  Cardinality(S) = Cardinality(A) + Cardinality(B)
<1>1. Cardinality(S) = Cardinality(A) + Cardinality(B) - Cardinality(A \cap B)
  BY FS_Union
<1>2. Cardinality(A \cap B) = 0 /\ Cardinality(A) \in Nat /\ Cardinality(B) \in Nat
  BY FS_EmptySet, FS_CardinalityType
<1> QED
  BY <1>1, <1>2

\* A change of one queue changes the count of its slots only.
LEMMA SlotsMoved ==
  ASSUME IsFiniteSet(Publisher),
         NEW q \in [Handler -> Seq(Event)], NEW q2 \in [Handler -> Seq(Event)],
         NEW h \in Handler, Len(q[h]) <= Capacity, Len(q2[h]) <= Capacity,
         SameBut(q, q2, Handler, h), NEW e
  PROVE  /\ Cardinality(SlotsIn(q, e)) \in Nat
         /\ Occurrences(q[h], e) \in Nat /\ Occurrences(q2[h], e) \in Nat
         /\ Cardinality(SlotsIn(q2, e))
              = Cardinality(SlotsIn(q, e)) + Occurrences(q2[h], e) - Occurrences(q[h], e)
<1> DEFINE A == SlotsOf(h, q[h], e)
           B == SlotsOf(h, q2[h], e)
           Rest == {x \in SlotsIn(q, e) : x[1] # h}
<1>1. IsFiniteSet(Handler \X (1 .. Capacity))
  BY Sizes
<1>2. IsFiniteSet(SlotsIn(q, e)) /\ IsFiniteSet(Rest)
  <2>1. SlotsIn(q, e) \in SUBSET (Handler \X (1 .. Capacity)) /\ Rest \in SUBSET SlotsIn(q, e)
    BY DEF SlotsIn
  <2> QED
    BY <1>1, <2>1, FS_Subset
<1>3. /\ IsFiniteSet(A) /\ Cardinality(A) = Occurrences(q[h], e)
      /\ IsFiniteSet(B) /\ Cardinality(B) = Occurrences(q2[h], e)
  <2>1. q[h] \in Seq(Event) /\ q2[h] \in Seq(Event)
    OBVIOUS
  <2> QED
    BY <2>1, SlotsOfOne
<1>4. SlotsIn(q, e) = Rest \cup A /\ Rest \cap A = {}
  BY DEF SlotsIn, SlotsOf
<1>5. SlotsIn(q2, e) = Rest \cup B /\ Rest \cap B = {}
  BY DEF SlotsIn, SlotsOf, SameBut
<1> HIDE DEF A, B, Rest
<1>6. /\ Cardinality(SlotsIn(q, e)) = Cardinality(Rest) + Cardinality(A)
      /\ Cardinality(SlotsIn(q2, e)) = Cardinality(Rest) + Cardinality(B)
  <2>1. Cardinality(SlotsIn(q, e)) = Cardinality(Rest) + Cardinality(A)
    BY <1>2, <1>3, <1>4, Parts
  <2>2. Cardinality(SlotsIn(q2, e)) = Cardinality(Rest) + Cardinality(B)
    BY <1>2, <1>3, <1>5, Parts
  <2> QED
    BY <2>1, <2>2
<1>7. /\ Cardinality(Rest) \in Nat /\ Cardinality(SlotsIn(q, e)) \in Nat
      /\ Cardinality(A) \in Nat /\ Cardinality(B) \in Nat
  BY <1>2, <1>3, FS_CardinalityType
<1> QED
  BY <1>3, <1>6, <1>7

\* Holders of event e, of the values of the variables.
HoldersIn(q, c, a, e) ==
  Cardinality(SlotsIn(q, e))
    + Cardinality({h \in Handler : c[h] = e})
    + Cardinality({t \in Thread : a[t].event = e})

EventsOf(a) == [t \in Thread |-> a[t].event]

\* The values that the three variables may have, as far as counting goes.
Countable(q) == q \in [Handler -> Seq(Event)] /\ \A h \in Handler : Len(q[h]) <= Capacity

\* What a step that disturbs handler h and the publish of thread t does to the
\* holders of event e.
Moved(q, q2, c, c2, a, a2, h, t, e) ==
  /\ HoldersIn(q, c, a, e) \in Nat /\ HoldersIn(q2, c2, a2, e) \in Nat
  /\ Occurrences(q[h], e) \in Nat /\ Occurrences(q2[h], e) \in Nat
  /\ HoldersIn(q2, c2, a2, e) = HoldersIn(q, c, a, e)
       + Occurrences(q2[h], e) - Occurrences(q[h], e)
       + One(c2[h], e) - One(c[h], e)
       + One(a2[t].event, e) - One(a[t].event, e)
  /\ c[h] = e \/ a[t].event = e => HoldersIn(q, c, a, e) > 0

LEMMA HoldersMoved ==
  ASSUME IsFiniteSet(Publisher), NEW q, NEW q2, NEW c, NEW c2, NEW a, NEW a2,
         Countable(q), Countable(q2), NEW h \in Handler, NEW t \in Thread,
         SameBut(q, q2, Handler, h), SameBut(c, c2, Handler, h),
         SameBut(a, a2, Thread, t), NEW e
  PROVE  Moved(q, q2, c, c2, a, a2, h, t, e)
<1> DEFINE f == EventsOf(a)
           f2 == EventsOf(a2)
           n == Cardinality(SlotsIn(q, e))
           n2 == Cardinality(SlotsIn(q2, e))
<1>1. IsFiniteSet(Handler) /\ IsFiniteSet(Thread)
  BY Sizes
<1>2. /\ n \in Nat /\ n2 \in Nat
      /\ Occurrences(q[h], e) \in Nat /\ Occurrences(q2[h], e) \in Nat
      /\ n2 = n + Occurrences(q2[h], e) - Occurrences(q[h], e)
  <2>1. /\ q \in [Handler -> Seq(Event)] /\ q2 \in [Handler -> Seq(Event)]
        /\ Len(q[h]) <= Capacity /\ Len(q2[h]) <= Capacity
    BY DEF Countable
  <2>2. /\ n \in Nat
        /\ Occurrences(q[h], e) \in Nat /\ Occurrences(q2[h], e) \in Nat
        /\ n2 = n + Occurrences(q2[h], e) - Occurrences(q[h], e)
    BY <2>1, SlotsMoved
  <2>3. SameBut(q2, q, Handler, h)
    BY DEF SameBut
  <2>4. n2 \in Nat
    BY <2>1, <2>3, SlotsMoved
  <2> QED
    BY <2>2, <2>4
<1>3. /\ f[t] = a[t].event /\ f2[t] = a2[t].event
      /\ SameBut(f, f2, Thread, t)
  BY DEF EventsOf, SameBut
<1>4. /\ HoldersIn(q, c, a, e) = n + CountOf(c, Handler, e) + CountOf(f, Thread, e)
      /\ HoldersIn(q2, c2, a2, e) = n2 + CountOf(c2, Handler, e) + CountOf(f2, Thread, e)
  <2>1. /\ {u \in Thread : a[u].event = e} = {u \in Thread : f[u] = e}
        /\ {u \in Thread : a2[u].event = e} = {u \in Thread : f2[u] = e}
    BY DEF EventsOf
  <2> QED
    BY <2>1 DEF HoldersIn, CountOf
<1> HIDE DEF f, f2, n, n2
<1>5. /\ CountOf(c, Handler, e) \in Nat /\ CountOf(f, Thread, e) \in Nat
      /\ CountOf(c2, Handler, e) \in Nat /\ CountOf(f2, Thread, e) \in Nat
  BY <1>1, CountOfType
<1>6. CountOf(c2, Handler, e) = CountOf(c, Handler, e) - One(c[h], e) + One(c2[h], e)
  BY <1>1, CountOfMoved
<1>7. CountOf(f2, Thread, e) = CountOf(f, Thread, e) - One(f[t], e) + One(f2[t], e)
  BY <1>1, <1>3, CountOfMoved
<1>8. /\ c[h] = e => CountOf(c, Handler, e) > 0
      /\ f[t] = e => CountOf(f, Thread, e) > 0
  BY <1>1, CountOfPositive
<1>9. \A x : One(x, e) \in Int
  BY DEF One
<1>10. HoldersIn(q, c, a, e) \in Nat /\ HoldersIn(q2, c2, a2, e) \in Nat
  BY <1>2, <1>4, <1>5
<1>11. HoldersIn(q2, c2, a2, e) = HoldersIn(q, c, a, e)
           + Occurrences(q2[h], e) - Occurrences(q[h], e)
           + One(c2[h], e) - One(c[h], e) + One(f2[t], e) - One(f[t], e)
  BY <1>2, <1>4, <1>5, <1>6, <1>7, <1>9
<1>12. c[h] = e \/ f[t] = e => HoldersIn(q, c, a, e) > 0
  BY <1>2, <1>4, <1>5, <1>8
<1> QED
  BY <1>2, <1>3, <1>10, <1>11, <1>12 DEF Moved

\* The same of a step of the specification.
LEMMA HeldStep ==
  ASSUME IsFiniteSet(Publisher), Types, Types', NEW h \in Handler, NEW t \in Thread,
         SameBut(queue, queue', Handler, h), SameBut(cur, cur', Handler, h),
         SameBut(arg, arg', Thread, t), NEW e \in Dynamic
  PROVE  /\ Held[e] \in Nat /\ Held'[e] \in Nat
         /\ Occurrences(queue[h], e) \in Nat /\ Occurrences(queue'[h], e) \in Nat
         /\ Held'[e] = Held[e]
              + Occurrences(queue'[h], e) - Occurrences(queue[h], e)
              + One(cur'[h], e) - One(cur[h], e)
              + One(arg'[t].event, e) - One(arg[t].event, e)
         /\ cur[h] = e \/ arg[t].event = e => Held[e] > 0
<1>1. Countable(queue)
  BY DEF Types, Countable
<1>2. Countable(queue')
  BY DEF Types, Countable
<1>3. Held[e] = HoldersIn(queue, cur, arg, e)
  BY DEF Held, Holders, HoldersIn, Slots, SlotsIn
<1>4. Held'[e] = HoldersIn(queue', cur', arg', e)
  BY DEF Held, Holders, HoldersIn, Slots, SlotsIn
<1>5. PICK q2, c2, a2 : q2 = queue' /\ c2 = cur' /\ a2 = arg'
  OBVIOUS
<1>6. /\ Countable(q2) /\ SameBut(queue, q2, Handler, h)
      /\ SameBut(cur, c2, Handler, h) /\ SameBut(arg, a2, Thread, t)
  BY <1>2, <1>5
<1>7. Moved(queue, q2, cur, c2, arg, a2, h, t, e)
  BY <1>1, <1>6, HoldersMoved
<1> QED
  BY <1>3, <1>4, <1>5, <1>7 DEF Moved

\* The count of every dynamic event is a number.
LEMMA HeldType ==
  ASSUME IsFiniteSet(Publisher), Types
  PROVE  Held \in [Dynamic -> Nat]
<1>1. 0 \in Handler /\ 0 \in Thread
  BY EventAsyncAssumption DEF Handler, Thread
<1>2. Countable(queue)
  BY DEF Types, Countable
<1>3. ASSUME NEW e \in Dynamic PROVE Holders(e) \in Nat
  <2>1. Holders(e) = HoldersIn(queue, cur, arg, e)
    BY DEF Holders, HoldersIn, Slots, SlotsIn
  <2>2. /\ SameBut(queue, queue, Handler, 0) /\ SameBut(cur, cur, Handler, 0)
        /\ SameBut(arg, arg, Thread, 0)
    BY DEF SameBut
  <2> QED
    BY <1>1, <1>2, <2>1, <2>2, HoldersMoved DEF Moved
<1> QED
  BY <1>3 DEF Held

-----------------------------------------------------------------------------
(* Changes of the accounts                                                 *)

\* One holder and one reference more for event e; a static event has no count.
LEMMA CountedAccounts ==
  ASSUME Types, ~heap.corrupt, Accounts(heap, Held, owned), NEW H2,
         Held \in [Dynamic -> Nat], NEW o2,
         NEW e, IsStatic(e) \/ e \in heap.live, CanCount(heap, e),
         \A x \in Dynamic : H2[x] = Held[x] + One(e, x),
         \A p \in Publisher : o2[p] # NoEvent => o2[p] = owned[p] /\ o2[p] # e
  PROVE  Accounts(Counted(heap, e), H2, o2) /\ ~Counted(heap, e).corrupt
<1>1. heap \in HeapType /\ Balanced(heap, Held) /\ Ownership(heap, Held, owned)
  BY DEF Types, Accounts
<1>2. heap.live \subseteq Dynamic
  BY <1>1 DEF HeapType
<1>3. ASSUME NEW x \in Dynamic, x # e PROVE H2[x] = Held[x]
  <2>1. H2[x] = Held[x] + One(e, x) /\ One(e, x) = 0 /\ Held[x] \in Nat
    BY <1>3 DEF One
  <2> QED
    BY <2>1
<1>4. /\ Balanced(Counted(heap, e), H2)
      /\ Counted(heap, e).live = heap.live /\ ~Counted(heap, e).corrupt
  <2>1. CASE IsStatic(e)
    <3>1. Counted(heap, e) = heap /\ e \notin Dynamic
      BY <2>1 DEF Counted, IsStatic
    <3> QED
      BY <1>1, <1>2, <1>3, <3>1 DEF Balanced
  <2>2. CASE e \in heap.live
    BY <1>1, <2>2, CountedBalanced
  <2> QED
    BY <2>1, <2>2
<1>5. Ownership(Counted(heap, e), H2, o2)
  <2>1. ASSUME NEW p \in Publisher, o2[p] # NoEvent
        PROVE  o2[p] = owned[p] /\ o2[p] \in heap.live /\ H2[o2[p]] = 0
    <3>1. o2[p] = owned[p] /\ o2[p] # e
      BY <2>1
    <3>2. owned[p] \in heap.live /\ Held[owned[p]] = 0
      BY <1>1, <2>1, <3>1 DEF Ownership
    <3> QED
      BY <1>2, <1>3, <3>1, <3>2
  <2>2. ASSUME NEW p \in Publisher, NEW r \in Publisher, o2[p] = o2[r], o2[p] # NoEvent
        PROVE  p = r
    <3>1. owned[p] = owned[r] /\ owned[p] # NoEvent
      BY <2>1, <2>2
    <3> QED
      BY <1>1, <3>1 DEF Ownership
  <2> QED
    BY <1>4, <2>1, <2>2 DEF Ownership
<1> QED
  BY <1>4, <1>5 DEF Accounts

\* One holder and one reference less.
LEMMA FreedAccounts ==
  ASSUME Types, ~heap.corrupt, Accounts(heap, Held, owned), NEW H2,
         Held \in [Dynamic -> Nat],
         NEW e, IsStatic(e) \/ Held[e] > 0,
         \A x \in Dynamic : H2[x] = Held[x] - One(e, x)
  PROVE  Accounts(Freed(heap, e), H2, owned) /\ ~Freed(heap, e).corrupt
<1>1. heap \in HeapType /\ Balanced(heap, Held) /\ Ownership(heap, Held, owned)
  BY DEF Types, Accounts
<1>2. heap.live \subseteq Dynamic
  BY <1>1 DEF HeapType
<1>3. ASSUME NEW x \in Dynamic, x # e PROVE H2[x] = Held[x]
  <2>1. H2[x] = Held[x] - One(e, x) /\ One(e, x) = 0 /\ Held[x] \in Nat
    BY <1>3 DEF One
  <2> QED
    BY <2>1
<1>4. /\ Balanced(Freed(heap, e), H2) /\ ~Freed(heap, e).corrupt
      /\ heap.live \ {e} \subseteq Freed(heap, e).live
  <2>1. CASE IsStatic(e)
    <3>1. Freed(heap, e) = heap /\ e \notin Dynamic
      BY <2>1 DEF Freed, IsStatic
    <3> QED
      BY <1>1, <1>2, <1>3, <3>1 DEF Balanced
  <2>2. CASE ~IsStatic(e)
    <3>1. e \in Dynamic /\ Held[e] > 0
      BY <2>2 DEF IsStatic
    <3>2. /\ Balanced(Freed(heap, e), H2)
          /\ Freed(heap, e).live = IF H2[e] = 0 THEN heap.live \ {e} ELSE heap.live
          /\ Freed(heap, e).corrupt = heap.corrupt
      BY <1>1, <3>1, FreedBalanced
    <3> QED
      BY <3>2
  <2> QED
    BY <2>1, <2>2
<1>5. Ownership(Freed(heap, e), H2, owned)
  <2>1. ASSUME NEW p \in Publisher, owned[p] # NoEvent
        PROVE  owned[p] \in heap.live \ {e} /\ H2[owned[p]] = 0
    <3>1. owned[p] \in heap.live /\ owned[p] \in Dynamic /\ Held[owned[p]] = 0
      BY <1>1, <1>2, <2>1 DEF Ownership
    <3>2. owned[p] # e
      BY <3>1 DEF IsStatic
    <3> QED
      BY <1>3, <3>1, <3>2
  <2> QED
    BY <1>1, <1>4, <2>1 DEF Ownership
<1> QED
  BY <1>4, <1>5 DEF Accounts

\* The owner gives away an event that nobody takes: it is recycled.
LEMMA UnheldAccounts ==
  ASSUME Types, ~heap.corrupt, Accounts(heap, Held, owned), NEW H2,
         Held \in [Dynamic -> Nat], NEW o2,
         NEW e \in heap.live, Held[e] = 0,
         \A x \in Dynamic : H2[x] = Held[x],
         \A p \in Publisher : o2[p] # NoEvent => o2[p] = owned[p] /\ o2[p] # e
  PROVE  Accounts(Freed(heap, e), H2, o2) /\ ~Freed(heap, e).corrupt
<1>1. heap \in HeapType /\ Balanced(heap, Held) /\ Ownership(heap, Held, owned)
  BY DEF Types, Accounts
<1>2. heap.live \subseteq Dynamic
  BY <1>1 DEF HeapType
<1>3. /\ Balanced(Freed(heap, e), Held) /\ ~Freed(heap, e).corrupt
      /\ Freed(heap, e).live = heap.live \ {e}
  BY <1>1, FreedUnheld
<1>4. Balanced(Freed(heap, e), H2)
  BY <1>2, <1>3 DEF Balanced
<1>5. Ownership(Freed(heap, e), H2, o2)
  <2>1. ASSUME NEW p \in Publisher, o2[p] # NoEvent
        PROVE  o2[p] = owned[p] /\ o2[p] \in heap.live \ {e} /\ H2[o2[p]] = 0
    <3>1. o2[p] = owned[p] /\ o2[p] # e
      BY <2>1
    <3>2. owned[p] \in heap.live /\ Held[owned[p]] = 0
      BY <1>1, <2>1, <3>1 DEF Ownership
    <3> QED
      BY <1>2, <3>1, <3>2
  <2>2. ASSUME NEW p \in Publisher, NEW r \in Publisher, o2[p] = o2[r], o2[p] # NoEvent
        PROVE  p = r
    <3>1. owned[p] = owned[r] /\ owned[p] # NoEvent
      BY <2>1, <2>2
    <3> QED
      BY <1>1, <3>1 DEF Ownership
  <2> QED
    BY <1>3, <2>1, <2>2 DEF Ownership
<1> QED
  BY <1>3, <1>4, <1>5 DEF Accounts

-----------------------------------------------------------------------------
(* The invariant                                                           *)

LEMMA InitInv ==
  ASSUME IsFiniteSet(Publisher), Init
  PROVE  IInv
<1> USE EventAsyncAssumption
<1>1. Types
  <2>1. heap \in HeapType
    BY HeapInitType DEF Init
  <2>2. queue \in [Handler -> Seq(Event)] /\ \A h \in Handler : Len(queue[h]) <= Capacity
    <3>1. <<>> \in Seq(Event) /\ Len(<<>>) = 0
      OBVIOUS
    <3> QED
      BY <3>1, CapacityAssumption DEF Init
  <2>3. NoArg \in [event : Event \cup {NoEvent}, exclude : Handler \cup {Nobody},
                   margin : Margins \cup CountedMargins \cup {0}]
    BY DEF NoArg
  <2> QED
    BY <2>1, <2>2, <2>3 DEF Init, Types
<1>2. Publishing /\ InHand /\ Asserted
  BY DEF Init, Publishing, InHand, Asserted, NoArg, Thread
<1>3. ASSUME NEW e \in Dynamic PROVE Held[e] = 0
  <2>1. Slots(e) = {} /\ {h \in Handler : cur[h] = e} = {}
        /\ {t \in Thread : arg[t].event = e} = {}
    <3>1. e # NoEvent
      OBVIOUS
    <3>2. \A h \in Handler : queue[h] = <<>> /\ cur[h] = NoEvent
      BY DEF Init
    <3>3. \A t \in Thread : arg[t].event = NoEvent
      BY DEF Init, NoArg
    <3>4. ASSUME NEW s \in Slots(e) PROVE FALSE
      <4>1. s[1] \in Handler /\ s[2] \in 1 .. Capacity /\ s[2] <= Len(queue[s[1]])
        BY <3>4 DEF Slots
      <4>2. Len(queue[s[1]]) = 0
        BY <3>2, <4>1
      <4> QED
        BY <4>1, <4>2, CapacityAssumption
    <3> QED
      BY <3>1, <3>2, <3>3, <3>4
  <2> QED
    <3>1. Cardinality({}) = 0
      BY FS_EmptySet
    <3>2. Holders(e) = 0 + 0 + 0
      BY <2>1, <3>1 DEF Holders
    <3> QED
      BY <3>2 DEF Held
<1>4. heap.live = {} /\ ~heap.corrupt
  BY DEF Init, HeapInit
<1>5. Accounts(heap, Held, owned)
  BY <1>3, <1>4 DEF Init, Accounts, Balanced, Ownership
<1> QED
  BY <1>1, <1>2, <1>4, <1>5 DEF IInv

\* A step that changes neither the heap nor who holds what.
LEMMA SameAccounts ==
  ASSUME ~halted => Accounts(heap, Held, owned), Types, heap' = heap, owned' = owned,
         \A e \in Dynamic : Held'[e] = Held[e], ~halted
  PROVE  Accounts(heap', Held', owned')
<1>1. heap.live \subseteq Dynamic
  BY DEF Types, HeapType
<1>2. Balanced(heap, Held')
  BY <1>1 DEF Accounts, Balanced
<1>3. Ownership(heap, Held', owned)
  BY <1>1 DEF Accounts, Ownership
<1> QED
  BY <1>2, <1>3 DEF Accounts

\* What the handler function leaves: queues within their capacity, a heap of its
\* type, and one event more in the queue that accepted it.
LEMMA HandlerFnStep ==
  ASSUME Types, NEW h \in Handler, NEW e \in Event, NEW lifo \in BOOLEAN, NEW m \in Nat,
         HandlerFn(h, e, lifo, m)
  PROVE  /\ queue' \in [Handler -> Seq(Event)]
         /\ \A g \in Handler : Len(queue'[g]) <= Capacity
         /\ heap' \in HeapType /\ halted' \in BOOLEAN
         /\ SameBut(queue, queue', Handler, h)
         /\ Accept(h, e, lifo, m) =>
              \A x : Occurrences(queue'[h], x) = Occurrences(queue[h], x) + One(e, x)
<1>1. /\ queue \in [Handler -> Seq(Event)] /\ \A g \in Handler : Len(queue[g]) <= Capacity
      /\ heap \in HeapType /\ halted \in BOOLEAN
  BY DEF Types
<1>2. CASE ~Accept(h, e, lifo, m)
  <2>1. queue' = queue
    BY <1>2 DEF HandlerFn, Refuse, Overflow
  <2>2. heap' \in HeapType /\ halted' \in BOOLEAN
    BY <1>1, <1>2, FreedType DEF HandlerFn, Refuse, Overflow
  <2> QED
    BY <1>1, <1>2, <2>1, <2>2 DEF SameBut
<1>3. CASE Accept(h, e, lifo, m)
  <2>1. /\ CanCount(heap, e) /\ heap' = Counted(heap, e) /\ halted' = halted
        /\ queue' = [queue EXCEPT ![h] = Put(queue[h], e, lifo)]
        /\ ~(Capacity - Len(queue[h]) <= m)
    BY <1>3 DEF Accept, NoRoom
  <2>2. heap' \in HeapType
    BY <1>1, <2>1, CountedType
  <2>3. PICK s : s = queue[h]
    OBVIOUS
  <2>4. s \in Seq(Event) /\ Len(s) \in Nat /\ Len(s) + 1 <= Capacity
    BY <1>1, <2>1, <2>3, CapacityAssumption
  <2>5. PICK r : r = Put(s, e, lifo)
    OBVIOUS
  <2>6. /\ r \in Seq(Event) /\ Len(r) = Len(s) + 1
        /\ \A x : Occurrences(r, x) = Occurrences(s, x) + One(e, x)
    <3>1. CASE lifo
      <4>1. r = <<e>> \o s
        BY <2>5, <3>1 DEF Put
      <4>2. \A x : Occurrences(r, x) = Occurrences(s, x) + One(e, x)
        BY <2>4, <4>1, OccurrencesPrepend
      <4>3. r \in Seq(Event) /\ Len(r) = Len(s) + 1
        BY <2>4, <4>1
      <4> QED
        BY <4>2, <4>3
    <3>2. CASE ~lifo
      <4>1. r = Append(s, e)
        BY <2>5, <3>2 DEF Put
      <4>2. \A x : Occurrences(r, x) = Occurrences(s, x) + One(e, x)
        BY <2>4, <4>1, OccurrencesAppend
      <4>3. r \in Seq(Event) /\ Len(r) = Len(s) + 1
        BY <2>4, <4>1
      <4> QED
        BY <4>2, <4>3
    <3> QED
      BY <3>1, <3>2
  <2>7. queue' = [queue EXCEPT ![h] = r]
    BY <2>1, <2>3, <2>5
  <2>8. queue'[h] = r /\ \A g \in Handler : g # h => queue'[g] = queue[g]
    BY <1>1, <2>7
  <2>9. queue' \in [Handler -> Seq(Event)]
    BY <1>1, <2>6, <2>7
  <2>10. \A g \in Handler : Len(queue'[g]) <= Capacity
    BY <1>1, <2>4, <2>6, <2>8
  <2>11. \A x : Occurrences(queue'[h], x) = Occurrences(queue[h], x) + One(e, x)
    BY <2>3, <2>6, <2>8
  <2> QED
    BY <1>1, <2>1, <2>2, <2>8, <2>9, <2>10, <2>11 DEF SameBut
<1> QED
  BY <1>2, <1>3

\* An event that is allocated is freed without harm.
LEMMA FreedSound ==
  ASSUME NEW h \in HeapType, NEW e, IsStatic(e) \/ e \in h.live
  PROVE  Freed(h, e).corrupt = h.corrupt
BY DEF HeapType, Freed

\* A held event is allocated.
LEMMA HeldLive ==
  ASSUME Accounts(heap, Held, owned), NEW e, IsStatic(e) \/ Held[e] > 0
  PROVE  IsStatic(e) \/ e \in heap.live
<1>1. \A x \in Dynamic \ heap.live : Held[x] = 0
  BY DEF Accounts, Balanced
<1> QED
  BY <1>1 DEF IsStatic

\* The publisher that gives an event away no longer owns it, and nobody else does.
LEMMA GiveAwayOwners ==
  ASSUME IInv, ~halted, NEW p \in Publisher, NEW e \in Event, GiveAway(p, e)
  PROVE  /\ owned' \in [Publisher -> Dynamic \cup {NoEvent}]
         /\ \A r \in Publisher : owned'[r] # NoEvent => owned'[r] = owned[r] /\ owned'[r] # e
         /\ IsStatic(e) \/ (e \in heap.live /\ Held[e] = 0)
         /\ IsStatic(e) => owned' = owned
<1>1. /\ owned \in [Publisher -> Dynamic \cup {NoEvent}] /\ e # NoEvent
      /\ Ownership(heap, Held, owned) /\ NoEvent \notin Dynamic
  BY EventAsyncAssumption DEF IInv, Types, Accounts
<1>2. CASE IsStatic(e)
  BY <1>1, <1>2 DEF GiveAway, IsStatic
<1>3. CASE ~IsStatic(e)
  <2>1. e = owned[p] /\ owned' = [owned EXCEPT ![p] = NoEvent]
    BY <1>3 DEF GiveAway
  <2>2. e \in heap.live /\ Held[e] = 0 /\ \A r \in Publisher : owned[r] = e => r = p
    BY <1>1, <2>1 DEF Ownership
  <2>3. owned'[p] = NoEvent /\ \A r \in Publisher : r # p => owned'[r] = owned[r]
    BY <1>1, <2>1
  <2>4. owned' \in [Publisher -> Dynamic \cup {NoEvent}]
    BY <1>1, <2>1
  <2>5. \A r \in Publisher : owned'[r] # NoEvent => owned'[r] = owned[r] /\ owned'[r] # e
    BY <2>2, <2>3
  <2> QED
    BY <1>3, <2>2, <2>4, <2>5
<1> QED
  BY <1>2, <1>3

-----------------------------------------------------------------------------
(* Steps that hand an event to a handler's queue                           *)

\* The holders after a push: one more if it was accepted, the same otherwise.
LEMMA PushHeld ==
  ASSUME IsFiniteSet(Publisher), Types, Types', NEW h \in Handler, NEW e \in Event,
         NEW lifo \in BOOLEAN, NEW m \in Nat, HandlerFn(h, e, lifo, m),
         cur' = cur, arg' = arg, NEW x \in Dynamic
  PROVE  /\ Held[x] \in Nat
         /\ Accept(h, e, lifo, m) => Held'[x] = Held[x] + One(e, x)
         /\ queue' = queue => Held'[x] = Held[x]
<1>1. /\ SameBut(queue, queue', Handler, h)
      /\ Accept(h, e, lifo, m) =>
           Occurrences(queue'[h], x) = Occurrences(queue[h], x) + One(e, x)
  BY HandlerFnStep
<1>2. h \in Thread /\ SameBut(cur, cur', Handler, h) /\ SameBut(arg, arg', Thread, h)
  BY DEF SameBut, Thread
<1>3. /\ Held[x] \in Nat /\ Held'[x] \in Nat
      /\ Occurrences(queue[h], x) \in Nat /\ Occurrences(queue'[h], x) \in Nat
      /\ Held'[x] = Held[x]
           + Occurrences(queue'[h], x) - Occurrences(queue[h], x)
           + One(cur'[h], x) - One(cur[h], x)
           + One(arg'[h].event, x) - One(arg[h].event, x)
  BY <1>1, <1>2, HeldStep
<1>4. One(cur[h], x) \in Int /\ One(arg[h].event, x) \in Int /\ One(e, x) \in Int
  BY DEF One
<1>5. Held'[x] = Held[x] + Occurrences(queue'[h], x) - Occurrences(queue[h], x)
  BY <1>3, <1>4
<1> QED
  BY <1>1, <1>3, <1>4, <1>5

LEMMA PostInv ==
  ASSUME IsFiniteSet(Publisher), IInv, ~halted,
         NEW p \in Publisher, NEW h \in Handler, NEW e \in Event, NEW lifo \in Lifo,
         NEW m \in Margins, Post(p, h, e, lifo, m)
  PROVE  IInv'
<1>1. /\ GiveAway(p, e) /\ HandlerFn(h, e, lifo, m)
      /\ UNCHANGED <<sub, registered, cur, pc, arg, todo>>
  BY DEF Post, pubVars
<1>2. lifo \in BOOLEAN /\ m \in Nat /\ e # NoEvent
  BY EventAsyncAssumption
<1>3. Types
  BY DEF IInv
<1>4. Types'
  <2>1. /\ queue' \in [Handler -> Seq(Event)]
        /\ \A g \in Handler : Len(queue'[g]) <= Capacity
        /\ heap' \in HeapType /\ halted' \in BOOLEAN
    BY <1>1, <1>2, <1>3, HandlerFnStep
  <2>2. owned' \in [Publisher -> Dynamic \cup {NoEvent}]
    BY <1>1, GiveAwayOwners
  <2> QED
    BY <1>1, <1>3, <2>1, <2>2 DEF Types
<1>5. Publishing' /\ InHand' /\ Asserted'
  BY <1>1 DEF IInv, Publishing, InHand, Asserted
<1>6. /\ \A r \in Publisher : owned'[r] # NoEvent => owned'[r] = owned[r] /\ owned'[r] # e
      /\ IsStatic(e) \/ (e \in heap.live /\ Held[e] = 0)
      /\ IsStatic(e) => owned' = owned
  BY <1>1, GiveAwayOwners
<1>7. Accounts(heap, Held, owned) /\ ~heap.corrupt /\ Held \in [Dynamic -> Nat]
  BY <1>3, HeldType DEF IInv
<1>8. \A x \in Dynamic :
        /\ Accept(h, e, lifo, m) => Held'[x] = Held[x] + One(e, x)
        /\ queue' = queue => Held'[x] = Held[x]
  BY <1>1, <1>2, <1>3, <1>4, PushHeld
<1>9. PICK H2, o2 : H2 = Held' /\ o2 = owned'
  OBVIOUS
<1>10. (~halted' => Accounts(heap', H2, o2)) /\ ~heap'.corrupt
  <2>1. CASE Accept(h, e, lifo, m)
    <3>1. CanCount(heap, e) /\ heap' = Counted(heap, e)
      BY <2>1 DEF Accept
    <3>2. /\ \A x \in Dynamic : H2[x] = Held[x] + One(e, x)
          /\ \A r \in Publisher : o2[r] # NoEvent => o2[r] = owned[r] /\ o2[r] # e
      BY <1>6, <1>8, <1>9, <2>1
    <3>3. Accounts(Counted(heap, e), H2, o2) /\ ~Counted(heap, e).corrupt
      <4>1. IsStatic(e) \/ e \in heap.live
        BY <1>6
      <4> QED
        BY <1>3, <1>7, <3>1, <3>2, <4>1, CountedAccounts
    <3> QED
      BY <3>1, <3>3
  <2>2. CASE Refuse(h, e, m)
    <3>1. heap' = Freed(heap, e) /\ queue' = queue
      BY <2>2 DEF Refuse
    <3>2. \A x \in Dynamic : H2[x] = Held[x]
      BY <1>8, <1>9, <3>1
    <3>3. CASE IsStatic(e)
      <4>1. \A x \in Dynamic : H2[x] = Held[x] - One(e, x)
        <5> TAKE x \in Dynamic
        <5>1. One(e, x) = 0 /\ H2[x] = Held[x] /\ Held[x] \in Nat
          BY <1>7, <3>2, <3>3 DEF One, IsStatic
        <5> QED
          BY <5>1
      <4>2. Accounts(Freed(heap, e), H2, owned) /\ ~Freed(heap, e).corrupt
        BY <1>3, <1>7, <3>3, <4>1, FreedAccounts
      <4> QED
        BY <1>6, <1>9, <3>1, <3>3, <4>2
    <3>4. CASE ~IsStatic(e)
      <4>1. /\ e \in heap.live /\ Held[e] = 0
            /\ \A r \in Publisher : o2[r] # NoEvent => o2[r] = owned[r] /\ o2[r] # e
        BY <1>6, <1>9, <3>4
      <4>2. Accounts(Freed(heap, e), H2, o2) /\ ~Freed(heap, e).corrupt
        BY <1>3, <1>7, <3>2, <4>1, UnheldAccounts
      <4> QED
        BY <3>1, <4>2
    <3> QED
      BY <3>3, <3>4
  <2>3. CASE Overflow(h, e, m)
    BY <1>7, <2>3 DEF Overflow
  <2> QED
    BY <1>1, <2>1, <2>2, <2>3 DEF HandlerFn
<1> QED
  BY <1>4, <1>5, <1>9, <1>10 DEF IInv

LEMMA DeliverInv ==
  ASSUME IsFiniteSet(Publisher), Asserting, IInv, ~halted, NEW t \in Thread, Deliver(t)
  PROVE  IInv'
<1>1. /\ pc[t] = "deliver"
      /\ UNCHANGED <<sub, registered, owned, cur, pc, arg>>
  BY DEF Deliver
<1>2. PICK h \in todo[t] : /\ DeliverTo(t, h) \/ SkipGone(t, h)
                           /\ todo' = [todo EXCEPT ![t] = @ \ {h}]
  BY DEF Deliver
<1> DEFINE e == arg[t].event
           m == arg[t].margin
<1>3. /\ Types /\ e \in Event /\ m \in Nat /\ h \in Handler
      /\ e \in Dynamic => m = 0
      /\ todo' \in [Thread -> SUBSET Handler]
  <2>1. Types /\ e \in Event /\ h \in Handler /\ (e \in Dynamic => m = 0)
    BY <1>1 DEF IInv, Types, Publishing, Asserted
  <2>2. m \in Nat
    <3>1. m \in Margins \cup CountedMargins \cup {0}
      BY DEF IInv, Types
    <3>2. Margins \subseteq Nat /\ CountedMargins \subseteq Nat
      BY EventAsyncAssumption, CapacityAssumption
    <3> HIDE DEF m
    <3> QED
      BY <3>1, <3>2
  <2>3. todo' \in [Thread -> SUBSET Handler]
    BY <1>2 DEF IInv, Types
  <2> QED
    BY <2>1, <2>2, <2>3
<1>4. Accounts(heap, Held, owned) /\ ~heap.corrupt /\ Held \in [Dynamic -> Nat]
  BY <1>3, HeldType DEF IInv
<1>5. Publishing' /\ InHand' /\ Asserted'
  BY <1>1 DEF IInv, Publishing, InHand, Asserted
<1>6. CASE SkipGone(t, h)
  <2>1. UNCHANGED <<queue, heap, halted>>
    BY <1>6 DEF SkipGone
  <2>2. Types'
    BY <1>1, <1>3, <2>1 DEF Types
  <2>3. Held' = Held
    BY <1>1, <2>1 DEF Held, Holders, Slots
  <2> QED
    BY <1>1, <1>4, <1>5, <2>1, <2>2, <2>3 DEF IInv, Accounts, Balanced, Ownership
<1>7. CASE DeliverTo(t, h)
  <2>1. HandlerFn(h, e, FALSE, m)
    BY <1>7 DEF DeliverTo
  <2> HIDE DEF e, m
  <2>2. /\ queue' \in [Handler -> Seq(Event)]
        /\ \A g \in Handler : Len(queue'[g]) <= Capacity
        /\ heap' \in HeapType /\ halted' \in BOOLEAN
    BY <1>3, <2>1, HandlerFnStep
  <2>3. Types'
    BY <1>1, <1>3, <2>2 DEF Types
  <2>4. \A x \in Dynamic : Accept(h, e, FALSE, m) => Held'[x] = Held[x] + One(e, x)
    BY <1>1, <1>3, <2>1, <2>3, PushHeld
  <2>5. PICK H2 : H2 = Held'
    OBVIOUS
  <2>6. IsStatic(e) \/ Held[e] > 0
    <3> SUFFICES ASSUME e \in Dynamic PROVE Held[e] > 0
      BY DEF IsStatic
    <3>1. NHandlers \in Nat \ {0} /\ 0 \in Handler
      BY EventAsyncAssumption DEF Handler
    <3>2. Countable(queue) /\ arg[t].event = e
      BY <1>3 DEF Types, Countable, e
    <3>3. /\ SameBut(queue, queue, Handler, 0) /\ SameBut(cur, cur, Handler, 0)
          /\ SameBut(arg, arg, Thread, t)
      BY DEF SameBut
    <3>4. HoldersIn(queue, cur, arg, e) > 0
      BY <3>1, <3>2, <3>3, HoldersMoved DEF Moved
    <3> QED
      BY <3>4 DEF Held, Holders, HoldersIn, Slots, SlotsIn
  <2>7. IsStatic(e) \/ e \in heap.live
    BY <1>4, <2>6, HeldLive
  <2>8. (~halted' => Accounts(heap', H2, owned)) /\ ~heap'.corrupt
    <3>1. CASE Accept(h, e, FALSE, m)
      <4>1. CanCount(heap, e) /\ heap' = Counted(heap, e)
        BY <3>1 DEF Accept
      <4>2. \A r \in Publisher : owned[r] # NoEvent => owned[r] = owned[r] /\ owned[r] # e
        BY <2>6 DEF IInv, Types, Accounts, Ownership, IsStatic
      <4>3. \A x \in Dynamic : H2[x] = Held[x] + One(e, x)
        BY <2>4, <2>5, <3>1
      <4>4. Accounts(Counted(heap, e), H2, owned) /\ ~Counted(heap, e).corrupt
        BY <1>3, <1>4, <2>7, <4>1, <4>2, <4>3, CountedAccounts
      <4> QED
        BY <4>1, <4>4
    <3>2. CASE Refuse(h, e, m)
      <4>1. heap' = Freed(heap, e) /\ queue' = queue /\ halted' = (m = 0)
        BY <3>2 DEF Refuse
      <4>2. Freed(heap, e).corrupt = heap.corrupt
        BY <1>3, <2>7, FreedSound DEF Types
      <4>3. CASE IsStatic(e)
        <5>1. Freed(heap, e) = heap
          BY <4>3 DEF Freed
        <5>2. Held' = Held
          BY <1>1, <4>1 DEF Held, Holders, Slots
        <5> QED
          BY <1>4, <2>5, <4>1, <5>1, <5>2
      <4>4. CASE ~IsStatic(e)
        BY <1>3, <1>4, <4>1, <4>2, <4>4 DEF IsStatic
      <4> QED
        BY <4>3, <4>4
    <3>3. CASE Overflow(h, e, m)
      BY <1>4, <3>3 DEF Overflow
    <3> QED
      BY <2>1, <3>1, <3>2, <3>3 DEF HandlerFn
  <2> QED
    BY <1>1, <1>5, <2>3, <2>5, <2>8 DEF IInv
<1> QED
  BY <1>2, <1>6, <1>7

-----------------------------------------------------------------------------
(* The other steps of a publish                                            *)

LEMMA AllocateInv ==
  ASSUME IsFiniteSet(Publisher), IInv, ~halted, NEW p \in Publisher, NEW e \in Event,
         Allocate(p, e)
  PROVE  IInv'
<1>1. /\ owned[p] = NoEvent /\ e \in Dynamic \ heap.live
      /\ heap' = Allocated(heap, e) /\ owned' = [owned EXCEPT ![p] = e]
      /\ UNCHANGED <<queue, sub, registered, cur, pc, arg, todo, halted>>
  BY DEF Allocate, pubVars
<1>2. Types
  BY DEF IInv
<1>3. Types'
  <2>1. heap' \in HeapType
    BY <1>1, <1>2, AllocatedType DEF Types
  <2>2. owned' \in [Publisher -> Dynamic \cup {NoEvent}]
    BY <1>1, <1>2 DEF Types
  <2> QED
    BY <1>1, <1>2, <2>1, <2>2 DEF Types
<1>4. Publishing' /\ InHand' /\ Asserted'
  BY <1>1 DEF IInv, Publishing, InHand, Asserted
<1>5. Held' = Held
  BY <1>1 DEF Held, Holders, Slots
<1>6. /\ heap'.live = heap.live \cup {e} /\ ~heap'.corrupt
      /\ heap'.ref[e] = 0 /\ \A x \in heap.live : heap'.ref[x] = heap.ref[x]
  <2>1. /\ heap'.live = heap.live \cup {e} /\ heap'.corrupt = heap.corrupt
        /\ heap'.ref = [heap.ref EXCEPT ![e] = 0]
    BY <1>1 DEF Allocated
  <2>2. heap.ref \in [Dynamic -> 0 .. RefMax] /\ heap.live \subseteq Dynamic
    BY <1>2 DEF Types, HeapType
  <2> QED
    BY <1>1, <2>1, <2>2 DEF IInv
<1>7. Accounts(heap, Held, owned) /\ Held[e] = 0 /\ heap.live \subseteq Dynamic
  BY <1>1, <1>2 DEF IInv, Accounts, Balanced, Types, HeapType
<1>8. Balanced(heap', Held)
  BY <1>1, <1>6, <1>7 DEF Accounts, Balanced
<1>9. Ownership(heap', Held, owned')
  <2>1. owned'[p] = e /\ \A r \in Publisher : r # p => owned'[r] = owned[r]
    BY <1>1, <1>2 DEF Types
  <2>2. \A r \in Publisher : owned[r] # NoEvent => owned[r] \in heap.live /\ Held[owned[r]] = 0
    BY <1>7 DEF Accounts, Ownership
  <2>3. \A r \in Publisher :
          owned'[r] # NoEvent => owned'[r] \in heap'.live /\ Held[owned'[r]] = 0
    BY <1>6, <1>7, <2>1, <2>2
  <2>4. \A r \in Publisher : owned'[r] = e => r = p
    BY <1>1, <1>7, <2>1, <2>2, EventAsyncAssumption
  <2>5. \A r, u \in Publisher : owned'[r] = owned'[u] /\ owned'[r] # NoEvent => r = u
    BY <1>7, <2>1, <2>4 DEF Accounts, Ownership
  <2> QED
    BY <2>3, <2>5 DEF Ownership
<1> QED
  BY <1>3, <1>4, <1>5, <1>6, <1>8, <1>9 DEF IInv, Accounts

\* The first step of a publish, for a publisher and for a handler.
LEMMA PublishBeginInv ==
  ASSUME IsFiniteSet(Publisher), Asserting, IInv, ~halted,
         NEW t \in Thread, NEW e \in Event, NEW x \in Handler \cup {Nobody},
         NEW m \in Margins \cup CountedMargins, PublishBegin(t, e, x, m),
         pc[t] \in {"idle", "handling"}, t \in Handler => pc[t] = "handling",
         IsStatic(e) \/ e \in heap.live,
         owned' \in [Publisher -> Dynamic \cup {NoEvent}],
         \A r \in Publisher : owned'[r] # NoEvent => owned'[r] = owned[r] /\ owned'[r] # e
  PROVE  IInv'
<1>1. /\ m \in IF IsStatic(e) THEN Margins ELSE CountedMargins
      /\ CountPublished(t, e)
      /\ pc' = [pc EXCEPT ![t] = "snapshot"]
      /\ arg' = [arg EXCEPT ![t] = [event |-> e, exclude |-> x, margin |-> m]]
      /\ UNCHANGED <<queue, sub, registered, cur, todo>>
  BY DEF PublishBegin
<1>2. Types
  BY DEF IInv
<1>3. /\ \A u \in Thread : u # t => pc'[u] = pc[u] /\ arg'[u] = arg[u]
      /\ pc'[t] = "snapshot" /\ arg'[t].event = e /\ arg'[t].margin = m
      /\ arg[t].event = NoEvent
  BY <1>1, <1>2 DEF IInv, Types, Publishing
<1>4. Types'
  <2>1. heap' \in HeapType /\ halted' \in BOOLEAN
    <3>1. heap \in HeapType /\ halted \in BOOLEAN
      BY <1>2 DEF Types
    <3>2. CanCount(heap, e) => Counted(heap, e) \in HeapType
      BY <3>1, CountedType
    <3>3. \/ CanCount(heap, e) /\ heap' = Counted(heap, e) /\ halted' = halted
          \/ heap' = heap /\ halted' = TRUE
      BY <1>1 DEF CountPublished
    <3> QED
      BY <3>1, <3>2, <3>3
  <2>2. arg' \in [Thread -> [event : Event \cup {NoEvent},
                             exclude : Handler \cup {Nobody},
                             margin : Margins \cup CountedMargins \cup {0}]]
    BY <1>1, <1>2 DEF Types
  <2>3. pc' \in [Thread -> {"idle", "snapshot", "deliver", "handling", "handled"}]
    BY <1>1, <1>2 DEF Types
  <2> QED
    BY <1>1, <1>2, <2>1, <2>2, <2>3 DEF Types
<1>5. Publishing'
  BY <1>3 DEF IInv, Publishing
<1>6. InHand'
  BY <1>1, <1>3 DEF IInv, InHand, Thread
<1>7. Asserted'
  <2>1. e \in Dynamic => m = 0
    BY <1>1 DEF Asserting, IsStatic
  <2> QED
    BY <1>3, <2>1 DEF IInv, Asserted
<1>8. Accounts(heap, Held, owned) /\ ~heap.corrupt /\ Held \in [Dynamic -> Nat]
  BY <1>2, HeldType DEF IInv
<1>9. ASSUME NEW y \in Dynamic PROVE Held'[y] = Held[y] + One(e, y)
  <2>1. 0 \in Handler /\ y # NoEvent
    BY EventAsyncAssumption DEF Handler
  <2>2. /\ SameBut(queue, queue', Handler, 0) /\ SameBut(cur, cur', Handler, 0)
        /\ SameBut(arg, arg', Thread, t)
    BY <1>1, <1>3 DEF SameBut
  <2>3. /\ Held[y] \in Nat /\ Occurrences(queue[0], y) \in Nat
        /\ Held'[y] = Held[y]
             + Occurrences(queue'[0], y) - Occurrences(queue[0], y)
             + One(cur'[0], y) - One(cur[0], y)
             + One(arg'[t].event, y) - One(arg[t].event, y)
    BY <1>2, <1>4, <2>1, <2>2, HeldStep
  <2>4. One(cur[0], y) \in Int /\ One(arg[t].event, y) = 0 /\ One(e, y) \in Int
    BY <1>3, <2>1 DEF One
  <2>5. queue' = queue /\ cur' = cur /\ arg'[t].event = e
    BY <1>1, <1>3
  <2> QED
    BY <2>3, <2>4, <2>5
<1>10. PICK H2, o2 : H2 = Held' /\ o2 = owned'
  OBVIOUS
<1>11. (~halted' => Accounts(heap', H2, o2)) /\ ~heap'.corrupt
  <2>1. CASE CanCount(heap, e) /\ heap' = Counted(heap, e)
    <3>1. /\ \A y \in Dynamic : H2[y] = Held[y] + One(e, y)
          /\ \A r \in Publisher : o2[r] # NoEvent => o2[r] = owned[r] /\ o2[r] # e
      BY <1>9, <1>10
    <3>2. Accounts(Counted(heap, e), H2, o2) /\ ~Counted(heap, e).corrupt
      BY <1>2, <1>8, <2>1, <3>1, CountedAccounts
    <3> QED
      BY <2>1, <3>2
  <2>2. CASE halted' /\ heap' = heap
    BY <1>8, <2>2
  <2> QED
    BY <1>1, <2>1, <2>2 DEF CountPublished
<1> QED
  BY <1>4, <1>5, <1>6, <1>7, <1>10, <1>11 DEF IInv

LEMMA PublishInv ==
  ASSUME IsFiniteSet(Publisher), Asserting, IInv, ~halted,
         NEW p \in Publisher, NEW e \in Event, NEW x \in Handler \cup {Nobody},
         NEW m \in Margins \cup CountedMargins, Publish(p, e, x, m)
  PROVE  IInv'
<1>1. GiveAway(p, e) /\ PublishBegin(p, e, x, m) /\ pc[p] = "idle"
  BY DEF Publish
<1>2. p \in Thread /\ p \notin Handler
  BY EventAsyncAssumption DEF Thread
<1>3. /\ owned' \in [Publisher -> Dynamic \cup {NoEvent}]
      /\ \A r \in Publisher : owned'[r] # NoEvent => owned'[r] = owned[r] /\ owned'[r] # e
      /\ IsStatic(e) \/ e \in heap.live
  BY <1>1, GiveAwayOwners
<1> QED
  BY <1>1, <1>2, <1>3, PublishBeginInv

\* The event that a handler has in hand is held, hence allocated.
LEMMA CurLive ==
  ASSUME IsFiniteSet(Publisher), IInv, ~halted, NEW h \in Handler, cur[h] # NoEvent
  PROVE  /\ cur[h] \in Event
         /\ IsStatic(cur[h]) \/ Held[cur[h]] > 0
         /\ IsStatic(cur[h]) \/ cur[h] \in heap.live
<1>1. Types /\ cur[h] \in Event /\ h \in Thread
  BY DEF IInv, Types, Thread
<1>2. Countable(queue)
  BY <1>1 DEF Types, Countable
<1>3. /\ SameBut(queue, queue, Handler, h) /\ SameBut(cur, cur, Handler, h)
      /\ SameBut(arg, arg, Thread, h)
  BY DEF SameBut
<1>4. HoldersIn(queue, cur, arg, cur[h]) > 0
  BY <1>1, <1>2, <1>3, HoldersMoved DEF Moved
<1>5. IsStatic(cur[h]) \/ Held[cur[h]] > 0
  BY <1>4 DEF IsStatic, Held, Holders, HoldersIn, Slots, SlotsIn
<1>6. IsStatic(cur[h]) \/ cur[h] \in heap.live
  BY <1>5, HeldLive DEF IInv
<1> QED
  BY <1>1, <1>5, <1>6

LEMMA PublishHandledInv ==
  ASSUME IsFiniteSet(Publisher), Asserting, IInv, ~halted, NEW h \in Handler,
         NEW m \in Margins \cup CountedMargins, PublishHandled(h, h, m)
  PROVE  IInv'
<1>1. PublishBegin(h, cur[h], h, m) /\ pc[h] = "handling" /\ owned' = owned
  BY DEF PublishHandled
<1>2. h \in Thread /\ cur[h] # NoEvent
  BY <1>1 DEF IInv, InHand, Thread
<1>3. /\ cur[h] \in Event
      /\ IsStatic(cur[h]) \/ Held[cur[h]] > 0
      /\ IsStatic(cur[h]) \/ cur[h] \in heap.live
  BY <1>2, CurLive
<1>4. owned' \in [Publisher -> Dynamic \cup {NoEvent}]
  BY <1>1 DEF IInv, Types
<1>5. ASSUME NEW r \in Publisher, owned[r] # NoEvent PROVE owned[r] # cur[h]
  <2>1. owned[r] \in Dynamic /\ Held[owned[r]] = 0
    BY <1>5 DEF IInv, Types, Accounts, Ownership
  <2> QED
    BY <1>3, <2>1 DEF IsStatic
<1>6. \A r \in Publisher : owned'[r] # NoEvent => owned'[r] = owned[r] /\ owned'[r] # cur[h]
  BY <1>1, <1>5
<1>7. PICK e : e = cur[h]
  OBVIOUS
<1> QED
  BY <1>1, <1>2, <1>3, <1>4, <1>6, <1>7, PublishBeginInv

LEMMA SnapshotInv ==
  ASSUME IInv, ~halted, NEW t \in Thread, Snapshot(t)
  PROVE  IInv'
<1>1. /\ pc[t] = "snapshot"
      /\ todo' = [todo EXCEPT ![t] = sub[arg[t].event] \ {arg[t].exclude}]
      /\ pc' = [pc EXCEPT ![t] = "deliver"]
      /\ UNCHANGED <<queue, heap, sub, registered, owned, cur, arg, halted>>
  BY DEF Snapshot
<1>2. /\ \A u \in Thread : u # t => pc'[u] = pc[u]
      /\ pc'[t] = "deliver" /\ arg[t].event \in Event
  BY <1>1 DEF IInv, Types, Publishing
<1>3. Types'
  <2>1. sub[arg[t].event] \subseteq Handler
    BY <1>2 DEF IInv, Types
  <2>2. todo' \in [Thread -> SUBSET Handler]
    BY <1>1, <2>1 DEF IInv, Types
  <2> QED
    BY <1>1, <2>2 DEF IInv, Types
<1>4. Publishing' /\ Asserted'
  BY <1>1, <1>2 DEF IInv, Publishing, Asserted
<1>5. InHand'
  BY <1>1, <1>2 DEF IInv, InHand, Thread
<1>6. Held' = Held
  BY <1>1 DEF Held, Holders, Slots
<1> QED
  BY <1>1, <1>3, <1>4, <1>5, <1>6 DEF IInv, Accounts, Balanced, Ownership

LEMMA PublishEndInv ==
  ASSUME IsFiniteSet(Publisher), IInv, ~halted, NEW t \in Thread, PublishEnd(t)
  PROVE  IInv'
<1>1. /\ pc[t] = "deliver" /\ heap' = Freed(heap, arg[t].event)
      /\ pc' = [pc EXCEPT ![t] = IF t \in Handler THEN "handled" ELSE "idle"]
      /\ arg' = [arg EXCEPT ![t] = NoArg]
      /\ UNCHANGED <<queue, sub, registered, owned, cur, todo, halted>>
  BY DEF PublishEnd
<1>2. Types
  BY DEF IInv
<1>3. /\ \A u \in Thread : u # t => pc'[u] = pc[u] /\ arg'[u] = arg[u]
      /\ pc'[t] = IF t \in Handler THEN "handled" ELSE "idle"
      /\ arg'[t] = NoArg
      /\ arg[t].event \in Event
  BY <1>1, <1>2 DEF IInv, Types, Publishing
<1>4. Types'
  <2>1. heap' \in HeapType
    BY <1>1, <1>2, FreedType DEF Types
  <2>2. NoArg \in [event : Event \cup {NoEvent}, exclude : Handler \cup {Nobody},
                   margin : Margins \cup CountedMargins \cup {0}]
    BY DEF NoArg
  <2>3. /\ arg' \in [Thread -> [event : Event \cup {NoEvent},
                               exclude : Handler \cup {Nobody},
                               margin : Margins \cup CountedMargins \cup {0}]]
        /\ pc' \in [Thread -> {"idle", "snapshot", "deliver", "handling", "handled"}]
    BY <1>1, <1>2, <2>2 DEF Types
  <2> QED
    BY <1>1, <1>2, <2>1, <2>3 DEF Types
<1>5. Publishing'
  BY <1>3 DEF IInv, Publishing, NoArg
<1>6. InHand'
  BY <1>1, <1>3, EventAsyncAssumption DEF IInv, InHand, Thread
<1>7. Asserted'
  BY <1>3 DEF IInv, Asserted, NoArg
<1>8. Accounts(heap, Held, owned) /\ ~heap.corrupt /\ Held \in [Dynamic -> Nat]
  BY <1>2, HeldType DEF IInv
<1>9. ASSUME NEW y \in Dynamic
      PROVE  /\ Held'[y] = Held[y] - One(arg[t].event, y)
             /\ arg[t].event = y => Held[y] > 0
  <2>1. 0 \in Handler /\ y # NoEvent
    BY EventAsyncAssumption DEF Handler
  <2>2. /\ SameBut(queue, queue', Handler, 0) /\ SameBut(cur, cur', Handler, 0)
        /\ SameBut(arg, arg', Thread, t)
    BY <1>1, <1>3 DEF SameBut
  <2>3. /\ Held[y] \in Nat /\ Occurrences(queue[0], y) \in Nat
        /\ Held'[y] = Held[y]
             + Occurrences(queue'[0], y) - Occurrences(queue[0], y)
             + One(cur'[0], y) - One(cur[0], y)
             + One(arg'[t].event, y) - One(arg[t].event, y)
        /\ arg[t].event = y => Held[y] > 0
    BY <1>2, <1>4, <2>1, <2>2, HeldStep
  <2>4. One(cur[0], y) \in Int /\ One(NoEvent, y) = 0 /\ One(arg[t].event, y) \in Int
    BY <2>1 DEF One
  <2>5. queue' = queue /\ cur' = cur /\ arg'[t].event = NoEvent
    BY <1>1, <1>3 DEF NoArg
  <2> QED
    BY <2>3, <2>4, <2>5
<1>10. PICK H2, e : H2 = Held' /\ e = arg[t].event
  OBVIOUS
<1>11. Accounts(Freed(heap, e), H2, owned) /\ ~Freed(heap, e).corrupt
  <2>1. \A y \in Dynamic : H2[y] = Held[y] - One(e, y)
    BY <1>9, <1>10
  <2>2. IsStatic(e) \/ Held[e] > 0
    BY <1>9, <1>10 DEF IsStatic
  <2> QED
    BY <1>2, <1>8, <2>1, <2>2, FreedAccounts
<1>12. Accounts(heap', H2, owned') /\ ~heap'.corrupt
  BY <1>1, <1>10, <1>11
<1> QED
  BY <1>4, <1>5, <1>6, <1>7, <1>10, <1>12 DEF IInv

-----------------------------------------------------------------------------
(* The handler's thread                                                    *)

LEMMA PopBeginInv ==
  ASSUME IsFiniteSet(Publisher), IInv, ~halted, NEW h \in Handler, PopBegin(h)
  PROVE  IInv'
<1>1. /\ pc[h] = "idle" /\ queue[h] # <<>>
      /\ cur' = [cur EXCEPT ![h] = Head(queue[h])]
      /\ queue' = [queue EXCEPT ![h] = Tail(@)]
      /\ pc' = [pc EXCEPT ![h] = "handling"]
      /\ UNCHANGED <<heap, sub, registered, owned, arg, todo, halted>>
  BY DEF PopBegin, pubVars
<1>2. Types /\ h \in Thread
  BY DEF IInv, Thread
<1>3. PICK s : s = queue[h]
  OBVIOUS
<1>4. /\ s \in Seq(Event) /\ s # <<>> /\ Len(s) <= Capacity
      /\ cur[h] = NoEvent
  BY <1>1, <1>2, <1>3 DEF IInv, Types, InHand
<1>5. /\ Head(s) \in Event /\ Head(s) = s[1] /\ Tail(s) \in Seq(Event)
      /\ Len(Tail(s)) <= Capacity
  <2>1. /\ Head(s) \in Event /\ Head(s) = s[1] /\ Tail(s) \in Seq(Event)
        /\ Len(Tail(s)) = Len(s) - 1 /\ Len(s) \in Nat
    BY <1>4
  <2> QED
    BY <1>4, <2>1, CapacityAssumption
<1>6. /\ queue'[h] = Tail(s) /\ cur'[h] = s[1] /\ pc'[h] = "handling"
      /\ \A g \in Handler : g # h => queue'[g] = queue[g] /\ cur'[g] = cur[g]
      /\ \A u \in Thread : u # h => pc'[u] = pc[u]
  BY <1>1, <1>2, <1>3, <1>5 DEF Types
<1>7. Types'
  <2>1. queue' \in [Handler -> Seq(Event)] /\ cur' \in [Handler -> Event \cup {NoEvent}]
    BY <1>1, <1>2, <1>3, <1>5 DEF Types
  <2>2. \A g \in Handler : Len(queue'[g]) <= Capacity
    BY <1>2, <1>5, <1>6 DEF Types
  <2>3. pc' \in [Thread -> {"idle", "snapshot", "deliver", "handling", "handled"}]
    BY <1>1, <1>2 DEF Types
  <2> QED
    BY <1>1, <1>2, <2>1, <2>2, <2>3 DEF Types
<1>8. Publishing' /\ Asserted'
  BY <1>1, <1>6 DEF IInv, Publishing, Asserted
<1>9. InHand'
  BY <1>1, <1>5, <1>6, EventAsyncAssumption DEF IInv, InHand, Thread
<1>10. ASSUME NEW y \in Dynamic PROVE Held'[y] = Held[y]
  <2>1. /\ SameBut(queue, queue', Handler, h) /\ SameBut(cur, cur', Handler, h)
        /\ SameBut(arg, arg', Thread, h)
    BY <1>1, <1>6 DEF SameBut
  <2>2. /\ Held[y] \in Nat
        /\ Occurrences(queue[h], y) \in Nat /\ Occurrences(queue'[h], y) \in Nat
        /\ Held'[y] = Held[y]
             + Occurrences(queue'[h], y) - Occurrences(queue[h], y)
             + One(cur'[h], y) - One(cur[h], y)
             + One(arg'[h].event, y) - One(arg[h].event, y)
    BY <1>2, <1>7, <2>1, HeldStep
  <2>3. Occurrences(s, y) = Occurrences(Tail(s), y) + One(s[1], y)
    BY <1>4, OccurrencesTail
  <2>4. /\ One(s[1], y) \in Int /\ One(cur[h], y) = 0 /\ One(arg[h].event, y) \in Int
        /\ arg' = arg
    BY <1>1, <1>4, EventAsyncAssumption DEF One
  <2>5. queue'[h] = Tail(s) /\ queue[h] = s /\ cur'[h] = s[1]
    BY <1>3, <1>6
  <2> QED
    BY <2>2, <2>3, <2>4, <2>5
<1>11. Accounts(heap', Held', owned') /\ ~heap'.corrupt
  BY <1>1, <1>2, <1>10, SameAccounts DEF IInv
<1> QED
  BY <1>7, <1>8, <1>9, <1>11 DEF IInv

LEMMA PopEndInv ==
  ASSUME IsFiniteSet(Publisher), IInv, ~halted, NEW h \in Handler, PopEnd(h)
  PROVE  IInv'
<1>1. /\ pc[h] \in {"handling", "handled"}
      /\ heap' = Freed(heap, cur[h])
      /\ cur' = [cur EXCEPT ![h] = NoEvent]
      /\ pc' = [pc EXCEPT ![h] = "idle"]
      /\ UNCHANGED <<queue, sub, registered, owned, arg, todo, halted>>
  BY DEF PopEnd, pubVars
<1>2. Types /\ h \in Thread /\ cur[h] # NoEvent
  BY <1>1 DEF IInv, Thread, InHand
<1>3. /\ cur'[h] = NoEvent /\ pc'[h] = "idle"
      /\ \A g \in Handler : g # h => cur'[g] = cur[g]
      /\ \A u \in Thread : u # h => pc'[u] = pc[u]
  BY <1>1, <1>2 DEF Types
<1>4. Types'
  <2>1. heap' \in HeapType
    BY <1>1, <1>2, FreedType DEF Types
  <2>2. /\ cur' \in [Handler -> Event \cup {NoEvent}]
        /\ pc' \in [Thread -> {"idle", "snapshot", "deliver", "handling", "handled"}]
    BY <1>1, <1>2 DEF Types
  <2> QED
    BY <1>1, <1>2, <2>1, <2>2 DEF Types
<1>5. Publishing' /\ Asserted'
  BY <1>1, <1>2, <1>3 DEF IInv, Publishing, Asserted
<1>6. InHand'
  BY <1>3, EventAsyncAssumption DEF IInv, InHand, Thread
<1>7. IsStatic(cur[h]) \/ Held[cur[h]] > 0
  BY <1>2, CurLive
<1>8. Accounts(heap, Held, owned) /\ ~heap.corrupt /\ Held \in [Dynamic -> Nat]
  BY <1>2, HeldType DEF IInv
<1>9. ASSUME NEW y \in Dynamic PROVE Held'[y] = Held[y] - One(cur[h], y)
  <2>1. /\ SameBut(queue, queue', Handler, h) /\ SameBut(cur, cur', Handler, h)
        /\ SameBut(arg, arg', Thread, h)
    BY <1>1, <1>3 DEF SameBut
  <2>2. /\ Held[y] \in Nat /\ Occurrences(queue[h], y) \in Nat
        /\ Held'[y] = Held[y]
             + Occurrences(queue'[h], y) - Occurrences(queue[h], y)
             + One(cur'[h], y) - One(cur[h], y)
             + One(arg'[h].event, y) - One(arg[h].event, y)
    BY <1>2, <1>4, <2>1, HeldStep
  <2>3. One(NoEvent, y) = 0 /\ One(cur[h], y) \in Int /\ One(arg[h].event, y) \in Int
    BY EventAsyncAssumption DEF One
  <2>4. queue' = queue /\ arg' = arg /\ cur'[h] = NoEvent
    BY <1>1, <1>3
  <2> QED
    BY <2>2, <2>3, <2>4
<1>10. PICK H2, e : H2 = Held' /\ e = cur[h]
  OBVIOUS
<1>11. Accounts(Freed(heap, e), H2, owned) /\ ~Freed(heap, e).corrupt
  <2>1. \A y \in Dynamic : H2[y] = Held[y] - One(e, y)
    BY <1>9, <1>10
  <2>2. IsStatic(e) \/ Held[e] > 0
    BY <1>7, <1>10
  <2> QED
    BY <1>2, <1>8, <2>1, <2>2, FreedAccounts
<1>12. Accounts(heap', H2, owned') /\ ~heap'.corrupt
  BY <1>1, <1>10, <1>11
<1> QED
  BY <1>4, <1>5, <1>6, <1>10, <1>12 DEF IInv

\* A step that only changes who is registered or subscribed.
LEMMA QuietInv ==
  ASSUME IInv, UNCHANGED <<queue, heap, owned, cur, pc, arg, todo, halted>>,
         sub' \in [Event -> SUBSET Handler], registered' \subseteq Handler
  PROVE  IInv'
<1>1. Types' /\ Publishing' /\ InHand' /\ Asserted'
  BY DEF IInv, Types, Publishing, InHand, Asserted
<1>2. Held' = Held
  BY DEF Held, Holders, Slots
<1> QED
  BY <1>1, <1>2 DEF IInv, Accounts, Balanced, Ownership

LEMMA RegistrationInv ==
  ASSUME IInv, NEW h \in Handler,
         \/ Register(h) \/ Unregister(h) \/ UnsubscribeAll(h)
         \/ \E e \in Topics : Subscribe(h, e) \/ Unsubscribe(h, e)
  PROVE  IInv'
<1> USE DEF Register, Unregister, UnsubscribeAll, Subscribe, Unsubscribe
<1>1. UNCHANGED <<queue, heap, owned, cur, pc, arg, todo, halted>>
  BY DEF pubVars
<1>2. sub \in [Event -> SUBSET Handler] /\ registered \subseteq Handler
  BY DEF IInv, Types
<1>3. registered' \subseteq Handler
  BY <1>2
<1>4. sub' \in [Event -> SUBSET Handler]
  <2>1. CASE \E e \in Topics : Subscribe(h, e) \/ Unsubscribe(h, e)
    <3>1. PICK e \in Topics : sub' = [sub EXCEPT ![e] = sub[e] \cup {h}]
                              \/ sub' = [sub EXCEPT ![e] = sub[e] \ {h}]
      BY <2>1
    <3>2. sub[e] \cup {h} \in SUBSET Handler /\ sub[e] \ {h} \in SUBSET Handler
      BY <1>2, EventAsyncAssumption
    <3> QED
      BY <1>2, <3>1, <3>2
  <2>2. CASE Register(h) \/ Unregister(h) \/ UnsubscribeAll(h)
    BY <1>2, <2>2
  <2> QED
    BY <2>1, <2>2
<1> QED
  BY <1>1, <1>3, <1>4, QuietInv

LEMMA NextInv ==
  ASSUME IsFiniteSet(Publisher), Asserting, IInv, [Next]_vars
  PROVE  IInv'
<1>1. CASE UNCHANGED vars
  BY <1>1, QuietInv DEF vars, IInv, Types
<1>2. CASE Stopped
  BY <1>2, QuietInv DEF Stopped, vars, IInv, Types
<1>3. CASE ~halted
  <2>1. ASSUME NEW p \in Publisher, PublisherNext(p) PROVE IInv'
    BY <1>3, <2>1, AllocateInv, PostInv, PublishInv DEF PublisherNext
  <2>2. ASSUME NEW h \in Handler, HandlerNext(h) PROVE IInv'
    <3>1. CASE \/ Register(h) \/ Unregister(h) \/ UnsubscribeAll(h)
               \/ \E e \in Topics : Subscribe(h, e) \/ Unsubscribe(h, e)
      BY <3>1, RegistrationInv
    <3>2. CASE PopBegin(h) \/ PopEnd(h)
      BY <1>3, <3>2, PopBeginInv, PopEndInv
    <3>3. CASE \E m \in Margins \cup CountedMargins : PublishHandled(h, h, m)
      BY <1>3, <3>3, PublishHandledInv
    <3> QED
      BY <2>2, <3>1, <3>2, <3>3 DEF HandlerNext
  <2>3. ASSUME NEW t \in Thread, PublishSteps(t) PROVE IInv'
    BY <1>3, <2>3, SnapshotInv, DeliverInv, PublishEndInv DEF PublishSteps
  <2> QED
    BY <1>1, <1>2, <2>1, <2>2, <2>3 DEF Next
<1> QED
  BY <1>1, <1>2, <1>3 DEF Next, Running

LEMMA AccountsFollow == IInv => EventsAccounted
<1> SUFFICES ASSUME IInv PROVE EventsAccounted
  OBVIOUS
<1>1. heap.live \subseteq Dynamic
  BY DEF IInv, Types, HeapType
<1>2. RefCountIsHolders
  BY <1>1 DEF RefCountIsHolders, Running, IInv, Accounts, Balanced, Held
<1>3. NoUseAfterFree
  <2>1. ASSUME ~halted, NEW e \in Dynamic \ heap.live
        PROVE  Holders(e) = 0 /\ \A p \in Publisher : owned[p] # e
    <3>1. Held[e] = 0 /\ e # NoEvent
      BY <2>1, EventAsyncAssumption DEF IInv, Accounts, Balanced
    <3>2. \A p \in Publisher : owned[p] # e
      BY <2>1, <3>1 DEF IInv, Accounts, Ownership
    <3> QED
      BY <3>1, <3>2 DEF Held
  <2> QED
    BY <2>1 DEF IInv, NoUseAfterFree
<1> QED
  BY <1>2, <1>3 DEF EventsAccounted

\* For any handlers and any finite number of publishers: however posts, publishes,
\* deliveries, handlers and unsubscriptions interleave, the reference counter of an
\* event is the number of queue slots, callbacks and publishes that hold it, and no
\* event is recycled while one of them does (am_event_async_publish, libs/event).
THEOREM AccountsCorrect ==
  ASSUME IsFiniteSet(Publisher), Asserting
  PROVE  Spec => []EventsAccounted
<1>1. Init => IInv
  BY InitInv
<1>2. IInv /\ [Next]_vars => IInv'
  BY NextInv
<1>3. IInv => EventsAccounted
  BY AccountsFollow
<1> QED
  BY <1>1, <1>2, <1>3, PTL DEF Spec

LEMMA TypesFollow == Types => TypeOK
<1> SUFFICES ASSUME Types PROVE TypeOK
  OBVIOUS
<1>1. ASSUME NEW h \in Handler PROVE queue[h] \in Queues(Event)
  <2>1. PICK s : s = queue[h]
    OBVIOUS
  <2>2. s \in Seq(Event) /\ Len(s) \in 0 .. Capacity
    BY <2>1, CapacityAssumption DEF Types
  <2>3. s \in [1 .. Len(s) -> Event]
    BY <2>2
  <2> QED
    BY <2>1, <2>2, <2>3 DEF Queues
<1>2. queue \in [Handler -> Queues(Event)]
  BY <1>1 DEF Types
<1> QED
  BY <1>2 DEF Types, TypeOK

\* Every variable stays in its type; in particular no queue outgrows its array
\* (am_event_queue_push_unsafe).
THEOREM TypeCorrect ==
  ASSUME IsFiniteSet(Publisher), Asserting
  PROVE  Spec => []TypeOK
<1>1. Init => IInv
  BY InitInv
<1>2. IInv /\ [Next]_vars => IInv'
  BY NextInv
<1>3. IInv => TypeOK
  BY TypesFollow DEF IInv
<1> QED
  BY <1>1, <1>2, <1>3, PTL DEF Spec

=============================================================================
