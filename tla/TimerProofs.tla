----------------------------- MODULE TimerProofs -----------------------------
(***************************************************************************)
(* The lists of module Timer stay lists, and armed events fire on time,    *)
(* for any number of events, ticks and intervals.                          *)
(***************************************************************************)
EXTENDS Timer, SequenceTheorems, FiniteSetTheorems, TLAPS

\* The first conjuncts of LinkedOnce, of any two lists.
Apart(s, t) ==
  /\ \A i, j \in DOMAIN s : s[i] = s[j] => i = j
  /\ \A i, j \in DOMAIN t : t[i] = t[j] => i = j
  /\ \A i \in DOMAIN s, j \in DOMAIN t : s[i] # t[j]

\* The items from position k on.
From(s, k) == {s[i] : i \in k .. Len(s)}

\* Removing an item shifts those behind it.
LEMMA RemoveAtFacts ==
  ASSUME NEW S, NEW s \in Seq(S), NEW k \in 1 .. Len(s)
  PROVE  /\ RemoveAt(s, k) \in Seq(S)
         /\ Len(RemoveAt(s, k)) = Len(s) - 1
         /\ \A i \in 1 .. Len(s) - 1 :
              RemoveAt(s, k)[i] = IF i < k THEN s[i] ELSE s[i + 1]
<1> DEFINE a == SubSeq(s, 1, k - 1)
           b == SubSeq(s, k + 1, Len(s))
<1>1. Len(s) \in Nat /\ \A i \in 1 .. Len(s) : s[i] \in S
  BY ElementOfSeq, LenProperties
<1>2. /\ a \in Seq(S) /\ Len(a) = k - 1
      /\ \A i \in 1 .. k - 1 : a[i] = s[i]
  <2>1. \A i \in 1 .. k - 1 : s[i] \in S
    BY <1>1
  <2>2. QED
    BY <1>1, <2>1, SubSeqProperties
<1>3. /\ b \in Seq(S) /\ Len(b) = Len(s) - k
      /\ \A i \in 1 .. Len(s) - k : b[i] = s[k + i]
  <2>1. \A i \in k + 1 .. Len(s) : s[i] \in S
    BY <1>1
  <2>2. /\ b \in Seq(S)
        /\ Len(b) = IF k + 1 <= Len(s) THEN Len(s) - (k + 1) + 1 ELSE 0
        /\ \A i \in 1 .. Len(s) - (k + 1) + 1 : b[i] = s[(k + 1) + i - 1]
    BY <1>1, <2>1, SubSeqProperties
  <2>3. \A i \in Int : (k + 1) + i - 1 = k + i
    BY <1>1
  <2>4. QED
    BY <1>1, <2>2, <2>3
<1>4. RemoveAt(s, k) = a \o b
  BY DEF RemoveAt
<1> HIDE DEF a, b
<1>5. /\ a \o b \in Seq(S)
      /\ Len(a \o b) = Len(a) + Len(b)
      /\ \A i \in 1 .. Len(a) + Len(b) : (a \o b)[i] = IF i <= Len(a) THEN a[i] ELSE b[i - Len(a)]
  BY <1>2, <1>3, ConcatProperties
<1>6. ASSUME NEW i \in 1 .. Len(s) - 1
      PROVE  (a \o b)[i] = IF i < k THEN s[i] ELSE s[i + 1]
  <2>1. CASE i < k
    <3>1. i \in 1 .. Len(a) + Len(b) /\ i <= Len(a) /\ i \in 1 .. k - 1
      BY <1>1, <1>2, <1>3, <2>1
    <3>2. (a \o b)[i] = a[i] /\ a[i] = s[i]
      BY <1>2, <1>5, <3>1
    <3>3. QED
      BY <2>1, <3>2
  <2>2. CASE i >= k
    <3>1. i - Len(a) \in 1 .. Len(s) - k /\ k + (i - Len(a)) = i + 1 /\ ~(i <= Len(a))
      BY <1>1, <1>2, <2>2
    <3>2. b[i - Len(a)] = s[i + 1]
      BY <1>3, <3>1
    <3>3. i \in 1 .. Len(a) + Len(b) /\ ~(i < k)
      BY <1>1, <1>2, <1>3, <2>2
    <3>4. (a \o b)[i] = b[i - Len(a)]
      BY <1>5, <3>1, <3>3
    <3>5. (a \o b)[i] = s[i + 1]
      BY <3>2, <3>4
    <3>6. QED
      BY <3>3, <3>5
  <2>3. i < k \/ i >= k
    BY <1>1
  <2>4. QED
    BY <2>1, <2>2, <2>3
<1>7. Len(a \o b) = Len(s) - 1
  BY <1>1, <1>2, <1>3, <1>5
<1>8. QED
  BY <1>4, <1>5, <1>6, <1>7

\* Linking an event that no list holds.
LEMMA LinkKeeps ==
  ASSUME NEW S, NEW s \in Seq(S), NEW t \in Seq(S), NEW e \in S,
         Apart(s, t), e \notin ToSet(s) \cup ToSet(t)
  PROVE  /\ Append(t, e) \in Seq(S)
         /\ Len(Append(t, e)) = Len(t) + 1
         /\ Apart(s, Append(t, e))
         /\ ToSet(Append(t, e)) = ToSet(t) \cup {e}
<1> DEFINE u == Append(t, e)
<1>1. /\ u \in Seq(S) /\ Len(u) = Len(t) + 1 /\ DOMAIN u = 1 .. Len(t) + 1
      /\ DOMAIN t = 1 .. Len(t) /\ Len(t) \in Nat
      /\ \A i \in 1 .. Len(t) : u[i] = t[i]
      /\ u[Len(t) + 1] = e
  BY AppendProperties, LenProperties
<1>2. \A i \in DOMAIN s : s[i] # e
  BY DEF ToSet
<1>3. \A i \in DOMAIN t : t[i] # e
  BY DEF ToSet
<1> HIDE DEF u
<1>4. Apart(s, u)
  <2>1. \A i, j \in DOMAIN u : u[i] = u[j] => i = j
    BY <1>1, <1>3 DEF Apart
  <2>2. \A i \in DOMAIN s, j \in DOMAIN u : s[i] # u[j]
    BY <1>1, <1>2 DEF Apart
  <2>3. QED
    BY <2>1, <2>2 DEF Apart
<1>5. ToSet(u) = ToSet(t) \cup {e}
  BY <1>1 DEF ToSet
<1>6. QED
  BY <1>1, <1>4, <1>5 DEF u

\* Appending the pending list to the list that is iterated over.
LEMMA AppendKeeps ==
  ASSUME NEW S, NEW s \in Seq(S), NEW t \in Seq(S), Apart(s, t)
  PROVE  /\ s \o t \in Seq(S)
         /\ Len(s \o t) = Len(s) + Len(t)
         /\ Apart(s \o t, <<>>)
         /\ ToSet(s \o t) = ToSet(s) \cup ToSet(t)
         /\ \A i \in 1 .. Len(s) : (s \o t)[i] = s[i]
<1> DEFINE u == s \o t
<1>1. /\ u \in Seq(S) /\ Len(u) = Len(s) + Len(t)
      /\ Len(s) \in Nat /\ Len(t) \in Nat
      /\ DOMAIN u = 1 .. Len(s) + Len(t)
      /\ DOMAIN s = 1 .. Len(s) /\ DOMAIN t = 1 .. Len(t)
      /\ \A i \in 1 .. Len(s) + Len(t) : u[i] = IF i <= Len(s) THEN s[i] ELSE t[i - Len(s)]
  BY ConcatProperties, LenProperties
<1> HIDE DEF u
<1>2. \A i \in 1 .. Len(s) : u[i] = s[i]
  BY <1>1
<1>3. \A i \in 1 .. Len(t) : u[Len(s) + i] = t[i]
  <2> TAKE i \in 1 .. Len(t)
  <2>1. Len(s) + i \in 1 .. Len(s) + Len(t) /\ ~(Len(s) + i <= Len(s)) /\ Len(s) + i - Len(s) = i
    BY <1>1
  <2>2. QED
    BY <1>1, <2>1
<1>4. ASSUME NEW i \in DOMAIN u
      PROVE  i \in 1 .. Len(s) \/ \E j \in 1 .. Len(t) : i = Len(s) + j
  <2>1. CASE i > Len(s)
    <3>1. i - Len(s) \in 1 .. Len(t) /\ i = Len(s) + (i - Len(s))
      BY <1>1, <2>1
    <3>2. QED
      BY <3>1
  <2>2. QED
    BY <1>1, <2>1
<1>5. ASSUME NEW i \in DOMAIN u, NEW j \in DOMAIN u, u[i] = u[j]
      PROVE  i = j
  <2>1. CASE i \in 1 .. Len(s) /\ j \in 1 .. Len(s)
    BY <1>1, <1>2, <1>5, <2>1 DEF Apart
  <2>2. CASE i \in 1 .. Len(s) /\ j \notin 1 .. Len(s)
    <3>1. PICK l \in 1 .. Len(t) : j = Len(s) + l
      BY <1>4, <2>2
    <3>2. u[i] = s[i] /\ u[j] = t[l]
      BY <1>2, <1>3, <2>2, <3>1
    <3>3. QED
      BY <1>1, <1>5, <2>2, <3>2 DEF Apart
  <2>3. CASE i \notin 1 .. Len(s) /\ j \in 1 .. Len(s)
    <3>1. PICK l \in 1 .. Len(t) : i = Len(s) + l
      BY <1>4, <2>3
    <3>2. u[j] = s[j] /\ u[i] = t[l]
      BY <1>2, <1>3, <2>3, <3>1
    <3>3. QED
      BY <1>1, <1>5, <2>3, <3>2 DEF Apart
  <2>4. CASE i \notin 1 .. Len(s) /\ j \notin 1 .. Len(s)
    <3>1. PICK l \in 1 .. Len(t) : i = Len(s) + l
      BY <1>4, <2>4
    <3>2. PICK m \in 1 .. Len(t) : j = Len(s) + m
      BY <1>4, <2>4
    <3>3. t[l] = t[m]
      BY <1>3, <1>5, <3>1, <3>2
    <3>4. l = m
      BY <1>1, <3>3 DEF Apart
    <3>5. QED
      BY <3>1, <3>2, <3>4
  <2>5. QED
    BY <2>1, <2>2, <2>3, <2>4
<1>6. Apart(u, <<>>)
  <2>1. DOMAIN <<>> = {}
    OBVIOUS
  <2>2. QED
    BY <1>5, <2>1, Zenon DEF Apart
<1>7. ToSet(u) = ToSet(s) \cup ToSet(t)
  <2>1. ASSUME NEW i \in DOMAIN u
        PROVE  u[i] \in ToSet(s) \cup ToSet(t)
    <3>1. CASE i \in 1 .. Len(s)
      BY <1>1, <1>2, <3>1 DEF ToSet
    <3>2. CASE \E j \in 1 .. Len(t) : i = Len(s) + j
      BY <1>1, <1>3, <3>2 DEF ToSet
    <3>3. QED
      BY <1>4, <3>1, <3>2
  <2>2. ToSet(s) \subseteq ToSet(u)
    BY <1>1, <1>2 DEF ToSet
  <2>3. ToSet(t) \subseteq ToSet(u)
    <3>1. ASSUME NEW i \in DOMAIN t
          PROVE  t[i] \in ToSet(u)
      <4>1. Len(s) + i \in DOMAIN u /\ u[Len(s) + i] = t[i]
        BY <1>1, <1>3
      <4>2. QED
        BY <4>1 DEF ToSet
    <3>2. QED
      BY <3>1 DEF ToSet
  <2>4. ToSet(u) \subseteq ToSet(s) \cup ToSet(t)
    BY <2>1 DEF ToSet
  <2>5. QED
    BY <2>2, <2>3, <2>4
<1>8. QED
  BY <1>1, <1>2, <1>6, <1>7 DEF u

\* Unlinking the item at position k.
LEMMA UnlinkKeeps ==
  ASSUME NEW S, NEW s \in Seq(S), NEW t \in Seq(S), Apart(s, t),
         NEW k \in 1 .. Len(s)
  PROVE  /\ RemoveAt(s, k) \in Seq(S)
         /\ Len(RemoveAt(s, k)) = Len(s) - 1
         /\ Apart(RemoveAt(s, k), t)
         /\ ToSet(RemoveAt(s, k)) = ToSet(s) \ {s[k]}
         /\ From(RemoveAt(s, k), k) = From(s, k) \ {s[k]}
<1> DEFINE u == RemoveAt(s, k)
           at(i) == IF i < k THEN i ELSE i + 1
<1>1. /\ u \in Seq(S) /\ Len(u) = Len(s) - 1 /\ Len(s) \in Nat
      /\ DOMAIN u = 1 .. Len(s) - 1 /\ DOMAIN s = 1 .. Len(s)
      /\ \A i \in 1 .. Len(s) - 1 : u[i] = IF i < k THEN s[i] ELSE s[i + 1]
  BY RemoveAtFacts, LenProperties
<1> HIDE DEF u
<1>2. \A i \in DOMAIN u : at(i) \in 1 .. Len(s) /\ at(i) # k /\ u[i] = s[at(i)]
  BY <1>1
<1>3. \A i, j \in DOMAIN u : at(i) = at(j) => i = j
  BY <1>1
<1>4. ASSUME NEW i \in 1 .. Len(s), i # k
      PROVE  \E j \in DOMAIN u : at(j) = i
  <2>1. CASE i < k
    <3>1. i \in DOMAIN u /\ at(i) = i
      BY <1>1, <2>1
    <3>2. QED
      BY <3>1
  <2>2. CASE i > k
    <3>1. i - 1 \in DOMAIN u /\ at(i - 1) = i
      BY <1>1, <2>2
    <3>2. QED
      BY <3>1
  <2>3. i < k \/ i > k
    BY <1>1, <1>4
  <2>4. QED
    BY <2>1, <2>2, <2>3
<1>5. \A i \in DOMAIN u : i >= k <=> at(i) >= k
  BY <1>1
<1>6. \A i \in DOMAIN s : s[i] = s[k] => i = k
  BY <1>1 DEF Apart
<1> HIDE DEF at
<1>7. Apart(u, t)
  <2>1. \A i, j \in DOMAIN u : u[i] = u[j] => i = j
    BY <1>1, <1>2, <1>3 DEF Apart
  <2>2. \A i \in DOMAIN u, j \in DOMAIN t : u[i] # t[j]
    BY <1>1, <1>2 DEF Apart
  <2>3. QED
    BY <2>1, <2>2 DEF Apart
<1>8. ToSet(u) = ToSet(s) \ {s[k]}
  BY <1>1, <1>2, <1>4, <1>6 DEF ToSet
<1>9. From(u, k) = From(s, k) \ {s[k]}
  <2>1. \A i \in k .. Len(u) : i \in DOMAIN u /\ at(i) \in k .. Len(s)
    BY SMTT(30), <1>1, <1>2, <1>5
  <2>2. \A i \in k .. Len(s) : i \in 1 .. Len(s)
    BY <1>1
  <2>3. ASSUME NEW i \in k .. Len(s), i # k
        PROVE  \E j \in k .. Len(u) : u[j] = s[i]
    <3>1. PICK j \in DOMAIN u : at(j) = i
      BY <1>4, <2>2, <2>3
    <3>2. j \in k .. Len(u)
      BY <1>1, <1>5, <3>1
    <3>3. QED
      BY <1>2, <3>1, <3>2
  <2>4. From(u, k) \subseteq From(s, k) \ {s[k]}
    BY <1>1, <1>2, <1>6, <2>1 DEF From
  <2>5. From(s, k) \ {s[k]} \subseteq From(u, k)
    BY <2>3 DEF From
  <2>6. QED
    BY <2>4, <2>5
<1>10. QED
  BY <1>1, <1>7, <1>8, <1>9 DEF u

\* Passing the item at position k.
LEMMA PassKeeps ==
  ASSUME NEW S, NEW s \in Seq(S), NEW k \in 1 .. Len(s),
         \A i, j \in DOMAIN s : s[i] = s[j] => i = j
  PROVE  From(s, k + 1) = From(s, k) \ {s[k]} /\ s[k] \in From(s, k)
<1>1. Len(s) \in Nat /\ DOMAIN s = 1 .. Len(s)
  BY LenProperties
<1>2. QED
  BY <1>1 DEF From

-----------------------------------------------------------------------------
\* The inductive invariant: types, the lists and who is armed, and the times.
Shape ==
  /\ events \in Seq(Event) /\ pend \in Seq(Event)
  /\ it \in Nat /\ it <= Len(events)
  /\ tick = "append" => it = 0
  /\ oneshot \in [Event -> Nat]
  /\ interval \in [Event -> Nat]
  /\ owned \subseteq Event
  /\ tick \in {"idle", "append", "between", "next"}
  /\ budget \in 0 .. Cardinality(Event)
  /\ fired \in Event \cup {NoEvent}
  /\ due \in [Event -> Nat \cup {Late}]

Lists ==
  /\ Apart(events, pend)
  /\ owned = ToSet(events) \cup ToSet(pend)
  /\ disarmed \subseteq owned
  /\ armed = owned \ disarmed
  /\ nevents = [pend |-> Len(pend), running |-> Len(events)]

\* What OnTime says of one event.
Clock(e) ==
  /\ oneshot[e] >= 1
  /\ IF e \in Ahead THEN oneshot[e] - due[e] \in {0, 1} ELSE due[e] - oneshot[e] \in {0, 1}

Times ==
  /\ \A e \in armed : Clock(e)
  /\ tick = "next" => budget >= Len(events) - it

IInv == Shape /\ Lists /\ Times

LEMMA AheadFrom ==
  Ahead = IF tick \in {"between", "next"} THEN From(events, it + 1) ELSE {}
BY DEF Ahead, From

LEMMA AheadFromNext ==
  Ahead' = IF tick' \in {"between", "next"} THEN From(events', it' + 1) ELSE {}
BY DEF Ahead, From

\* A list of distinct events is no longer than there are events.
LEMMA ListBound ==
  ASSUME NEW s \in Seq(Event), \A i, j \in DOMAIN s : s[i] = s[j] => i = j
  PROVE  Len(s) \in 0 .. Cardinality(Event)
<1>1. Len(s) \in Nat /\ s \in [1 .. Len(s) -> Event] /\ DOMAIN s = 1 .. Len(s)
  BY LenProperties
<1>2. IsFiniteSet(Event) /\ Cardinality(Event) \in Nat
  BY TimerAssumption, FS_CardinalityType
<1>3. s \in Injection(1 .. Len(s), Event)
  BY <1>1 DEF Injection, IsInjective
<1>4. Cardinality(1 .. Len(s)) <= Cardinality(Event)
  BY <1>2, <1>3, FS_Injection
<1>5. Cardinality(1 .. Len(s)) = Len(s)
  <2>1. Cardinality(1 .. Len(s)) = IF 1 > Len(s) THEN 0 ELSE Len(s) - 1 + 1
    BY <1>1, FS_Interval
  <2>2. QED
    BY <1>1, <2>1
<1>6. QED
  BY <1>1, <1>2, <1>4, <1>5

LEMMA Initial == Init => IInv
<1> SUFFICES ASSUME Init PROVE IInv
  OBVIOUS
<1>1. IsFiniteSet(Event) /\ Cardinality(Event) \in Nat
  BY TimerAssumption, FS_CardinalityType
<1>2. Shape
  BY <1>1 DEF Init, Shape
<1>3. DOMAIN <<>> = {} /\ ToSet(<<>>) = {}
  BY DEF ToSet
<1>4. Lists
  BY <1>3 DEF Init, Lists, Apart
<1>5. Times
  BY DEF Init, Times
<1>6. QED
  BY <1>2, <1>4, <1>5 DEF IInv

\* A step that leaves lists and fields alone leaves every event's clock alone.
LEMMA StutterStep == IInv /\ UNCHANGED vars => IInv'
<1> SUFFICES ASSUME IInv, UNCHANGED vars PROVE IInv'
  OBVIOUS
<1> USE DEF vars, eventVars, listVars, tickVars, history
<1>1. Shape'
  BY DEF IInv, Shape
<1>2. Lists'
  BY DEF IInv, Lists, Apart, ToSet
<1>3. Times'
  BY DEF IInv, Times, Clock, Ahead
<1>4. QED
  BY <1>1, <1>2, <1>3 DEF IInv

LEMMA LargerFacts ==
  ASSUME NEW n \in Nat
  PROVE  Larger(n, 1) \in Nat /\ Larger(n, 1) >= 1
BY DEF Larger

\* Linking keeps the lists; the list the ticker iterates over is untouched.
LEMMA LinkStep ==
  ASSUME IInv, NEW e \in Event, Link(e)
  PROVE  /\ events' = events /\ pend' \in Seq(Event)
         /\ Apart(events', pend')
         /\ ToSet(events') \cup ToSet(pend') = ToSet(events) \cup ToSet(pend) \cup {e}
         /\ nevents' = [pend |-> Len(pend'), running |-> Len(events')]
<1>1. /\ events \in Seq(Event) /\ pend \in Seq(Event)
      /\ Apart(events, pend)
      /\ nevents = [pend |-> Len(pend), running |-> Len(events)]
  BY DEF IInv, Shape, Lists
<1>2. CASE Linked(e)
  <2>1. UNCHANGED <<events, pend, nevents>>
    BY <1>2 DEF Link, listVars
  <2>2. QED
    BY <1>1, <1>2, <2>1 DEF Linked
<1>3. CASE ~Linked(e)
  <2>1. /\ pend' = Append(pend, e) /\ events' = events
        /\ nevents' = [nevents EXCEPT !.pend = @ + 1]
    BY <1>3 DEF Link
  <2>2. e \notin ToSet(events) \cup ToSet(pend)
    BY <1>3 DEF Linked
  <2>3. /\ pend' \in Seq(Event) /\ Len(pend') = Len(pend) + 1
        /\ Apart(events, pend') /\ ToSet(pend') = ToSet(pend) \cup {e}
    BY <1>1, <2>1, <2>2, LinkKeeps
  <2>4. nevents' = [pend |-> Len(pend'), running |-> Len(events')]
    BY <1>1, <2>1, <2>3
  <2>5. QED
    BY <2>1, <2>3, <2>4
<1>4. QED
  BY <1>2, <1>3

LEMMA ArmStep ==
  ASSUME IInv, NEW e \in Event, Arm(e)
  PROVE  IInv'
<1>1. PICK ticks \in Ticks, period \in Intervals :
        /\ ArmedFields(e, ticks, period)
        /\ due' = [due EXCEPT ![e] = Larger(ticks, 1)]
  BY DEF Arm
<1>2. ticks \in Nat /\ period \in Nat
  <2>1. IntervalLimit \in Nat
    BY SMT DEF IntervalLimit
  <2>2. QED
    BY <2>1, TimerAssumption
<1> DEFINE n == Larger(ticks, 1)
<1>3. n \in Nat /\ n >= 1
  BY <1>2, LargerFacts
<1> HIDE DEF n
<1>4. /\ oneshot' = [oneshot EXCEPT ![e] = n]
      /\ due' = [due EXCEPT ![e] = n]
      /\ interval' = [interval EXCEPT ![e] = period]
      /\ disarmed' = disarmed \ {e}
      /\ owned' = owned \cup {e}
      /\ armed' = armed \cup {e}
      /\ UNCHANGED <<it, tick, budget, fired>>
      /\ tick # "next"
  BY <1>1 DEF Arm, ArmedFields, n, tickVars, Unlocked
<1>5. /\ events' = events /\ pend' \in Seq(Event)
      /\ Apart(events', pend')
      /\ ToSet(events') \cup ToSet(pend') = ToSet(events) \cup ToSet(pend) \cup {e}
      /\ nevents' = [pend |-> Len(pend'), running |-> Len(events')]
  BY LinkStep DEF Arm
<1>6. Shape'
  BY <1>2, <1>3, <1>4, <1>5 DEF IInv, Shape
<1>7. Lists'
  <2>1. owned = ToSet(events) \cup ToSet(pend) /\ disarmed \subseteq owned /\ armed = owned \ disarmed
    BY DEF IInv, Lists
  <2>2. owned' = ToSet(events') \cup ToSet(pend')
    BY <1>4, <1>5, <2>1
  <2>3. disarmed' \subseteq owned' /\ armed' = owned' \ disarmed'
    BY <1>4, <2>1
  <2>4. QED
    BY <1>5, <2>2, <2>3 DEF Lists
<1>8. Ahead' = Ahead
  BY <1>4, <1>5 DEF Ahead
<1>9. ASSUME NEW d \in armed'
      PROVE  Clock(d)'
  <2>1. oneshot \in [Event -> Nat] /\ due \in [Event -> Nat \cup {Late}] /\ armed \subseteq Event
    BY DEF IInv, Shape, Lists
  <2>2. CASE d = e
    BY <1>3, <1>4, <2>1, <2>2 DEF Clock
  <2>3. CASE d # e
    <3>1. d \in armed /\ oneshot'[d] = oneshot[d] /\ due'[d] = due[d]
      BY <1>4, <1>9, <2>1, <2>3
    <3>2. Clock(d)
      BY <3>1 DEF IInv, Times
    <3>3. QED
      BY <1>8, <3>1, <3>2 DEF Clock
  <2>4. QED
    BY <2>2, <2>3
<1>10. Times'
  BY <1>4, <1>9 DEF Times
<1>11. QED
  BY <1>6, <1>7, <1>10 DEF IInv

LEMMA DisarmStep ==
  ASSUME IInv, NEW e \in Event, Disarm(e)
  PROVE  IInv'
<1>1. /\ armed' = armed \ {e}
      /\ due' = [due EXCEPT ![e] = 0]
      /\ UNCHANGED <<events, pend, nevents, it, tick, budget, fired, owned>>
      /\ tick # "next"
  BY DEF Disarm, Mark, listVars, tickVars, eventVars, Unlocked
<1>2. /\ oneshot \in [Event -> Nat] /\ interval \in [Event -> Nat]
      /\ due \in [Event -> Nat \cup {Late}] /\ armed \subseteq Event
  BY DEF IInv, Shape, Lists
<1>3. /\ oneshot' \in [Event -> Nat] /\ interval' \in [Event -> Nat]
      /\ \A d \in Event \ {e} : oneshot'[d] = oneshot[d]
      /\ IF e \in owned THEN disarmed' = disarmed \cup {e} ELSE disarmed' = disarmed
  BY <1>2 DEF Disarm, Mark, eventVars
<1>4. due' \in [Event -> Nat \cup {Late}]
  BY <1>1, <1>2
<1>5. Shape'
  BY <1>1, <1>3, <1>4 DEF IInv, Shape
<1>6. Lists'
  <2>1. owned = ToSet(events) \cup ToSet(pend) /\ disarmed \subseteq owned /\ armed = owned \ disarmed
    BY DEF IInv, Lists
  <2>2. disarmed' \subseteq owned' /\ armed' = owned' \ disarmed'
    BY <1>1, <1>3, <2>1
  <2>3. QED
    BY <1>1, <2>1, <2>2 DEF IInv, Lists
<1>7. Ahead' = Ahead
  BY <1>1 DEF Ahead
<1>8. ASSUME NEW d \in armed'
      PROVE  Clock(d)'
  <2>1. d \in armed /\ oneshot'[d] = oneshot[d] /\ due'[d] = due[d]
    BY <1>1, <1>2, <1>3, <1>8
  <2>2. Clock(d)
    BY <2>1 DEF IInv, Times
  <2>3. QED
    BY <1>7, <2>1, <2>2 DEF Clock
<1>9. Times'
  BY <1>1, <1>8 DEF Times
<1>10. QED
  BY <1>5, <1>6, <1>9 DEF IInv

LEMMA TickBeginsStep ==
  ASSUME IInv, TickBegins
  PROVE  IInv'
<1> USE DEF TickBegins, eventVars, listVars, history
<1>1. Shape'
  BY DEF IInv, Shape
<1>2. Lists'
  BY DEF IInv, Lists, Apart, ToSet
<1>3. Ahead' = Ahead
  BY DEF Ahead
<1>4. Times'
  BY <1>3 DEF IInv, Times, Clock
<1>5. QED
  BY <1>1, <1>2, <1>4 DEF IInv

LEMMA TickAppendsStep ==
  ASSUME IInv, TickAppends
  PROVE  IInv'
<1>1. /\ events' = events \o pend /\ pend' = <<>>
      /\ nevents' = [pend |-> 0, running |-> nevents.running + nevents.pend]
      /\ due' = [e \in Event |-> IF e \in armed /\ due[e] # Late THEN due[e] - 1 ELSE due[e]]
      /\ tick = "append" /\ tick' = "between"
      /\ UNCHANGED <<oneshot, interval, disarmed, owned, it, budget, fired, armed>>
  BY DEF TickAppends, eventVars
<1>2. /\ events \in Seq(Event) /\ pend \in Seq(Event) /\ Apart(events, pend)
      /\ it = 0
      /\ nevents = [pend |-> Len(pend), running |-> Len(events)]
      /\ owned = ToSet(events) \cup ToSet(pend)
      /\ armed \subseteq owned /\ owned \subseteq Event
      /\ oneshot \in [Event -> Nat] /\ due \in [Event -> Nat \cup {Late}]
  BY <1>1 DEF IInv, Shape, Lists
<1>3. /\ events' \in Seq(Event) /\ Len(events') = Len(events) + Len(pend)
      /\ Apart(events', pend')
      /\ ToSet(events') = ToSet(events) \cup ToSet(pend)
      /\ Len(events) \in Nat /\ Len(pend) \in Nat
  BY <1>1, <1>2, AppendKeeps, LenProperties
<1>4. pend' \in Seq(Event) /\ Len(pend') = 0 /\ ToSet(pend') = {}
  BY <1>1, EmptySeq DEF ToSet
<1>5. ASSUME NEW e \in armed
      PROVE  due[e] # Late /\ due[e] \in Nat /\ due[e] - oneshot[e] \in {0, 1} /\ oneshot[e] >= 1
  <2>1. Clock(e) /\ e \notin Ahead
    BY <1>1 DEF IInv, Times, Ahead
  <2>2. QED
    BY <1>2, <2>1 DEF Clock, Late
<1>6. due' \in [Event -> Nat \cup {Late}]
  <2>1. \A e \in Event : due[e] \in Nat => due[e] - 1 \in Nat \cup {Late}
    BY DEF Late
  <2>2. QED
    BY <1>1, <1>2, <2>1
<1>7. Shape'
  BY <1>1, <1>2, <1>3, <1>4, <1>6 DEF IInv, Shape
<1>8. nevents' = [pend |-> Len(pend'), running |-> Len(events')]
  BY <1>1, <1>2, <1>3, <1>4
<1>9. Lists'
  BY <1>1, <1>2, <1>3, <1>4, <1>8 DEF IInv, Lists
<1>10. Ahead' = owned
  <2>1. Ahead' = From(events', 1)
    BY <1>1, <1>2, AheadFromNext
  <2>2. DOMAIN events' = 1 .. Len(events')
    BY <1>3, LenProperties
  <2>3. From(events', 1) = ToSet(events')
    BY <2>2 DEF From, ToSet
  <2>4. QED
    BY <1>2, <1>3, <2>1, <2>3
<1>11. ASSUME NEW e \in armed'
       PROVE  Clock(e)'
  <2>1. e \in armed /\ e \in Event /\ e \in Ahead' /\ oneshot'[e] = oneshot[e]
    BY <1>1, <1>2, <1>10
  <2>2. due'[e] = due[e] - 1
    BY <1>1, <1>5, <2>1
  <2>3. oneshot[e] - (due[e] - 1) \in {0, 1} /\ oneshot[e] >= 1
    <3>1. \A m, n \in Int : n - m \in {0, 1} => m - (n - 1) \in {0, 1}
      OBVIOUS
    <3>2. oneshot[e] \in Int /\ due[e] \in Int
      BY <1>2, <1>5, <2>1
    <3>3. QED
      BY <1>5, <2>1, <3>1, <3>2
  <2>4. QED
    BY <2>1, <2>2, <2>3 DEF Clock
<1>12. Times'
  BY <1>1, <1>11 DEF Times
<1>13. QED
  BY <1>7, <1>9, <1>12 DEF IInv

LEMMA NextEntersStep ==
  ASSUME IInv, NextEnters
  PROVE  IInv'
<1> USE DEF NextEnters, eventVars, listVars, history
<1>1. /\ nevents.running = Len(events) /\ Len(events) \in 0 .. Cardinality(Event)
      /\ it \in Nat /\ it <= Len(events)
  BY ListBound DEF IInv, Shape, Lists, Apart
<1>2. Shape'
  BY <1>1 DEF IInv, Shape
<1>3. Lists'
  BY DEF IInv, Lists, Apart, ToSet
<1>4. Ahead' = Ahead
  BY DEF Ahead
<1>5. budget' >= Len(events') - it'
  BY <1>1
<1>6. Times'
  BY <1>4, <1>5 DEF IInv, Times, Clock
<1>7. QED
  BY <1>2, <1>3, <1>6 DEF IInv

LEMMA NextReturnsNullStep ==
  ASSUME IInv, NextReturnsNull
  PROVE  IInv'
<1> USE DEF NextReturnsNull, eventVars, listVars, history
<1>1. Shape'
  BY DEF IInv, Shape
<1>2. Lists'
  BY DEF IInv, Lists, Apart, ToSet
<1>3. Ahead' = Ahead
  <2>1. Len(events) \in Nat
    BY LenProperties DEF IInv, Shape
  <2>2. Ahead = {}
    BY <2>1, AheadFrom DEF From
  <2>3. Ahead' = {}
    BY AheadFromNext
  <2>4. QED
    BY <2>2, <2>3
<1>4. Times'
  BY <1>3 DEF IInv, Times, Clock
<1>5. QED
  BY <1>1, <1>2, <1>4 DEF IInv

-----------------------------------------------------------------------------
\* What the loop knows of the event it reaches.
LEMMA ReachedEvent ==
  ASSUME IInv, NEW e \in Event, Reaches(e)
  PROVE  /\ tick = "next" /\ it + 1 \in 1 .. Len(events) /\ e = events[it + 1]
         /\ Len(events) \in Nat
         /\ budget' = budget - 1
         /\ budget' \in 0 .. Cardinality(Event)
         /\ budget' >= Len(events) - (it + 1)
         /\ e \in ToSet(events) /\ e \in owned
         /\ Ahead = From(events, it + 1)
<1>1. /\ tick = "next" /\ it < Len(events) /\ e = events[it + 1] /\ budget' = budget - 1
  BY DEF Reaches
<1>2. /\ Len(events) \in Nat /\ it \in Nat /\ DOMAIN events = 1 .. Len(events)
  BY LenProperties DEF IInv, Shape
<1>3. it + 1 \in 1 .. Len(events)
  BY <1>1, <1>2
<1>4. e \in ToSet(events)
  BY <1>1, <1>2, <1>3 DEF ToSet
<1>5. e \in owned
  BY <1>4 DEF IInv, Lists
<1>6. budget \in 0 .. Cardinality(Event) /\ budget >= Len(events) - it
  BY <1>1 DEF IInv, Shape, Times
<1>7. Cardinality(Event) \in Nat
  BY TimerAssumption, FS_CardinalityType
<1>8. budget' \in 0 .. Cardinality(Event) /\ budget' >= Len(events) - (it + 1)
  BY <1>1, <1>2, <1>6, <1>7
<1>9. Ahead = From(events, it + 1)
  BY <1>1, AheadFrom
<1>10. QED
  BY <1>1, <1>2, <1>3, <1>4, <1>5, <1>8, <1>9

\* Unlinking the event reached takes it off the lists and from what is ahead.
LEMMA UnlinkStep ==
  ASSUME IInv, NEW e \in Event, Reaches(e), Unlink(e)
  PROVE  /\ events' \in Seq(Event) /\ Len(events') = Len(events) - 1
         /\ pend' = pend /\ it' = it /\ owned' = owned \ {e}
         /\ Apart(events', pend')
         /\ owned' = ToSet(events') \cup ToSet(pend')
         /\ nevents' = [pend |-> Len(pend'), running |-> Len(events')]
         /\ From(events', it' + 1) = Ahead \ {e}
<1>1. /\ events \in Seq(Event) /\ pend \in Seq(Event) /\ Apart(events, pend)
      /\ owned = ToSet(events) \cup ToSet(pend)
      /\ nevents = [pend |-> Len(pend), running |-> Len(events)]
  BY DEF IInv, Shape, Lists
<1>2. /\ it + 1 \in 1 .. Len(events) /\ e = events[it + 1]
      /\ Len(events) \in Nat /\ Ahead = From(events, it + 1)
  BY ReachedEvent
<1>3. /\ events' = RemoveAt(events, it + 1)
      /\ nevents' = [nevents EXCEPT !.running = @ - 1]
      /\ owned' = owned \ {e} /\ it' = it /\ pend' = pend
  BY DEF Unlink
<1>4. /\ events' \in Seq(Event) /\ Len(events') = Len(events) - 1
      /\ Apart(events', pend) /\ ToSet(events') = ToSet(events) \ {e}
      /\ From(events', it + 1) = From(events, it + 1) \ {e}
  BY <1>1, <1>2, <1>3, UnlinkKeeps
<1>5. e \notin ToSet(pend)
  <2>1. it + 1 \in DOMAIN events
    BY <1>1, <1>2, LenProperties
  <2>2. QED
    BY <1>1, <1>2, <2>1 DEF Apart, ToSet
<1>6. nevents' = [pend |-> Len(pend'), running |-> Len(events')]
  BY <1>1, <1>3, <1>4
<1>7. QED
  BY <1>1, <1>2, <1>3, <1>4, <1>5, <1>6

\* A step of the loop that leaves the clocks of all other armed events alone.
LEMMA OthersKeepTime ==
  ASSUME IInv, NEW e \in Event,
         armed' \subseteq armed,
         \A d \in Event \ {e} : oneshot'[d] = oneshot[d] /\ due'[d] = due[d],
         Ahead' = Ahead \ {e},
         e \in armed' => Clock(e)'
  PROVE  \A d \in armed' : Clock(d)'
<1> SUFFICES ASSUME NEW d \in armed', d # e
             PROVE  Clock(d)'
  OBVIOUS
<1>1. d \in armed /\ d \in Event
  BY DEF IInv, Shape, Lists
<1>2. Clock(d)
  BY <1>1 DEF IInv, Times
<1>3. oneshot'[d] = oneshot[d] /\ due'[d] = due[d] /\ (d \in Ahead' <=> d \in Ahead)
  BY <1>1
<1>4. QED
  BY <1>2, <1>3 DEF Clock

LEMMA NextRemovesStep ==
  ASSUME IInv, NEW e \in Event, NextRemoves(e)
  PROVE  IInv'
<1>1. /\ Reaches(e) /\ Unlink(e) /\ e \in disarmed
      /\ disarmed' = disarmed \ {e}
      /\ UNCHANGED <<oneshot, interval, tick, fired, armed, due>>
  BY DEF NextRemoves, history
<1>2. /\ tick = "next" /\ it + 1 \in 1 .. Len(events) /\ Len(events) \in Nat
      /\ budget' \in 0 .. Cardinality(Event) /\ budget' >= Len(events) - (it + 1)
  BY <1>1, ReachedEvent
<1>3. /\ events' \in Seq(Event) /\ Len(events') = Len(events) - 1
      /\ pend' = pend /\ it' = it /\ owned' = owned \ {e}
      /\ Apart(events', pend')
      /\ owned' = ToSet(events') \cup ToSet(pend')
      /\ nevents' = [pend |-> Len(pend'), running |-> Len(events')]
      /\ From(events', it' + 1) = Ahead \ {e}
  BY <1>1, UnlinkStep
<1>4. it' \in Nat /\ it' <= Len(events')
  BY <1>2, <1>3 DEF IInv, Shape
<1>5. Shape'
  BY <1>1, <1>2, <1>3, <1>4 DEF IInv, Shape
<1>6. Lists'
  BY <1>1, <1>3 DEF IInv, Lists
<1>7. Ahead' = Ahead \ {e}
  BY <1>1, <1>2, <1>3, AheadFromNext
<1>8. e \notin armed'
  BY <1>1 DEF IInv, Lists
<1>9. \A d \in armed' : Clock(d)'
  BY <1>1, <1>7, <1>8, OthersKeepTime
<1>10. budget' >= Len(events') - it'
  BY <1>2, <1>3, <1>4
<1>11. QED
  BY <1>5, <1>6, <1>9, <1>10 DEF IInv, Times

LEMMA NextCountsStep ==
  ASSUME IInv, NEW e \in Event, NextCounts(e)
  PROVE  IInv'
<1>1. /\ Reaches(e) /\ e \notin disarmed /\ oneshot[e] > 1
      /\ oneshot' = [oneshot EXCEPT ![e] = @ - 1]
      /\ it' = it + 1
      /\ UNCHANGED <<interval, disarmed, owned, events, pend, nevents, tick, fired, armed, due>>
  BY DEF NextCounts, listVars, history
<1>2. /\ tick = "next" /\ it + 1 \in 1 .. Len(events) /\ e = events[it + 1]
      /\ Len(events) \in Nat /\ e \in owned /\ Ahead = From(events, it + 1)
      /\ budget' \in 0 .. Cardinality(Event) /\ budget' >= Len(events) - (it + 1)
  BY <1>1, ReachedEvent
<1>3. /\ oneshot \in [Event -> Nat] /\ due \in [Event -> Nat \cup {Late}]
      /\ events \in Seq(Event) /\ Apart(events, pend) /\ it \in Nat
  BY DEF IInv, Shape, Lists
<1>4. From(events, it + 2) = From(events, it + 1) \ {e} /\ e \in From(events, it + 1)
  <2>1. it + 1 + 1 = it + 2
    BY <1>3
  <2>2. QED
    BY <1>2, <1>3, <2>1, PassKeeps DEF Apart
<1>5. Ahead' = Ahead \ {e}
  <2>1. it' + 1 = it + 2
    BY <1>1, <1>3
  <2>2. QED
    BY <1>1, <1>2, <1>4, <2>1, AheadFromNext
<1>6. /\ oneshot' \in [Event -> Nat]
      /\ oneshot'[e] = oneshot[e] - 1
      /\ \A d \in Event \ {e} : oneshot'[d] = oneshot[d]
  BY <1>1, <1>3
<1>7. Shape'
  BY SMTT(30), <1>1, <1>2, <1>6 DEF IInv, Shape
<1>8. Lists'
  BY <1>1 DEF IInv, Lists, Apart, ToSet
<1>9. e \in armed /\ e \in Ahead
  BY <1>1, <1>2, <1>4 DEF IInv, Lists
<1>10. oneshot[e] - due[e] \in {0, 1} /\ due'[e] = due[e]
  BY <1>1, <1>9 DEF IInv, Times, Clock
<1>11. Clock(e)'
  <2>1. e \notin Ahead'
    BY <1>5
  <2>2. due[e] - (oneshot[e] - 1) \in {0, 1} /\ oneshot[e] - 1 >= 1
    BY SMTT(30), <1>1, <1>3, <1>10 DEF Late
  <2>3. QED
    BY <1>6, <1>10, <2>1, <2>2 DEF Clock
<1>12. \A d \in armed' : Clock(d)'
  BY <1>1, <1>5, <1>6, <1>11, OthersKeepTime
<1>13. QED
  BY <1>1, <1>2, <1>7, <1>8, <1>12 DEF IInv, Times

LEMMA NextFiresPeriodicStep ==
  ASSUME IInv, NEW e \in Event, NextFiresPeriodic(e)
  PROVE  IInv'
<1>1. /\ Reaches(e) /\ e \notin disarmed /\ oneshot[e] = 1 /\ interval[e] # 0
      /\ fired' = e /\ tick' = "between"
      /\ oneshot' = [oneshot EXCEPT ![e] = interval[e]]
      /\ due' = [due EXCEPT ![e] = interval[e]]
      /\ it' = it + 1
      /\ UNCHANGED <<interval, disarmed, owned, events, pend, nevents, armed>>
  BY DEF NextFiresPeriodic, Fires, listVars
<1>2. /\ tick = "next" /\ it + 1 \in 1 .. Len(events) /\ e = events[it + 1]
      /\ Len(events) \in Nat /\ Ahead = From(events, it + 1)
      /\ budget' \in 0 .. Cardinality(Event)
  BY <1>1, ReachedEvent
<1>3. /\ oneshot \in [Event -> Nat] /\ due \in [Event -> Nat \cup {Late}]
      /\ interval \in [Event -> Nat]
      /\ events \in Seq(Event) /\ Apart(events, pend) /\ it \in Nat
  BY DEF IInv, Shape, Lists
<1>4. From(events, it + 2) = From(events, it + 1) \ {e} /\ e \in From(events, it + 1)
  <2>1. it + 1 + 1 = it + 2
    BY <1>3
  <2>2. QED
    BY <1>2, <1>3, <2>1, PassKeeps DEF Apart
<1>5. Ahead' = Ahead \ {e}
  <2>1. it' + 1 = it + 2
    BY <1>1, <1>3
  <2>2. QED
    BY <1>1, <1>2, <1>4, <2>1, AheadFromNext
<1>6. /\ oneshot' \in [Event -> Nat] /\ due' \in [Event -> Nat \cup {Late}]
      /\ oneshot'[e] = interval[e] /\ due'[e] = interval[e]
      /\ \A d \in Event \ {e} : oneshot'[d] = oneshot[d] /\ due'[d] = due[d]
      /\ interval[e] \in Nat /\ interval[e] >= 1
  BY <1>1, <1>3
<1>7. Shape'
  BY <1>1, <1>2, <1>6 DEF IInv, Shape
<1>8. Lists'
  BY <1>1 DEF IInv, Lists, Apart, ToSet
<1>9. Clock(e)'
  BY <1>5, <1>6 DEF Clock
<1>10. \A d \in armed' : Clock(d)'
  BY <1>1, <1>5, <1>6, <1>9, OthersKeepTime
<1>11. QED
  BY <1>1, <1>7, <1>8, <1>10 DEF IInv, Times

LEMMA NextFiresOnceStep ==
  ASSUME IInv, NEW e \in Event, NextFiresOnce(e)
  PROVE  IInv'
<1>1. /\ Reaches(e) /\ Unlink(e) /\ e \notin disarmed
      /\ fired' = e /\ tick' = "between"
      /\ oneshot' = [oneshot EXCEPT ![e] = 0]
      /\ due' = [due EXCEPT ![e] = 0]
      /\ armed' = armed \ {e}
      /\ UNCHANGED <<interval, disarmed>>
  BY DEF NextFiresOnce, Fires
<1>2. /\ tick = "next" /\ it + 1 \in 1 .. Len(events) /\ Len(events) \in Nat
      /\ budget' \in 0 .. Cardinality(Event)
  BY <1>1, ReachedEvent
<1>3. /\ events' \in Seq(Event) /\ Len(events') = Len(events) - 1
      /\ pend' = pend /\ it' = it /\ owned' = owned \ {e}
      /\ Apart(events', pend')
      /\ owned' = ToSet(events') \cup ToSet(pend')
      /\ nevents' = [pend |-> Len(pend'), running |-> Len(events')]
      /\ From(events', it' + 1) = Ahead \ {e}
  BY <1>1, UnlinkStep
<1>4. /\ oneshot \in [Event -> Nat] /\ due \in [Event -> Nat \cup {Late}] /\ it \in Nat
  BY DEF IInv, Shape
<1>5. /\ oneshot' \in [Event -> Nat] /\ due' \in [Event -> Nat \cup {Late}]
      /\ \A d \in Event \ {e} : oneshot'[d] = oneshot[d] /\ due'[d] = due[d]
  BY <1>1, <1>4
<1>6. it' \in Nat /\ it' <= Len(events')
  BY <1>2, <1>3, <1>4
<1>7. Shape'
  BY <1>1, <1>2, <1>3, <1>5, <1>6 DEF IInv, Shape
<1>8. Lists'
  BY <1>1, <1>3 DEF IInv, Lists
<1>9. Ahead' = Ahead \ {e}
  BY <1>1, <1>3, AheadFromNext
<1>10. \A d \in armed' : Clock(d)'
  <2>1. armed' \subseteq armed /\ e \notin armed'
    BY <1>1
  <2>2. QED
    BY <1>5, <1>9, <2>1, OthersKeepTime
<1>11. QED
  BY <1>1, <1>7, <1>8, <1>10 DEF IInv, Times

-----------------------------------------------------------------------------
LEMMA Step == IInv /\ [Next]_vars => IInv'
<1> SUFFICES ASSUME IInv, [Next]_vars PROVE IInv'
  OBVIOUS
<1>1. ASSUME NEW e \in Event, Arm(e) PROVE IInv'
  BY <1>1, ArmStep
<1>2. ASSUME NEW e \in Event, Disarm(e) PROVE IInv'
  BY <1>2, DisarmStep
<1>3. CASE TickBegins
  BY <1>3, TickBeginsStep
<1>4. CASE TickAppends
  BY <1>4, TickAppendsStep
<1>5. CASE NextEnters
  BY <1>5, NextEntersStep
<1>6. CASE NextReturnsNull
  BY <1>6, NextReturnsNullStep
<1>7. ASSUME NEW e \in Event, NextRemoves(e) PROVE IInv'
  BY <1>7, NextRemovesStep
<1>8. ASSUME NEW e \in Event, NextCounts(e) PROVE IInv'
  BY <1>8, NextCountsStep
<1>9. ASSUME NEW e \in Event, NextFiresPeriodic(e) PROVE IInv'
  BY <1>9, NextFiresPeriodicStep
<1>10. ASSUME NEW e \in Event, NextFiresOnce(e) PROVE IInv'
  BY <1>10, NextFiresOnceStep
<1>11. CASE UNCHANGED vars
  BY <1>11, StutterStep
<1>12. QED
  BY <1>1, <1>2, <1>3, <1>4, <1>5, <1>6, <1>7, <1>8, <1>9, <1>10, <1>11 DEF Next

\* What the inductive invariant says in the terms of module Timer.
LEMMA Meaning == IInv => TypeOK /\ LinkedOnce /\ OnTime /\ ArmedAsAsked
<1> SUFFICES ASSUME IInv PROVE TypeOK /\ LinkedOnce /\ OnTime /\ ArmedAsAsked
  OBVIOUS
<1>1. Len(events) \in 0 .. Cardinality(Event) /\ Len(pend) \in 0 .. Cardinality(Event)
  BY ListBound DEF IInv, Shape, Lists, Apart
<1>2. it \in 0 .. Len(events)
  BY <1>1 DEF IInv, Shape
<1>3. nevents \in [pend : 0 .. Cardinality(Event), running : 0 .. Cardinality(Event)]
  BY <1>1 DEF IInv, Lists
<1>4. owned \subseteq Event /\ disarmed \subseteq owned /\ armed = owned \ disarmed
  BY DEF IInv, Shape, Lists
<1>5. TypeOK
  BY <1>2, <1>3, <1>4 DEF IInv, Shape, TypeOK
<1>6. \A e \in Event : e \in owned <=> Linked(e)
  BY DEF IInv, Lists, Linked
<1>7. LinkedOnce
  <2>1. \A s \in Seq(Event) : s = <<>> <=> ToSet(s) = {}
    <3> TAKE s \in Seq(Event)
    <3>1. CASE s = <<>>
      <4>1. DOMAIN <<>> = {}
        OBVIOUS
      <4>2. QED
        BY <3>1, <4>1 DEF ToSet
    <3>2. CASE s # <<>>
      <4>1. 1 \in DOMAIN s
        BY <3>2, EmptySeq, LenProperties
      <4>2. QED
        BY <3>2, <4>1 DEF ToSet
    <3>3. QED
      BY <3>1, <3>2
  <2>2. IsEmpty <=> owned = {}
    BY <2>1 DEF IInv, Shape, Lists, IsEmpty
  <2>3. QED
    BY <1>6, <2>2 DEF IInv, Lists, Apart, LinkedOnce
<1>8. OnTime
  BY <1>4 DEF IInv, Times, Clock, OnTime, GetTicks
<1>9. ArmedAsAsked
  BY <1>4, <1>6 DEF ArmedAsAsked, IsArmed
<1>10. QED
  BY <1>5, <1>7, <1>8, <1>9

THEOREM Invariance == Spec => []IInv
<1>1. QED
  BY Initial, Step, PTL DEF Spec

\* The fields, lists and counters keep their ranges; no list ever holds more
\* events than there are.
THEOREM TypeCorrect == Spec => []TypeOK
BY Invariance, Meaning, PTL

\* However calls and ticks interleave, no event is ever linked twice.
THEOREM LinkedCorrect == Spec => []LinkedOnce
BY Invariance, Meaning, PTL

\* am_timer_is_armed answers what was asked for last.
THEOREM ArmedCorrect == Spec => []ArmedAsAsked
BY Invariance, Meaning, PTL

\* No event is late, nor more than one tick early, for any ticks and intervals.
THEOREM TimeCorrect == Spec => []OnTime
BY Invariance, Meaning, PTL

\* Whatever fires was armed and not disarmed since.
LEMMA FiresArmed ==
  IInv /\ [Next]_vars => (tick = "next" /\ tick' = "between" => fired' \in armed)
<1> SUFFICES ASSUME IInv, [Next]_vars, tick = "next", tick' = "between"
             PROVE  fired' \in armed
  OBVIOUS
<1>1. ASSUME NEW e \in Event, Fires(e)
      PROVE  fired' \in armed
  <2>1. fired' = e /\ e \notin disarmed /\ Reaches(e)
    BY <1>1 DEF Fires
  <2>2. e \in owned
    BY <2>1, ReachedEvent
  <2>3. QED
    BY <2>1, <2>2 DEF IInv, Lists
<1>2. \E e \in Event : Fires(e)
  BY DEF Next, vars, tickVars, Arm, Disarm, TickBegins, TickAppends, NextEnters, NextReturnsNull,
         NextRemoves, NextCounts, NextFiresPeriodic, NextFiresOnce
<1>3. QED
  BY <1>1, <1>2

THEOREM FiringCorrect == Spec => FiresOnlyArmed
<1>1. QED
  BY Invariance, FiresArmed, PTL DEF Spec, FiresOnlyArmed

=============================================================================
