------------------------------ MODULE HsmProofs ------------------------------
(***************************************************************************)
(* Theorems about module Hsm, for every tree of finitely many states: no   *)
(* assertion fails, the state, its instance and its level are those of the *)
(* innermost state that was entered, and the machine implements HsmAbs.    *)
(* What recursive functions compute is proved by the least number at which *)
(* it would be wrong, since sets of numbers have a least element.          *)
(***************************************************************************)
EXTENDS Hsm, WellFoundedInduction, FiniteSetTheorems, SequenceTheorems, TLAPS

-----------------------------------------------------------------------------
(* Least elements and recursive functions                                  *)

Less == {p \in Nat \X Nat : p[1] < p[2]}

LEMMA LessWellFounded == IsWellFoundedOn(Less, Nat)
BY NatLessThanWellFounded, Zenon DEF OpToRel, Less

\* Every set of numbers that is not empty has a least element.
LEMMA LeastNumber ==
  ASSUME NEW T, T \subseteq Nat, T # {}
  PROVE  \E x \in T : \A y \in T : x <= y
<1>1. PICK x \in T : \A y \in T : ~ (<<y, x>> \in Less)
  BY LessWellFounded, WFMin
<1>2. ASSUME NEW y \in T PROVE x <= y
  <2>1. ~ (<<y, x>> \in Less) /\ x \in Nat /\ y \in Nat
    BY <1>1
  <2> QED
    BY <2>1 DEF Less
<1> QED
  BY <1>2

LEMMA MinLeast ==
  ASSUME NEW T, T \subseteq Nat, T # {}
  PROVE  Min(T) \in T /\ \A y \in T : Min(T) <= y
BY LeastNumber DEF Min

\* The numbers up to n are in a set that has 0, and k + 1 if it has k < n.
LEMMA Induction ==
  ASSUME NEW n \in Nat, NEW T, 0 \in T,
         \A k \in 0 .. n - 1 : k \in T => k + 1 \in T
  PROVE  0 .. n \subseteq T
<1> DEFINE bad == {k \in 0 .. n : k \notin T}
<1> SUFFICES ASSUME bad # {} PROVE FALSE
  OBVIOUS
<1>1. bad \subseteq Nat
  OBVIOUS
<1> HIDE DEF bad
<1>2. PICK k \in bad : \A m \in bad : k <= m
  BY <1>1, LeastNumber
<1> USE DEF bad
<1>3. k \in 0 .. n /\ k \notin T /\ k # 0
  BY <1>2
<1>4. k - 1 \in 0 .. n - 1 /\ k - 1 \notin bad
  BY <1>2, <1>3
<1>5. k - 1 \in T
  BY <1>3, <1>4
<1>6. k - 1 + 1 \in T
  BY <1>4, <1>5
<1> QED
  BY <1>3, <1>6

\* A function on 0 .. n whose values are each computed from the one before.
Iterates(up, g, s, n) == up = [k \in 0 .. n |-> IF k = 0 THEN s ELSE g[up[k - 1]]]

LEMMA IteratesExists ==
  ASSUME NEW S, NEW g \in [S -> S], NEW s \in S, NEW n \in Nat
  PROVE  \E up \in [0 .. n -> S] : Iterates(up, g, s, n)
<1> DEFINE Good(m) == \E up \in [0 .. m -> S] : Iterates(up, g, s, m)
           T == {m \in Nat : Good(m)}
<1>1. Good(0)
  <2> WITNESS [k \in 0 .. 0 |-> s] \in [0 .. 0 -> S]
  <2> QED
    BY DEF Iterates
<1>2. ASSUME NEW m \in Nat, Good(m) PROVE Good(m + 1)
  <2>1. PICK up \in [0 .. m -> S] : Iterates(up, g, s, m)
    BY <1>2
  <2> DEFINE ext == [k \in 0 .. m + 1 |-> IF k = m + 1 THEN g[up[m]] ELSE up[k]]
  <2>2. ext \in [0 .. m + 1 -> S]
    OBVIOUS
  <2>3. \A k \in 0 .. m : up[k] = IF k = 0 THEN s ELSE g[up[k - 1]]
    BY <2>1 DEF Iterates
  <2>4. \A k \in 0 .. m + 1 : ext[k] = IF k = 0 THEN s ELSE g[ext[k - 1]]
    BY <2>3
  <2>5. Iterates(ext, g, s, m + 1)
    BY <2>4 DEF Iterates
  <2> HIDE DEF ext
  <2> QED
    BY <2>2, <2>5
<1> HIDE DEF Good
<1>3. 0 \in T /\ \A k \in 0 .. n - 1 : k \in T => k + 1 \in T
  BY <1>1, <1>2
<1> HIDE DEF T
<1>4. 0 .. n \subseteq T
  BY <1>3, Induction
<1>5. n \in T
  BY <1>4
<1> QED
  BY <1>5 DEF T, Good

\* There is one such function only.
LEMMA IteratesUnique ==
  ASSUME NEW g, NEW s, NEW n \in Nat, NEW m \in Nat, n <= m,
         NEW up, Iterates(up, g, s, n), NEW vp, Iterates(vp, g, s, m)
  PROVE  \A k \in 0 .. n : up[k] = vp[k]
<1> DEFINE T == {k \in 0 .. n : up[k] = vp[k]}
<1>1. /\ \A k \in 0 .. n : up[k] = IF k = 0 THEN s ELSE g[up[k - 1]]
      /\ \A k \in 0 .. m : vp[k] = IF k = 0 THEN s ELSE g[vp[k - 1]]
  BY DEF Iterates
<1>2. 0 \in T
  BY <1>1
<1>3. ASSUME NEW k \in 0 .. n - 1, k \in T PROVE k + 1 \in T
  <2>1. up[k + 1] = g[up[k]] /\ vp[k + 1] = g[vp[k]]
    BY <1>1
  <2> QED
    BY <1>3, <2>1
<1> HIDE DEF T
<1>4. 0 .. n \subseteq T
  BY <1>2, <1>3, Induction
<1> QED
  BY <1>4 DEF T

-----------------------------------------------------------------------------
(* Trees                                                                   *)

Place == State \cup {Top}

\* The topology is a tree: what Init chooses and no action changes.
Tree == sup \in [State -> Place] /\ IsTree(sup)

SuperOf == [s \in Place |-> Super(s)]

LEMMA TopOutside == Top \notin State
BY HsmAssumption DEF Top, State

LEMMA SuperType ==
  ASSUME Tree
  PROVE  SuperOf \in [Place -> Place] /\ \A s \in State : Super(s) = sup[s]
BY TopOutside DEF Tree, SuperOf, Super, Place

\* What Climb computes, for all of its range.
LEMMA ClimbDef ==
  ASSUME Tree, NEW s \in Place
  PROVE  /\ Climb(s) \in [0 .. DepthMax -> Place]
         /\ Iterates(Climb(s), SuperOf, s, DepthMax)
         /\ Climb(s)[0] = s
         /\ \A k \in 1 .. DepthMax : Climb(s)[k] = Super(Climb(s)[k - 1])
<1> DEFINE F(up) == [k \in 0 .. DepthMax |-> IF k = 0 THEN s ELSE Super(up[k - 1])]
<1>1. DepthMax \in Nat
  BY HsmAssumption
<1>2. PICK up \in [0 .. DepthMax -> Place] : Iterates(up, SuperOf, s, DepthMax)
  BY <1>1, SuperType, IteratesExists
<1>3. ASSUME NEW vp, vp = F(vp), \A k \in 0 .. DepthMax : vp[k] \in Place
      PROVE  Iterates(vp, SuperOf, s, DepthMax)
  <2>1. ASSUME NEW k \in 0 .. DepthMax, k # 0 PROVE Super(vp[k - 1]) = SuperOf[vp[k - 1]]
    <3>1. k - 1 \in 0 .. DepthMax
      BY <1>1, <2>1
    <3>2. vp[k - 1] \in Place
      BY <1>3, <3>1
    <3> QED
      BY <3>2 DEF SuperOf
  <2> QED
    BY <1>3, <2>1 DEF Iterates
<1>4. up = F(up)
  <2>1. \A k \in 0 .. DepthMax : k # 0 => Super(up[k - 1]) = SuperOf[up[k - 1]]
    BY <1>1 DEF SuperOf
  <2> QED
    BY <1>2, <2>1 DEF Iterates
<1>5. Climb(s) = F(Climb(s))
  BY <1>4 DEF Climb
<1> DEFINE T == {k \in 0 .. DepthMax : Climb(s)[k] \in Place}
<1>6. /\ Climb(s)[0] = s
      /\ \A k \in 1 .. DepthMax : Climb(s)[k] = Super(Climb(s)[k - 1])
  <2> DEFINE c == Climb(s)
  <2>1. c = [k \in 0 .. DepthMax |-> IF k = 0 THEN s ELSE Super(c[k - 1])]
    BY <1>5
  <2> HIDE DEF c
  <2>2. \A k \in 0 .. DepthMax : c[k] = IF k = 0 THEN s ELSE Super(c[k - 1])
    BY <2>1
  <2>3. c[0] = s /\ \A k \in 1 .. DepthMax : c[k] = Super(c[k - 1])
    BY <1>1, <2>2
  <2> QED
    BY <2>3 DEF c
<1>7. \A x \in Place : Super(x) \in Place
  BY DEF Super, Place, Tree
<1>8. 0 \in T /\ \A k \in 0 .. DepthMax - 1 : k \in T => k + 1 \in T
  BY <1>1, <1>6, <1>7
<1> HIDE DEF T
<1>9. 0 .. DepthMax \subseteq T
  BY <1>1, <1>8, Induction
<1>10. \A k \in 0 .. DepthMax : Climb(s)[k] \in Place
  BY <1>9 DEF T
<1>11. Climb(s) \in [0 .. DepthMax -> Place]
  <2> DEFINE c == Climb(s)
  <2>1. c = F(c) /\ \A k \in 0 .. DepthMax : c[k] \in Place
    BY <1>5, <1>10
  <2> HIDE DEF c
  <2>2. c \in [0 .. DepthMax -> Place]
    BY <2>1
  <2> QED
    BY <2>2 DEF c
<1> QED
  BY <1>3, <1>5, <1>6, <1>10, <1>11

\* Above Top is Top.
LEMMA TopStays ==
  ASSUME Tree, NEW s \in Place, NEW j \in 0 .. DepthMax, Climb(s)[j] = Top
  PROVE  \A k \in j .. DepthMax : Climb(s)[k] = Top
<1> DEFINE T == {k \in 0 .. DepthMax - j : Climb(s)[j + k] = Top}
<1>1. DepthMax \in Nat /\ DepthMax - j \in Nat
  BY HsmAssumption
<1>2. 0 \in T
  BY <1>1
<1>3. ASSUME NEW k \in 0 .. (DepthMax - j) - 1, k \in T PROVE k + 1 \in T
  <2>1. j + (k + 1) \in 1 .. DepthMax /\ j + (k + 1) - 1 = j + k
    BY <1>1
  <2>2. Climb(s)[j + (k + 1)] = Super(Climb(s)[j + k])
    BY <2>1, ClimbDef
  <2> QED
    BY <1>1, <1>3, <2>2 DEF Super
<1> HIDE DEF T
<1>4. 0 .. DepthMax - j \subseteq T
  BY <1>1, <1>2, <1>3, Induction
<1>5. ASSUME NEW k \in j .. DepthMax PROVE Climb(s)[k] = Top
  <2>1. k - j \in 0 .. DepthMax - j /\ j + (k - j) = k
    BY <1>1
  <2>2. k - j \in T
    BY <1>4, <2>1
  <2> QED
    BY <2>1, <2>2 DEF T
<1> QED
  BY <1>5

\* From every state it is at most as many steps to Top as there are states.
LEMMA ClimbsToTop ==
  ASSUME Tree, NEW s \in State
  PROVE  Cardinality(State) \in 1 .. DepthMax /\ Climb(s)[Cardinality(State)] = Top
<1> DEFINE N == Cardinality(State)
           F(up) == [k \in 0 .. N |-> IF k = 0 THEN s ELSE IF up[k - 1] = Top THEN Top ELSE sup[up[k - 1]]]
<1>1. N \in 1 .. DepthMax /\ DepthMax \in Nat
  <2>1. N \in Nat /\ N # 0
    BY HsmAssumption, FS_CardinalityType, FS_EmptySet
  <2> QED
    BY <2>1, HsmAssumption
<1>2. s \in Place
  BY DEF Place
<1>3. PICK up \in [0 .. N -> Place] : Iterates(up, SuperOf, s, N)
  BY <1>1, <1>2, SuperType, IteratesExists
<1>4. F(up) = up
  <2>1. \A k \in 0 .. N : k # 0 => SuperOf[up[k - 1]] = IF up[k - 1] = Top THEN Top ELSE sup[up[k - 1]]
    BY <1>1 DEF SuperOf, Super
  <2> QED
    BY <1>3, <2>1 DEF Iterates
<1> DEFINE vp == CHOOSE v : v = F(v)
<1>5. vp = F(vp)
  BY <1>4
<1>6. vp[N] = Top
  BY DEF Tree, IsTree
<1> HIDE DEF vp
<1> DEFINE T == {k \in 0 .. N : vp[k] = Climb(s)[k]}
<1>7. \A k \in 0 .. N : vp[k] = IF k = 0 THEN s ELSE IF vp[k - 1] = Top THEN Top ELSE sup[vp[k - 1]]
  BY <1>5
<1>8. 0 \in T
  <2>1. Climb(s)[0] = s
    BY <1>2, ClimbDef
  <2>2. 0 \in 0 .. N /\ vp[0] = s
    BY <1>1, <1>7
  <2> QED
    BY <2>1, <2>2
<1>9. ASSUME NEW k \in 0 .. N - 1, k \in T PROVE k + 1 \in T
  <2>1. k + 1 \in 1 .. DepthMax /\ k + 1 - 1 = k /\ k + 1 \in 0 .. N
    BY <1>1
  <2>2. Climb(s)[k + 1] = Super(Climb(s)[k])
    BY <1>2, <2>1, ClimbDef
  <2>3. vp[k + 1] = IF vp[k] = Top THEN Top ELSE sup[vp[k]]
    BY <1>1, <1>7, <2>1
  <2> QED
    BY <1>9, <2>1, <2>2, <2>3 DEF Super
<1> HIDE DEF T
<1>10. 0 .. N \subseteq T
  <2> HIDE DEF N
  <2>1. N \in Nat
    BY <1>1
  <2> QED
    BY <1>8, <1>9, <2>1, Induction
<1>11. N \in T
  BY <1>1, <1>10
<1> QED
  BY <1>1, <1>6, <1>11 DEF T

-----------------------------------------------------------------------------
(* Paths, from a state outwards, and chains, from the outermost state in   *)

IsPath(p, s) ==
  /\ p \in Seq(State) /\ Len(p) > 0 /\ p[1] = s
  /\ \A k \in 1 .. Len(p) - 1 : sup[p[k]] = p[k + 1]

IsChain(c) ==
  /\ c \in Seq(State)
  /\ \A i \in 1 .. Len(c) : sup[c[i]] = IF i = 1 THEN Top ELSE c[i - 1]

\* What hsm_build makes: the path to the substate of until, or to till if it is met before.
LEMMA BuildPath ==
  ASSUME Tree, NEW from \in State, NEW until \in Place, NEW till \in Place,
         NEW k0 \in 1 .. DepthMax, Climb(from)[k0] = until
  PROVE  /\ IsPath(Build(from, until, till), from)
         /\ \A k \in 1 .. Len(Build(from, until, till)) - 1 :
              /\ Build(from, until, till)[k] # till
              /\ sup[Build(from, until, till)[k]] # until
         /\ LET p == Build(from, until, till)
            IN  p[Len(p)] = till \/ sup[p[Len(p)]] = until
<1> DEFINE up == Climb(from)
           K == {k \in 1 .. DepthMax : up[k] = until \/ up[k - 1] = till}
           m == Min(K)
           f == [k \in 1 .. DepthMax |-> up[k - 1]]
           p == SubSeq(f, 1, m)
<1>1. p = Build(from, until, till)
  BY DEF Build
<1>2. /\ up \in [0 .. DepthMax -> Place] /\ up[0] = from
      /\ \A k \in 1 .. DepthMax : up[k] = Super(up[k - 1])
  BY ClimbDef DEF Place
<1>3. DepthMax \in Nat /\ \A s \in State : Super(s) = sup[s]
  BY HsmAssumption, SuperType
<1>4. \A j \in 0 .. DepthMax : up[j] = Top => \A k \in j .. DepthMax : up[k] = Top
  BY TopStays DEF Place
<1>5. up[k0] = until
  OBVIOUS
<1> HIDE DEF up
<1>6. K \subseteq Nat /\ k0 \in K
  BY <1>3, <1>5
<1>7. m \in K /\ \A k \in K : m <= k
  <2> HIDE DEF K
  <2> QED
    BY <1>6, MinLeast
<1> HIDE DEF m
<1>8. /\ m \in 1 .. DepthMax /\ m <= k0
      /\ up[m] = until \/ up[m - 1] = till
      /\ \A k \in 1 .. m - 1 : up[k] # until /\ up[k - 1] # till
  BY <1>3, <1>6, <1>7
<1>9. ASSUME NEW j \in 0 .. m - 1 PROVE up[j] \in State
  <2> SUFFICES ASSUME up[j] = Top PROVE FALSE
    BY <1>2, <1>3, <1>8 DEF Place
  <2>1. j # 0
    BY <1>2, TopOutside
  <2>2. up[k0] = Top
    BY <1>3, <1>4, <1>8
  <2>3. j \in 1 .. m - 1 /\ up[j] = until
    BY <1>5, <1>8, <2>1, <2>2
  <2> QED
    BY <1>8, <2>3
<1>10. /\ p \in Seq(Place) /\ Len(p) = m
       /\ \A k \in 1 .. m : p[k] = up[k - 1]
  <2>1. f \in Seq(Place) /\ Len(f) = DepthMax
    BY <1>2, <1>3
  <2>2. \A k \in 1 .. DepthMax : f[k] = up[k - 1]
    OBVIOUS
  <2> HIDE DEF f
  <2> QED
    BY <1>3, <1>8, <2>1, <2>2, SubSeqProperties
<1> HIDE DEF p
<1>11. \A k \in 1 .. m : p[k] \in State /\ up[k - 1] \in State
  BY <1>8, <1>9, <1>10
<1>12. p \in Seq(State)
  BY <1>10, <1>11
<1>13. \A k \in 1 .. m : sup[p[k]] = up[k]
  BY <1>2, <1>3, <1>8, <1>10, <1>11
<1>14. \A k \in 1 .. m - 1 : p[k + 1] = up[k]
  BY <1>8, <1>10
<1>15. IsPath(p, from)
  BY <1>2, <1>8, <1>10, <1>12, <1>13, <1>14 DEF IsPath
<1>16. \A k \in 1 .. m - 1 : p[k] # till /\ sup[p[k]] # until
  BY <1>8, <1>10, <1>13
<1>17. p[m] = till \/ sup[p[m]] = until
  BY <1>8, <1>10, <1>13
<1> QED
  BY <1>1, <1>10, <1>15, <1>16, <1>17

\* Two chains hold a state at the same place.
LEMMA ChainsMeet ==
  ASSUME Tree, NEW c, IsChain(c), NEW d, IsChain(d),
         NEW i \in 1 .. Len(c), NEW j \in 1 .. Len(d), c[i] = d[j]
  PROVE  i = j
<1> DEFINE T == {k \in Nat : \A h \in 1 .. Len(d) : k \in 1 .. Len(c) /\ c[k] = d[h] => k = h}
<1>1. Len(c) \in Nat /\ Len(d) \in Nat
  BY DEF IsChain
<1>2. 0 \in T
  BY <1>1
<1>3. ASSUME NEW k \in 0 .. Len(c) - 1, k \in T PROVE k + 1 \in T
  <2> SUFFICES ASSUME NEW h \in 1 .. Len(d), k + 1 \in 1 .. Len(c), c[k + 1] = d[h]
               PROVE  k + 1 = h
    BY <1>1
  <2>1. sup[d[h]] = (IF h = 1 THEN Top ELSE d[h - 1])
        /\ sup[c[k + 1]] = (IF k = 0 THEN Top ELSE c[k])
    BY <1>1 DEF IsChain
  <2>2. (k # 0 => c[k] \in State) /\ (h # 1 => d[h - 1] \in State)
    BY <1>1 DEF IsChain
  <2>3. k = 0 <=> h = 1
    BY <2>1, <2>2, TopOutside
  <2>4. k # 0 => c[k] = d[h - 1] /\ h - 1 \in 1 .. Len(d) /\ k \in 1 .. Len(c)
    BY <1>1, <2>1, <2>3
  <2> QED
    BY <1>1, <1>3, <2>3, <2>4
<1> HIDE DEF T
<1>4. 0 .. Len(c) \subseteq T
  BY <1>1, <1>2, <1>3, Induction
<1>5. i \in T
  BY <1>1, <1>4
<1> QED
  BY <1>5 DEF T

\* A chain is not longer than there are states.
LEMMA ChainBound ==
  ASSUME Tree, NEW c, IsChain(c)
  PROVE  Len(c) \in Nat /\ Len(c) <= Cardinality(State)
<1>1. c \in [1 .. Len(c) -> State] /\ Len(c) \in Nat
  BY DEF IsChain
<1>2. \A i, j \in 1 .. Len(c) : c[i] = c[j] => i = j
  BY ChainsMeet
<1>3. c \in Injection(1 .. Len(c), State)
  BY <1>1, <1>2 DEF Injection, IsInjective
<1>4. Cardinality(1 .. Len(c)) = Len(c)
  <2> DEFINE n == Len(c)
  <2>1. n \in Int /\ n >= 0
    BY <1>1
  <2> HIDE DEF n
  <2>2. Cardinality(1 .. n) = IF 1 > n THEN 0 ELSE n - 1 + 1
    BY <2>1, FS_Interval
  <2> QED
    BY <2>1, <2>2 DEF n
<1> QED
  BY <1>1, <1>3, <1>4, HsmAssumption, FS_Injection

-----------------------------------------------------------------------------
(* The inductive invariant                                                 *)

Innermost == IF inside = <<>> THEN Top ELSE inside[Len(inside)]

\* Outside a call, and while an event is offered.
Resting ==
  /\ pc \in {"gone", "new"} => inside = <<>> /\ state = Top /\ level = 0
  /\ pc \in {"gone", "new", "idle", "deinit"} => src = Top
  /\ pc \in {"gone", "new", "idle", "deinit", "ask"} => dst = Top /\ redispatch = FALSE

\* But between the steps of entering, the active state is the innermost one and the
\* level is its depth; the handler in turn sees the instance it was made for.
Settled ==
  /\ pc \in {"idle", "ask", "to_src", "to_lca", "deinit", "init"} =>
       state = Innermost /\ level = Len(inside)
  /\ pc \in {"idle", "ask", "to_src", "init"} => inside # <<>>
  /\ pc \in {"idle", "deinit", "to_src", "to_lca", "init"} => instance = state.instance
  /\ pc = "ask" => instance = src.instance
  /\ pc = "init" => dst = state

\* The event is offered to a state that was entered, or has passed all of them.
Asking ==
  pc = "ask" =>
    \/ src = Top /\ cnt = DepthMax - Len(inside)
    \/ \E j \in 1 .. Len(inside) : src = inside[j] /\ cnt = DepthMax - (Len(inside) - j)

\* The source of a transition is not left before the path to the destination is known,
\* and from then on only states that contain it are active.
Leaving ==
  /\ pc = "to_src" => dst \in State /\ \E j \in 1 .. Len(inside) : src = inside[j]
  /\ pc = "to_lca" =>
       /\ src \in State /\ src # dst
       /\ IsPath(path, dst) /\ sup[path[Len(path)]] = Top
       /\ inside # <<>> => Innermost \in Abstract!Above(src)

\* What is still to be entered leads from the innermost state to the destination, and
\* the level lags behind by what was entered.
Entering ==
  /\ pc # "enter" => left = 0
  /\ pc = "enter" =>
       /\ dst \in State
       /\ level + Len(path) = Len(inside) + left
       /\ left = 0 => Innermost = dst
       /\ left > 0 =>
            /\ path[1] = dst /\ sup[path[left]] = Innermost
            /\ \A k \in 1 .. left - 1 : sup[path[k]] = path[k + 1]

\* The countdown of a loop that exits states is ahead of the states that are left.
Counting ==
  /\ pc \in {"gone", "new", "idle", "enter", "init"} => cnt = DepthMax
  /\ pc \in {"to_src", "to_lca", "deinit"} =>
       cnt + Cardinality(State) >= DepthMax + Len(inside)

IInv ==
  /\ TypeOK /\ Tree /\ NoAssertFails /\ IsChain(inside)
  /\ Resting /\ Settled /\ Asking /\ Leaving /\ Entering /\ Counting

-----------------------------------------------------------------------------
(* The superstates of a state                                              *)

\* A path out to Top, turned around, is a chain.
LEMMA PathChain ==
  ASSUME Tree, NEW s, NEW p, IsPath(p, s), sup[p[Len(p)]] = Top
  PROVE  \E c : /\ IsChain(c) /\ Len(c) = Len(p) /\ c[Len(c)] = s
                /\ \A i \in 1 .. Len(p) : c[i] = p[Len(p) - i + 1]
<1> DEFINE n == Len(p)
           c == [i \in 1 .. n |-> p[n - i + 1]]
<1>1. n \in Nat \ {0} /\ \A k \in 1 .. n : p[k] \in State
  BY DEF IsPath
<1> HIDE DEF n
<1>2. c \in Seq(State) /\ Len(c) = n
  BY <1>1
<1>3. \A i \in 1 .. n : c[i] = p[n - i + 1]
  OBVIOUS
<1> HIDE DEF c
<1>4. ASSUME NEW i \in 1 .. n PROVE sup[c[i]] = IF i = 1 THEN Top ELSE c[i - 1]
  <2>1. CASE i = 1
    BY <1>1, <1>3, <2>1 DEF n
  <2>2. CASE i # 1
    <3>1. n - i + 1 \in 1 .. n - 1 /\ i - 1 \in 1 .. n /\ n - (i - 1) + 1 = (n - i + 1) + 1
      BY <1>1, <2>2
    <3>2. sup[p[n - i + 1]] = p[(n - i + 1) + 1]
      BY <3>1 DEF IsPath, n
    <3> QED
      BY <1>3, <2>2, <3>1, <3>2
  <2> QED
    BY <2>1, <2>2
<1>5. IsChain(c)
  BY <1>2, <1>4 DEF IsChain
<1>6. c[n] = s
  BY <1>1, <1>3 DEF IsPath
<1> QED
  BY <1>2, <1>3, <1>5, <1>6 DEF n

\* The path that hsm_build makes without a till leads from a substate of Top.
LEMMA BuildToTop ==
  ASSUME Tree, NEW s \in State, NEW till \in Place
  PROVE  LET p == Build(s, Top, till)
         IN  /\ IsPath(p, s)
             /\ \A k \in 1 .. Len(p) - 1 : p[k] # till
             /\ p[Len(p)] # till => sup[p[Len(p)]] = Top
<1>1. Cardinality(State) \in 1 .. DepthMax /\ Climb(s)[Cardinality(State)] = Top
  BY ClimbsToTop
<1>2. Top \in Place
  BY DEF Place
<1> QED
  BY <1>1, <1>2, BuildPath

\* Every state is the last one of a chain.
LEMMA ChainOf ==
  ASSUME Tree, NEW s \in State
  PROVE  \E c : IsChain(c) /\ Len(c) > 0 /\ c[Len(c)] = s
<1> DEFINE p == Build(s, Top, Top)
<1>1. IsPath(p, s) /\ (p[Len(p)] # Top => sup[p[Len(p)]] = Top)
  BY BuildToTop DEF Place
<1> HIDE DEF p
<1>2. Len(p) \in Nat /\ Len(p) > 0 /\ p[Len(p)] \in State
  BY <1>1 DEF IsPath
<1>3. p[Len(p)] # Top
  BY <1>2, TopOutside
<1> QED
  BY <1>1, <1>2, <1>3, PathChain

\* The states above a state are those of its chain.
LEMMA AboveChain ==
  ASSUME Tree, NEW c, IsChain(c), Len(c) > 0
  PROVE  Abstract!Above(c[Len(c)]) = {c[i] : i \in 1 .. Len(c)}
<1> DEFINE N == Cardinality(State)
           n == Len(c)
           s == c[n]
           Out(X) == X \cup {sup[t] : t \in X \ {Top}}
           g == [X \in SUBSET Place |-> Out(X)]
           F(up) == [k \in 0 .. N |-> IF k = 0 THEN {s} ELSE Out(up[k - 1])]
           vp == CHOOSE v : v = F(v)
           Inner(k) == {c[i] : i \in (IF k < n THEN n - k ELSE 1) .. n}
                         \cup (IF k < n THEN {} ELSE {Top})
<1>1. n \in Nat /\ n > 0 /\ n <= N /\ N \in Nat
  BY ChainBound, HsmAssumption, FS_CardinalityType DEF IsChain
<1>2. \A i \in 1 .. n : c[i] \in State /\ sup[c[i]] = IF i = 1 THEN Top ELSE c[i - 1]
  BY DEF IsChain
<1>3. Abstract!Above(s) = vp[N] \ {Top}
  <2>1. Abstract!Cardinality(State) = N
    BY DEF Abstract!Cardinality, Cardinality
  <2> QED
    BY <2>1 DEF Abstract!Above
<1> HIDE DEF n
<1>4. g \in [SUBSET Place -> SUBSET Place] /\ {s} \in SUBSET Place
  BY <1>1, <1>2 DEF Tree, Place
<1>5. PICK up \in [0 .. N -> SUBSET Place] : Iterates(up, g, {s}, N)
  <2> HIDE DEF g, s, N
  <2> QED
    BY <1>1, <1>4, IteratesExists
<1>6. F(up) = up
  <2>1. \A k \in 0 .. N : k # 0 => g[up[k - 1]] = Out(up[k - 1])
    BY <1>1
  <2> HIDE DEF g, s, N, Out
  <2> QED
    BY <1>5, <2>1 DEF Iterates
<1>7. vp = F(vp)
  BY <1>6
<1> HIDE DEF vp, N
<1>8. vp[0] = {s} /\ \A k \in 1 .. N : vp[k] = Out(vp[k - 1])
  <2> HIDE DEF Out, s
  <2>1. \A k \in 0 .. N : vp[k] = IF k = 0 THEN {s} ELSE Out(vp[k - 1])
    BY <1>7
  <2> QED
    BY <1>1, <2>1
<1> DEFINE T == {k \in 0 .. N : vp[k] = Inner(k)}
<1>9. 0 \in T
  BY <1>1, <1>8
<1>10. ASSUME NEW k \in 0 .. N - 1, k \in T PROVE k + 1 \in T
  <2>1. vp[k + 1] = Out(Inner(k)) /\ k + 1 \in 0 .. N
    <3> HIDE DEF Inner, Out
    <3> QED
      BY <1>1, <1>8, <1>10
  <2>2. Out(Inner(k)) = Inner(k + 1)
    <3>1. CASE k < n
      <4>1. Inner(k) = {c[i] : i \in n - k .. n} /\ Top \notin Inner(k)
        BY <1>1, <1>2, <3>1, TopOutside
      <4>2. \A x : x \in Out(Inner(k)) <=>
                     x \in Inner(k) \/ \E i \in n - k .. n : x = sup[c[i]]
        BY <4>1
      <4>3. \A i \in n - k .. n : i \in 1 .. n /\ (i # 1 => i - 1 \in n - (k + 1) .. n /\ i - 1 > 0)
        BY <1>1, <3>1
      <4>4. CASE k + 1 < n
        <5>1. Inner(k + 1) = {c[i] : i \in n - (k + 1) .. n}
          BY <4>4, <1>1
        <5>2. \A i \in n - k .. n : i # 1 /\ sup[c[i]] = c[i - 1] /\ i - 1 \in n - (k + 1) .. n
          BY <1>1, <1>2, <4>3, <4>4
        <5>3. n - k \in n - k .. n /\ sup[c[n - k]] = c[n - (k + 1)]
          <6>1. n - k \in n - k .. n /\ (n - k) - 1 = n - (k + 1)
            BY <1>1, <3>1
          <6> QED
            BY <5>2, <6>1
        <5>4. \A i \in n - (k + 1) .. n : i = n - (k + 1) \/ i \in n - k .. n
          BY <1>1
        <5>5. \A i \in n - k .. n : i \in n - (k + 1) .. n
          BY <1>1
        <5> HIDE DEF Out, Inner
        <5>6. ASSUME NEW x \in Out(Inner(k)) PROVE x \in Inner(k + 1)
          BY <4>1, <4>2, <5>1, <5>2, <5>5, <5>6
        <5>7. ASSUME NEW i \in n - (k + 1) .. n PROVE c[i] \in Out(Inner(k))
          BY <4>1, <4>2, <5>3, <5>4
        <5> QED
          BY <5>1, <5>6, <5>7
      <4>5. CASE ~(k + 1 < n)
        <5>1. Inner(k + 1) = {c[i] : i \in 1 .. n} \cup {Top} /\ n - k = 1
          BY <3>1, <4>5, <1>1
        <5>2. sup[c[1]] = Top /\ 1 \in 1 .. n
              /\ \A i \in 1 .. n : i # 1 => sup[c[i]] = c[i - 1] /\ i - 1 \in 1 .. n
          BY <1>1, <1>2
        <5> HIDE DEF Out, Inner
        <5>3. ASSUME NEW x \in Out(Inner(k)) PROVE x \in Inner(k + 1)
          BY <4>1, <4>2, <5>1, <5>2, <5>3
        <5>4. ASSUME NEW i \in 1 .. n PROVE c[i] \in Out(Inner(k))
          BY <4>1, <4>2, <5>1
        <5>5. Top \in Out(Inner(k))
          BY <4>2, <5>1, <5>2
        <5> QED
          BY <5>1, <5>3, <5>4, <5>5
      <4> QED
        BY <4>4, <4>5
    <3>2. CASE ~(k < n)
      <4>1. Inner(k) = {c[i] : i \in 1 .. n} \cup {Top} /\ Inner(k + 1) = Inner(k)
        BY <1>1, <3>2
      <4>2. \A i \in 1 .. n : sup[c[i]] = Top \/ (sup[c[i]] = c[i - 1] /\ i - 1 \in 1 .. n)
        BY <1>1, <1>2
      <4>3. \A t \in Inner(k) \ {Top} : \E i \in 1 .. n : t = c[i]
        BY <4>1
      <4>4. \A t \in Inner(k) \ {Top} : sup[t] \in Inner(k)
        <5> HIDE DEF Inner
        <5> SUFFICES ASSUME NEW t \in Inner(k) \ {Top} PROVE sup[t] \in Inner(k)
          OBVIOUS
        <5>1. PICK i \in 1 .. n : t = c[i]
          BY <4>3
        <5> QED
          BY <4>1, <4>2, <5>1
      <4> HIDE DEF Inner
      <4> QED
        BY <4>1, <4>4
    <3> QED
      BY <3>1, <3>2
  <2> HIDE DEF Inner, Out
  <2> QED
    BY <2>1, <2>2
<1> HIDE DEF T
<1>11. 0 .. N \subseteq T
  BY <1>1, <1>9, <1>10, Induction
<1>12. vp[N] = Inner(N)
  <2>1. N \in T
    BY <1>1, <1>11
  <2> QED
    BY <2>1 DEF T
<1>13. vp[N] \ {Top} = {c[i] : i \in 1 .. n}
  BY <1>1, <1>2, <1>12, TopOutside
<1> QED
  BY <1>3, <1>13 DEF n

\* Above holds the state, and the superstates of what it holds.
LEMMA AboveUp ==
  ASSUME Tree, NEW s \in State
  PROVE  /\ s \in Abstract!Above(s) /\ Abstract!Above(s) \subseteq State
         /\ \A t \in Abstract!Above(s) : sup[t] # Top => sup[t] \in Abstract!Above(s)
<1>1. PICK c : IsChain(c) /\ Len(c) > 0 /\ c[Len(c)] = s
  BY ChainOf
<1>2. Abstract!Above(s) = {c[i] : i \in 1 .. Len(c)}
  BY <1>1, AboveChain
<1>3. /\ Len(c) \in Nat
      /\ \A i \in 1 .. Len(c) : c[i] \in State /\ sup[c[i]] = IF i = 1 THEN Top ELSE c[i - 1]
  BY <1>1 DEF IsChain
<1> QED
  BY <1>1, <1>2, <1>3

-----------------------------------------------------------------------------
(* Every action preserves the invariant                                    *)

LEMMA PlaceRecord ==
  ASSUME NEW s \in Place
  PROVE  [fn |-> s.fn, instance |-> s.instance] = s
BY DEF Place, State, Top

LEMMA PlaceInstance ==
  ASSUME NEW s \in Place
  PROVE  s.instance \in Instance \cup {0}
BY DEF Place, State, Top

\* What depends on the topology and the entered states only stays with them.
LEMMA ShapeKept ==
  ASSUME Tree, IsChain(inside), UNCHANGED sup
  PROVE  /\ Tree'
         /\ inside' = inside => IsChain(inside)' /\ Innermost' = Innermost
BY DEF Tree, IsChain, Innermost

LEMMA AboveKept ==
  ASSUME UNCHANGED sup, UNCHANGED src
  PROVE  Abstract!Above(src)' = Abstract!Above(src)
BY DEF Abstract!Above

\* The states that are active, and what the innermost one is.
LEMMA InsideFacts ==
  ASSUME Tree, IsChain(inside)
  PROVE  /\ inside \in Seq(State) /\ Len(inside) \in Nat
         /\ Len(inside) <= Cardinality(State) /\ Cardinality(State) \in Nat
         /\ DepthMax \in Nat /\ Cardinality(State) + 2 <= DepthMax
         /\ \A i \in 1 .. Len(inside) : inside[i] \in State
         /\ inside = <<>> => Innermost = Top /\ Len(inside) = 0
         /\ inside # <<>> => /\ Innermost \in State /\ Innermost # Top
                             /\ Innermost = inside[Len(inside)] /\ Len(inside) > 0
<1>1. inside \in Seq(State) /\ Len(inside) \in Nat /\ \A i \in 1 .. Len(inside) : inside[i] \in State
  BY DEF IsChain
<1>2. Len(inside) <= Cardinality(State)
  BY ChainBound
<1>3. inside # <<>> => Len(inside) > 0
  BY <1>1
<1> QED
  BY <1>1, <1>2, <1>3, TopOutside, HsmAssumption, FS_CardinalityType DEF Innermost

\* Leaving the innermost state leaves its chain without the last state.
LEMMA Exits ==
  ASSUME Tree, IsChain(inside), inside # <<>>, state = Innermost, instance = state.instance,
         ExitState, UNCHANGED sup
  PROVE  /\ inside' = SubSeq(inside, 1, Len(inside) - 1)
         /\ IsChain(inside)' /\ Len(inside') = Len(inside) - 1
         /\ \A i \in 1 .. Len(inside) - 1 : inside'[i] = inside[i]
         /\ inside' = Front(inside)
         /\ state' = sup[state] /\ state' \in Place /\ Innermost' = state'
         /\ instance' = state'.instance
         /\ level' = level - 1
<1> DEFINE n == Len(inside)
<1>1. /\ n \in Nat /\ n > 0 /\ inside[n] = state /\ state \in State /\ inside \in Seq(State)
      /\ \A i \in 1 .. n : inside[i] \in State
  BY InsideFacts
<1>2. Seen(state.fn) = state
  BY <1>1, PlaceRecord DEF Seen, Place
<1>3. \A i, j \in 1 .. n : inside[i] = inside[j] => i = j
  BY ChainsMeet
<1>4. RemoveFirst(inside, state) = SubSeq(inside, 1, n - 1)
  <2>1. {i \in 1 .. n : inside[i] = state} = {n}
    BY <1>1, <1>3
  <2>2. Min({n}) = n
    BY <1>1 DEF Min
  <2>3. RemoveFirst(inside, state) = RemoveAt(inside, n)
    BY <1>1, <2>1, <2>2 DEF RemoveFirst, SelectInSeq
  <2>4. SubSeq(inside, n + 1, n) = <<>>
    BY <1>1
  <2>5. SubSeq(inside, 1, n - 1) \in Seq(State)
    BY <1>1
  <2> HIDE DEF n
  <2>6. SubSeq(inside, 1, n - 1) \o <<>> = SubSeq(inside, 1, n - 1)
    BY <2>5
  <2> QED
    BY <2>3, <2>4, <2>6 DEF RemoveAt, n
<1>5. inside' = SubSeq(inside, 1, n - 1)
  BY <1>2, <1>4 DEF ExitState
<1>6. inside' \in Seq(State) /\ Len(inside') = n - 1 /\ \A i \in 1 .. n - 1 : inside'[i] = inside[i]
  <2>1. n - 1 \in Nat /\ \A i \in 1 .. n - 1 : inside[i] \in State
    BY <1>1
  <2> HIDE DEF n
  <2> QED
    BY <1>5, <2>1, SubSeqProperties
<1>7. \A i \in 1 .. n : sup[inside[i]] = IF i = 1 THEN Top ELSE inside[i - 1]
  BY DEF IsChain
<1>8. \A i \in 1 .. n - 1 : sup[inside'[i]] = IF i = 1 THEN Top ELSE inside'[i - 1]
  BY <1>1, <1>6, <1>7
<1>9. IsChain(inside)'
  BY <1>6, <1>8 DEF IsChain
<1>10. state' = sup[state] /\ instance' = state'.instance /\ level' = level - 1
  BY <1>1, <1>2, SuperType DEF ExitState, SetState
<1>11. state' \in Place
  BY <1>1, <1>10 DEF Tree
<1>12. Innermost' = state'
  <2>1. CASE n = 1
    <3>1. inside' = <<>>
      BY <1>6, <2>1
    <3> QED
      BY <1>1, <1>7, <1>10, <2>1, <3>1 DEF Innermost
  <2>2. CASE n # 1
    <3>1. inside' # <<>> /\ inside'[n - 1] = inside[n - 1] /\ sup[inside[n]] = inside[n - 1]
      BY <1>1, <1>6, <1>7, <2>2
    <3> QED
      BY <1>1, <1>6, <1>10, <3>1 DEF Innermost
  <2> QED
    BY <2>1, <2>2
<1> QED
  BY <1>5, <1>6, <1>9, <1>10, <1>11, <1>12 DEF Front

LEMMA InitInv == Init => IInv
<1> SUFFICES ASSUME Init PROVE IInv
  OBVIOUS
<1>1. PICK tree \in Trees : InitWith(tree)
  BY DEF Init
<1>2. sup \in [State -> State \cup {Top}] /\ IsTree(sup)
  BY <1>1 DEF InitWith, Trees
<1>3. /\ state = Top /\ instance = 0 /\ level = 0 /\ pc = "gone"
      /\ src = Top /\ dst = Top /\ path = <<>> /\ left = 0 /\ cnt = DepthMax
      /\ redispatch = FALSE /\ second = FALSE /\ inside = <<>> /\ failed = FALSE
  BY <1>1 DEF InitWith
<1>4. Tree /\ IsChain(inside)
  BY <1>2, <1>3 DEF Tree, Place, IsChain
<1>5. TypeOK
  <2>1. DepthMax \in 0 .. DepthMax /\ 0 \in 0 .. DepthMax
    BY HsmAssumption
  <2>2. path \in Seq(State) /\ left \in 0 .. Len(path) /\ inside \in Seq(State)
    BY <1>3
  <2>3. /\ state \in State \cup {Top} /\ src \in State \cup {Top} /\ dst \in State \cup {Top}
        /\ instance \in Instance \cup {0} /\ level \in 0 .. DepthMax /\ cnt \in 0 .. DepthMax
    BY <1>3, <2>1
  <2>4. redispatch \in BOOLEAN /\ second \in BOOLEAN /\ failed \in BOOLEAN
    BY <1>3
  <2> QED
    BY <1>2, <1>3, <2>2, <2>3, <2>4 DEF TypeOK
<1> QED
  BY <1>3, <1>4, <1>5 DEF IInv, NoAssertFails, Resting, Settled, Asking, Leaving, Entering, Counting

\* What the invariant says of a state in which nothing failed.
LEMMA InvFacts ==
  ASSUME IInv
  PROVE  /\ TypeOK /\ Tree /\ IsChain(inside) /\ failed = FALSE
         /\ Resting /\ Settled /\ Asking /\ Leaving /\ Entering /\ Counting
BY DEF IInv, NoAssertFails

\* Calls that begin or end, and an event that is handled, leave the entered states alone.
LEMMA IdleInv ==
  ASSUME IInv, UNCHANGED <<sup, path, left, inside>>,
         InitHsm \/ Deinit \/ DeinitDone \/ Dispatch \/ AskHandled
  PROVE  IInv'
<1> USE DEF IInv
<1>1. Tree' /\ IsChain(inside)' /\ Innermost' = Innermost
  BY ShapeKept
<1>2. /\ Len(inside) \in Nat /\ Len(inside) <= Cardinality(State) /\ Cardinality(State) \in Nat
      /\ DepthMax \in Nat /\ Cardinality(State) + 2 <= DepthMax
      /\ inside = <<>> => Innermost = Top /\ Len(inside) = 0
      /\ inside # <<>> => Innermost # Top /\ Len(inside) > 0
  BY InsideFacts
<1> HIDE DEF IInv
<1>3. TypeOK /\ Resting /\ Settled /\ Asking /\ Counting /\ failed = FALSE
  BY DEF IInv, NoAssertFails
<1> USE DEF Resting, Settled, Asking, Leaving, Entering, Counting, NoAssertFails, TypeOK
<1>4. CASE InitHsm
  BY <1>1, <1>2, <1>3, <1>4 DEF InitHsm, IInv, hsmVars, pathVars
<1>5. CASE Deinit
  <2>1. Top.instance = 0 /\ DepthMax + Cardinality(State) >= DepthMax + Len(inside)
    BY <1>2 DEF Top
  <2>2. CASE pc = "idle"
    BY <1>1, <1>2, <1>3, <1>5, <2>1, <2>2 DEF Deinit, IInv, hsmVars, pathVars, SetState
  <2>3. CASE pc = "new"
    BY <1>1, <1>2, <1>3, <1>5, <2>1, <2>3 DEF Deinit, IInv, hsmVars, pathVars, SetState
  <2> QED
    BY <1>5, <2>2, <2>3 DEF Deinit
<1>6. CASE DeinitDone
  BY <1>1, <1>2, <1>3, <1>6 DEF DeinitDone, IInv, hsmVars, pathVars
<1>7. CASE Dispatch
  <2>1. inside # <<>> /\ state = inside[Len(inside)] /\ Len(inside) \in 1 .. Len(inside)
    BY <1>2, <1>3, <1>7, InsideFacts DEF Dispatch, IInv
  <2>2. /\ pc' = "ask" /\ src' = state /\ failed' = failed /\ second' = second
        /\ UNCHANGED <<state, instance, level, dst, cnt, redispatch>>
    BY <1>7 DEF Dispatch, hsmVars
  <2>3. cnt = DepthMax - (Len(inside) - Len(inside)) /\ pc = "idle"
    BY <1>2, <1>3, <1>7 DEF Dispatch
  <2>4. Asking'
    BY <2>1, <2>2, <2>3
  <2> QED
    BY <1>1, <1>2, <1>3, <2>1, <2>2, <2>3, <2>4 DEF IInv
<1>8. CASE AskHandled
  <2>1. /\ pc = "ask" /\ pc' = "idle" /\ state' = state /\ instance' = state.instance
        /\ src' = Top /\ cnt' = DepthMax /\ second' = FALSE
        /\ UNCHANGED <<level, dst, redispatch>>
        /\ failed' = ~(cnt - 1 > 0)
    BY <1>8 DEF AskHandled, Asked, Require, SetState
  <2>2. cnt - 1 > 0
    <3>1. cnt >= DepthMax - Len(inside)
      BY <1>2, <1>3, <2>1
    <3> QED
      BY <1>2, <1>3, <3>1
  <2>3. state.instance \in Instance \cup {0}
    BY <1>3, PlaceInstance DEF Place
  <2>4. TypeOK'
    <3>1. DepthMax \in 0 .. DepthMax
      BY <1>2
    <3>2. failed' = FALSE
      BY <2>1, <2>2, Zenon
    <3> HIDE DEF Asking, Settled, Resting, Leaving, Entering, Counting
    <3> QED
      BY <1>3, <2>1, <2>3, <3>1, <3>2
  <2>5. Resting' /\ Settled' /\ Asking' /\ Leaving' /\ Counting'
    BY <1>1, <1>3, <2>1
  <2>7. Entering'
    BY <2>1, InvFacts
  <2>6. failed' = FALSE
    BY <2>1, <2>2, Zenon
  <2> QED
    BY <1>1, <2>4, <2>5, <2>6, <2>7 DEF IInv
<1> QED
  BY <1>4, <1>5, <1>6, <1>7, <1>8

LEMMA AskSuperInv == ASSUME IInv, AskSuper PROVE IInv'
<1> DEFINE n == Len(inside)
<1>1. /\ pc = "ask" /\ pc' = "ask" /\ src # Top
      /\ src' = Super(Seen(src.fn)) /\ instance' = src'.instance /\ cnt' = cnt - 1
      /\ UNCHANGED <<sup, state, level, dst, path, left, redispatch, second, inside>>
      /\ failed' = ~(cnt - 1 > 0)
  BY DEF AskSuper, Asked, Require, pathVars
<1>2. /\ n \in Nat /\ n <= Cardinality(State) /\ Cardinality(State) + 2 <= DepthMax
      /\ DepthMax \in Nat /\ Cardinality(State) \in Nat
  BY InvFacts, InsideFacts
<1>3. PICK j \in 1 .. n : src = inside[j] /\ cnt = DepthMax - (n - j)
  BY <1>1, InvFacts DEF Asking
<1>4. src \in State /\ sup[src] = IF j = 1 THEN Top ELSE inside[j - 1]
  BY <1>3, InvFacts DEF IsChain
<1>5. src' = sup[src]
  <2>1. instance = src.instance
    BY <1>1, InvFacts DEF Settled
  <2>2. Seen(src.fn) = src
    BY <1>4, <2>1, PlaceRecord DEF Seen, Place
  <2> QED
    BY <1>1, <1>4, <2>2, SuperType, InvFacts
<1>6. cnt - 1 > 0 /\ cnt' \in 0 .. DepthMax /\ cnt' = DepthMax - (n - (j - 1))
  BY <1>1, <1>2, <1>3
<1>7. failed' = FALSE
  BY <1>1, <1>6, Zenon
<1>8. src' \in Place
  BY <1>4, <1>5, InvFacts DEF Tree
<1>9. Tree' /\ IsChain(inside)' /\ Innermost' = Innermost
  BY <1>1, ShapeKept, InvFacts
<1>10. Asking'
  <2>1. CASE j = 1
    <3>1. src' = Top /\ cnt' = DepthMax - Len(inside')
      BY <1>1, <1>2, <1>4, <1>5, <1>6, <2>1
    <3> QED
      BY <3>1 DEF Asking
  <2>2. CASE j # 1
    <3>1. j - 1 \in 1 .. Len(inside') /\ src' = inside'[j - 1]
          /\ cnt' = DepthMax - (Len(inside') - (j - 1))
      BY <1>1, <1>2, <1>4, <1>5, <1>6, <2>2
    <3> QED
      BY <3>1 DEF Asking
  <2> QED
    BY <2>1, <2>2
<1>11. TypeOK'
  BY <1>1, <1>6, <1>7, <1>8, InvFacts, PlaceInstance DEF TypeOK, Place
<1>12. Resting' /\ Settled' /\ Leaving' /\ Entering' /\ Counting'
  BY <1>1, <1>9, InvFacts DEF Resting, Settled, Leaving, Entering, Counting
<1> QED
  BY <1>7, <1>9, <1>10, <1>11, <1>12 DEF IInv, NoAssertFails

LEMMA AskTranInv == ASSUME IInv, AskTran PROVE IInv'
<1> DEFINE n == Len(inside)
<1>1. /\ pc = "ask" /\ pc' = "to_src" /\ src # Top /\ dst' \in State
      /\ redispatch' \in BOOLEAN /\ cnt' = DepthMax
      /\ state' = state /\ instance' = state.instance
      /\ UNCHANGED <<sup, level, src, path, left, second, inside>>
      /\ failed' = ~(cnt - 1 > 0)
  BY DEF AskTran, Asked, Require, SetState, pathVars
<1>2. /\ n \in Nat /\ n <= Cardinality(State) /\ Cardinality(State) + 2 <= DepthMax
      /\ DepthMax \in Nat /\ Cardinality(State) \in Nat
  BY InvFacts, InsideFacts
<1>3. PICK j \in 1 .. n : src = inside[j] /\ cnt = DepthMax - (n - j)
  BY <1>1, InvFacts DEF Asking
<1>4. cnt - 1 > 0
  BY <1>2, <1>3
<1>5. failed' = FALSE
  BY <1>1, <1>4, Zenon
<1>6. Tree' /\ IsChain(inside)' /\ Innermost' = Innermost
  BY <1>1, ShapeKept, InvFacts
<1>7. state \in Place
  BY InvFacts DEF TypeOK, Place
<1>8. TypeOK'
  BY <1>1, <1>2, <1>5, <1>7, InvFacts, PlaceInstance DEF TypeOK, Place
<1>9. Leaving' /\ Counting'
  BY <1>1, <1>2, <1>3 DEF Leaving, Counting
<1>10. Resting' /\ Settled' /\ Asking' /\ Entering'
  BY <1>1, <1>6, InvFacts DEF Resting, Settled, Asking, Entering
<1> QED
  BY <1>5, <1>6, <1>8, <1>9, <1>10 DEF IInv, NoAssertFails

\* The three loops that exit states.
LEMMA ExitedInv ==
  ASSUME IInv, DeinitExits \/ ExitToSrc \/ ExitToLca
  PROVE  IInv'
<1> DEFINE n == Len(inside)
<1>1. /\ ExitState /\ cnt' = cnt - 1 /\ failed' = ~(level > 0 /\ cnt - 1 > 0)
      /\ UNCHANGED <<sup, pc, src, dst, path, left, redispatch, second>>
      /\ pc \in {"deinit", "to_src", "to_lca"}
  BY DEF DeinitExits, ExitToSrc, ExitToLca, ExitCounted, Require, pathVars
<1>2. /\ n \in Nat /\ n <= Cardinality(State) /\ Cardinality(State) + 2 <= DepthMax
      /\ DepthMax \in Nat /\ Cardinality(State) \in Nat
      /\ inside = <<>> => Innermost = Top
      /\ inside # <<>> => Innermost \in State /\ Innermost = inside[n] /\ n > 0
  BY InvFacts, InsideFacts
<1>3. state = Innermost /\ level = n /\ instance = state.instance
  BY <1>1, InvFacts DEF Settled
<1>4. inside # <<>>
  BY <1>2, <1>3, InvFacts DEF DeinitExits, ExitToSrc, ExitToLca, Settled
<1>5. /\ IsChain(inside)' /\ Len(inside') = n - 1
      /\ \A i \in 1 .. n - 1 : inside'[i] = inside[i]
      /\ state' = sup[state] /\ state' \in Place /\ Innermost' = state'
      /\ instance' = state'.instance /\ level' = level - 1
  BY <1>1, <1>3, <1>4, Exits, InvFacts
<1>6. cnt + Cardinality(State) >= DepthMax + n /\ cnt \in 0 .. DepthMax
  BY <1>1, InvFacts DEF Counting, TypeOK
<1>7. level > 0 /\ cnt - 1 > 0 /\ cnt' \in 0 .. DepthMax
      /\ cnt' + Cardinality(State) >= DepthMax + Len(inside')
      /\ level' = Len(inside') /\ level' \in 0 .. DepthMax
  BY <1>1, <1>2, <1>3, <1>4, <1>5, <1>6
<1>8. failed' = FALSE
  BY <1>1, <1>7, Zenon
<1>9. Tree'
  BY <1>1, InvFacts, ShapeKept
<1>10. TypeOK'
  BY <1>1, <1>5, <1>7, <1>8, InvFacts, PlaceInstance DEF TypeOK, Place, IsChain
<1>11. Resting' /\ Asking' /\ Entering' /\ Counting'
  BY <1>1, <1>7, InvFacts DEF Resting, Asking, Entering, Counting
<1>12. pc = "to_src" => \E j \in 1 .. n - 1 : src = inside[j]
  <2> SUFFICES ASSUME pc = "to_src" PROVE \E j \in 1 .. n - 1 : src = inside[j]
    OBVIOUS
  <2>1. PICK j \in 1 .. n : src = inside[j]
    BY InvFacts DEF Leaving
  <2>2. state # src
    BY DEF DeinitExits, ExitToSrc, ExitToLca
  <2> QED
    BY <1>2, <1>3, <1>4, <2>1, <2>2
<1>13. Settled'
  <2>1. pc = "to_src" => inside' # <<>>
    BY <1>2, <1>5, <1>12
  <2> QED
    BY <1>1, <1>5, <1>7, <2>1 DEF Settled
<1>14. Leaving'
  <2>1. CASE pc = "to_src"
    BY <1>1, <1>2, <1>5, <1>12, <2>1, InvFacts DEF Leaving
  <2>2. CASE pc = "to_lca"
    <3>1. Innermost \in Abstract!Above(src) /\ src \in State
      BY <1>4, <2>2, InvFacts DEF Leaving
    <3>2. sup[state] # Top => sup[state] \in Abstract!Above(src)
      BY <1>3, <3>1, AboveUp, InvFacts
    <3>3. inside' # <<>> => Innermost' # Top
      BY <1>1, <1>5, <1>9, InsideFacts, TopOutside DEF Innermost, IsChain
    <3>4. inside' # <<>> => Innermost' \in Abstract!Above(src)'
      BY <1>1, <1>5, <3>2, <3>3, AboveKept
    <3>5. IsPath(path, dst)' /\ (sup[path[Len(path)]] = Top)'
      BY <1>1, <2>2, InvFacts DEF Leaving, IsPath
    <3> QED
      BY <1>1, <2>2, <3>1, <3>4, <3>5, InvFacts DEF Leaving
  <2>3. CASE pc = "deinit"
    BY <1>1, <2>3 DEF Leaving
  <2> QED
    BY <1>1, <2>1, <2>2, <2>3
<1> QED
  BY <1>5, <1>8, <1>9, <1>10, <1>11, <1>13, <1>14 DEF IInv, NoAssertFails

\* The states of p, p[1] last, lead from s to d.
Leads(p, s, d) ==
  /\ p \in Seq(State)
  /\ IF Len(p) = 0 THEN s = d
     ELSE /\ p[1] = d /\ sup[p[Len(p)]] = s
          /\ \A k \in 1 .. Len(p) - 1 : sup[p[k]] = p[k + 1]

\* The four transitions, the initial one and the start begin to enter states.
LEMMA EntersInv ==
  ASSUME IInv, NEW d \in State, NEW p, Enters(p, d),
         UNCHANGED <<sup, redispatch, second>>, IsChain(inside)', failed' = FALSE,
         Leads(p, Innermost', d), level' = Len(inside'), cnt' = DepthMax,
         src' \in Place, state' \in Place, instance' \in Instance \cup {0}
  PROVE  IInv'
<1>1. path' = p /\ left' = Len(p) /\ dst' = d /\ pc' = "enter"
  BY DEF Enters
<1>2. Tree'
  BY InvFacts, ShapeKept
<1>3. inside' \in Seq(State) /\ Len(inside') \in Nat /\ Len(inside') <= Cardinality(State)
      /\ DepthMax \in Nat /\ Cardinality(State) + 2 <= DepthMax /\ Cardinality(State) \in Nat
  <2>1. Len(inside') \in Nat /\ Len(inside') <= Cardinality(State)
    <3> DEFINE c == inside'
    <3>1. IsChain(c)
      BY DEF IsChain
    <3> HIDE DEF c
    <3>2. Len(c) \in Nat /\ Len(c) <= Cardinality(State)
      BY <3>1, ChainBound, InvFacts
    <3> QED
      BY <3>2 DEF c
  <2> QED
    BY <2>1, InvFacts, InsideFacts DEF IsChain
<1>4. p \in Seq(State) /\ Len(p) \in Nat
  BY DEF Leads
<1>5. TypeOK'
  <2>1. level' \in 0 .. DepthMax /\ cnt' \in 0 .. DepthMax /\ left' \in 0 .. Len(path')
    BY <1>1, <1>3, <1>4
  <2>2. sup' = sup /\ redispatch' = redispatch /\ second' = second /\ failed' \in BOOLEAN
    OBVIOUS
  <2> QED
    BY <1>1, <1>3, <1>4, <2>1, <2>2, InvFacts DEF TypeOK, Place
<1>6. Resting' /\ Settled' /\ Asking' /\ Leaving' /\ Counting'
  BY <1>1 DEF Resting, Settled, Asking, Leaving, Counting
<1>7. Entering'
  <2>1. Len(p) > 0 => p[1] = d /\ sup[p[Len(p)]] = Innermost'
                      /\ \A k \in 1 .. Len(p) - 1 : sup[p[k]] = p[k + 1]
    BY <1>4 DEF Leads
  <2>2. Len(p) = 0 => Innermost' = d
    BY DEF Leads
  <2>3. level' + Len(path') = Len(inside') + left'
    BY <1>1, <1>3, <1>4
  <2> QED
    BY <1>1, <2>1, <2>2, <2>3 DEF Entering
<1> QED
  BY <1>2, <1>5, <1>6, <1>7 DEF IInv, NoAssertFails

LEMMA StartInv == ASSUME IInv, Start PROVE IInv'
<1>1. PICK d \in State : Enters(Build(d, Top, Top), d)
  BY DEF Start
<1>2. /\ pc = "new"
      /\ UNCHANGED <<sup, state, instance, level, src, cnt, redispatch, second, inside, failed>>
  BY DEF Start, hsmVars
<1>3. inside = <<>> /\ state = Top /\ level = 0 /\ cnt = DepthMax /\ src = Top
  BY <1>2, InvFacts DEF Resting, Counting
<1>4. Len(inside') = 0 /\ Innermost' = Top /\ IsChain(inside)'
  BY <1>2, <1>3, InsideFacts, InvFacts, ShapeKept
<1> DEFINE p == Build(d, Top, Top)
<1>5. IsPath(p, d) /\ (p[Len(p)] # Top => sup[p[Len(p)]] = Top)
  BY BuildToTop, InvFacts DEF Place
<1>6. Enters(p, d)
  BY <1>1
<1> HIDE DEF p
<1>7. Len(p) \in Nat /\ Len(p) > 0 /\ p[Len(p)] \in State
  BY <1>5 DEF IsPath
<1>8. Leads(p, Innermost', d)
  BY <1>4, <1>5, <1>7, TopOutside DEF Leads, IsPath
<1>9. state' \in Place /\ src' \in Place /\ instance' \in Instance \cup {0}
  BY <1>2, <1>3, InvFacts DEF Place, TypeOK
<1> QED
  BY <1>2, <1>3, <1>4, <1>6, <1>8, <1>9, EntersInv, InvFacts

LEMMA TranToSelfInv == ASSUME IInv, TranToSelf PROVE IInv'
<1>1. /\ pc = "to_src" /\ state = src /\ src = dst /\ ExitState
      /\ failed' = ~(level > 0) /\ Enters(<<dst>>, dst) /\ cnt' = DepthMax
      /\ UNCHANGED <<sup, src, redispatch, second>>
  BY DEF TranToSelf, Require
<1>2. /\ inside # <<>> /\ state = Innermost /\ level = Len(inside) /\ instance = state.instance
      /\ dst \in State
  BY <1>1, InvFacts DEF Settled, Leaving
<1>3. /\ IsChain(inside)' /\ Len(inside') = Len(inside) - 1 /\ state' = sup[state]
      /\ state' \in Place /\ Innermost' = state' /\ instance' = state'.instance
      /\ level' = level - 1
  BY <1>1, <1>2, Exits, InvFacts
<1>4. level > 0
  BY <1>2, InsideFacts, InvFacts
<1>5. failed' = FALSE
  BY <1>1, <1>4, Zenon
<1>6. Leads(<<dst>>, Innermost', dst)
  BY <1>1, <1>2, <1>3 DEF Leads
<1>7. src' \in Place /\ instance' \in Instance \cup {0} /\ level' = Len(inside')
  BY <1>1, <1>2, <1>3, PlaceInstance DEF Place
<1> QED
  BY <1>1, <1>2, <1>3, <1>5, <1>6, <1>7, EntersInv

LEMMA TranDownInv == ASSUME IInv, TranDown PROVE IInv'
<1> DEFINE p == Build(dst, Top, src)
           n == Len(p)
<1>1. /\ pc = "to_src" /\ state = src /\ src # dst /\ Last(p) = src
      /\ Enters(Front(p), dst) /\ cnt' = DepthMax
      /\ UNCHANGED <<sup, state, instance, level, src, redispatch, second, inside, failed>>
  BY DEF TranDown, hsmVars
<1>2. /\ inside # <<>> /\ state = Innermost /\ level = Len(inside)
      /\ dst \in State /\ src \in Place
  BY <1>1, InvFacts DEF Settled, Leaving, TypeOK, Place
<1>3. IsPath(p, dst)
  BY <1>2, BuildToTop, InvFacts
<1>4. IsChain(inside)' /\ Innermost' = Innermost
  BY <1>1, InvFacts, ShapeKept
<1> HIDE DEF p
<1>5. /\ n \in Nat /\ n > 0 /\ p \in Seq(State) /\ p[1] = dst /\ p[n] = src
      /\ \A k \in 1 .. n : p[k] \in State
      /\ \A k \in 1 .. n - 1 : sup[p[k]] = p[k + 1]
  BY <1>1, <1>3 DEF IsPath, Last
<1>6. n > 1
  BY <1>1, <1>5
<1> HIDE DEF n
<1>7. Front(p) \in Seq(State) /\ Len(Front(p)) = n - 1 /\ \A k \in 1 .. n - 1 : Front(p)[k] = p[k]
  <2>1. Front(p) = SubSeq(p, 1, n - 1) /\ n = Len(p)
    BY DEF Front, n
  <2>2. n - 1 \in Nat /\ n - 1 <= Len(p)
    BY <1>5, <2>1
  <2>3. /\ SubSeq(p, 1, n - 1) \in Seq(State) /\ Len(SubSeq(p, 1, n - 1)) = n - 1
        /\ \A k \in 1 .. n - 1 : SubSeq(p, 1, n - 1)[k] = p[k]
    BY <1>5, <2>2, SubSeqProperties
  <2> QED
    BY <2>1, <2>3
<1>8. Leads(Front(p), Innermost', dst)
  <2>1. n - 1 \in 1 .. n - 1 /\ 1 \in 1 .. n - 1 /\ (n - 1) + 1 = n
    BY <1>5, <1>6
  <2>2. Front(p)[1] = dst /\ sup[Front(p)[n - 1]] = src
    BY <1>5, <1>7, <2>1
  <2>3. ASSUME NEW k \in 1 .. (n - 1) - 1 PROVE sup[Front(p)[k]] = Front(p)[k + 1]
    <3>1. k \in 1 .. n - 1 /\ k + 1 \in 1 .. n - 1
      BY <1>5, <2>3
    <3> QED
      BY <1>5, <1>7, <3>1
  <2>4. src = Innermost' /\ n - 1 # 0
    BY <1>1, <1>2, <1>4, <1>5, <1>6
  <2> DEFINE f == Front(p)
  <2>5. /\ f \in Seq(State) /\ Len(f) = n - 1 /\ f[1] = dst /\ sup[f[n - 1]] = Innermost'
        /\ \A k \in 1 .. (n - 1) - 1 : sup[f[k]] = f[k + 1]
    BY <1>7, <2>2, <2>3, <2>4
  <2> HIDE DEF f
  <2>6. Leads(f, Innermost', dst)
    BY <2>4, <2>5 DEF Leads
  <2> QED
    BY <2>6 DEF f
<1>9. /\ src' \in Place /\ state' \in Place /\ instance' \in Instance \cup {0}
      /\ level' = Len(inside') /\ failed' = FALSE
  BY <1>1, <1>2, InvFacts DEF Place, TypeOK
<1> QED
  BY <1>1, <1>2, <1>4, <1>8, <1>9, EntersInv

LEMMA TranOutInv == ASSUME IInv, TranOut PROVE IInv'
<1> DEFINE p == Build(dst, Top, src)
<1>1. /\ pc = "to_src" /\ state = src /\ src # dst /\ Last(p) # src
      /\ path' = p /\ pc' = "to_lca" /\ cnt' = DepthMax
      /\ UNCHANGED <<sup, state, instance, level, src, dst, left, redispatch, second, inside, failed>>
  BY DEF TranOut, hsmVars
<1>2. /\ inside # <<>> /\ state = Innermost /\ level = Len(inside) /\ instance = state.instance
      /\ dst \in State /\ src \in Place /\ left = 0
  BY <1>1, InvFacts DEF Settled, Leaving, TypeOK, Place, Entering
<1>3. IsPath(p, dst) /\ (p[Len(p)] # src => sup[p[Len(p)]] = Top)
  BY <1>2, BuildToTop, InvFacts
<1>4. Tree' /\ IsChain(inside)' /\ Innermost' = Innermost
  BY <1>1, InvFacts, ShapeKept
<1>5. Innermost \in State /\ Len(inside) <= Cardinality(State)
      /\ DepthMax \in Nat /\ Cardinality(State) \in Nat /\ Len(inside) \in Nat
  BY <1>2, InvFacts, InsideFacts
<1> HIDE DEF p
<1>6. p \in Seq(State) /\ Len(p) \in Nat /\ sup[p[Len(p)]] = Top
  BY <1>1, <1>3 DEF IsPath, Last
<1>7. Leaving'
  <2>1. IsPath(path, dst)' /\ (sup[path[Len(path)]] = Top)'
    BY <1>1, <1>3, <1>6 DEF IsPath
  <2>2. Innermost \in Abstract!Above(src)
    BY <1>1, <1>2, <1>5, AboveUp, InvFacts
  <2>3. Innermost' \in Abstract!Above(src)'
    BY <1>1, <1>4, <2>2, AboveKept
  <2>4. src' \in State /\ src' # dst'
    BY <1>1, <1>2, <1>5
  <2> QED
    BY <1>1, <2>1, <2>3, <2>4 DEF Leaving
<1>8. TypeOK'
  BY <1>1, <1>2, <1>5, <1>6, InvFacts DEF TypeOK
<1>9. Resting' /\ Settled' /\ Asking' /\ Counting' /\ Entering'
  BY <1>1, <1>2, <1>4, <1>5 DEF Resting, Settled, Asking, Counting, Entering
<1> QED
  BY <1>1, <1>4, <1>7, <1>8, <1>9, InvFacts DEF IInv, NoAssertFails

LEMMA LcaFoundInv == ASSUME IInv, LcaFound PROVE IInv'
<1> DEFINE n == Len(inside)
           m == Len(path) - n
           p == SubSeq(path, 1, Len(path) - level)
<1>1. /\ pc = "to_lca" /\ state # Top /\ level <= Len(path)
      /\ path[Len(path) - level + 1] = state
      /\ Enters(p, dst) /\ failed' = ~(cnt - 1 > 0) /\ cnt' = DepthMax
      /\ UNCHANGED <<sup, state, instance, level, src, redispatch, second, inside>>
  BY DEF LcaFound, IsLca, Require, hsmVars
<1>2. state = Innermost /\ level = n
  BY <1>1, InvFacts DEF Settled
<1>3. /\ path \in Seq(State) /\ Len(path) \in Nat /\ Len(path) > 0 /\ path[1] = dst
      /\ \A k \in 1 .. Len(path) - 1 : sup[path[k]] = path[k + 1]
      /\ dst \in State /\ \A k \in 1 .. Len(path) : path[k] \in State
  <2>1. IsPath(path, dst)
    BY <1>1, InvFacts DEF Leaving
  <2>2. Len(path) \in Nat /\ 1 \in 1 .. Len(path)
    BY <2>1 DEF IsPath
  <2> QED
    BY <2>1, <2>2 DEF IsPath
<1>4. /\ n \in Nat /\ n > 0 /\ n <= Cardinality(State) /\ DepthMax \in Nat
      /\ Cardinality(State) \in Nat /\ Cardinality(State) + 2 <= DepthMax
  BY <1>1, <1>2, InvFacts, InsideFacts
<1>5. cnt - 1 > 0
  <2>1. cnt + Cardinality(State) >= DepthMax + n /\ cnt \in 0 .. DepthMax
    BY <1>1, InvFacts DEF Counting, TypeOK
  <2> QED
    BY <1>4, <2>1
<1>6. failed' = FALSE
  BY <1>1, <1>5, Zenon
<1>7. IsChain(inside)' /\ Innermost' = Innermost
  BY <1>1, InvFacts, ShapeKept
<1>8. m \in 0 .. Len(path) - 1 /\ path[m + 1] = state /\ m = Len(path) - level
  BY <1>1, <1>2, <1>3, <1>4
<1> HIDE DEF m
<1>9. p \in Seq(State) /\ Len(p) = m /\ \A k \in 1 .. m : p[k] = path[k]
  <2>1. p = SubSeq(path, 1, m) /\ m \in Nat /\ m <= Len(path)
    BY <1>3, <1>8
  <2> HIDE DEF p
  <2> QED
    BY <1>3, <2>1, SubSeqProperties
<1> HIDE DEF p
<1>10. Leads(p, Innermost', dst)
  <2>1. CASE m = 0
    BY <1>2, <1>3, <1>7, <1>8, <1>9, <2>1 DEF Leads
  <2>2. CASE m # 0
    <3>1. m \in 1 .. m /\ 1 \in 1 .. m /\ m \in 1 .. Len(path) - 1
      BY <1>3, <1>8, <2>2
    <3>2. p[1] = dst /\ sup[p[m]] = state
      BY <1>3, <1>8, <1>9, <3>1
    <3>3. ASSUME NEW k \in 1 .. m - 1 PROVE sup[p[k]] = p[k + 1]
      <4>1. k \in 1 .. m /\ k + 1 \in 1 .. m /\ k \in 1 .. Len(path) - 1
        BY <1>3, <1>8, <3>3
      <4> QED
        BY <1>3, <1>9, <4>1
    <3> QED
      BY <1>2, <1>7, <1>9, <2>2, <3>2, <3>3 DEF Leads
  <2> QED
    BY <2>1, <2>2
<1>11. /\ src' \in Place /\ state' \in Place /\ instance' \in Instance \cup {0}
       /\ level' = Len(inside')
  BY <1>1, <1>2, InvFacts DEF Place, TypeOK
<1> QED
  BY <1>1, <1>3, <1>6, <1>7, <1>10, <1>11, EntersInv

LEMMA LcaIsTopInv == ASSUME IInv, LcaIsTop PROVE IInv'
<1>1. /\ pc = "to_lca" /\ state = Top /\ Enters(path, dst) /\ cnt' = DepthMax
      /\ UNCHANGED <<sup, state, instance, level, src, redispatch, second, inside, failed>>
  BY DEF LcaIsTop, hsmVars
<1>2. state = Innermost /\ level = Len(inside)
  BY <1>1, InvFacts DEF Settled
<1>3. IsPath(path, dst) /\ sup[path[Len(path)]] = Top
  BY <1>1, InvFacts DEF Leaving
<1>4. dst \in State /\ Len(path) > 0 /\ Len(path) \in Nat
  <2>1. Len(path) \in Nat /\ 1 \in 1 .. Len(path)
    BY <1>3 DEF IsPath
  <2> QED
    BY <1>3, <2>1 DEF IsPath
<1>5. IsChain(inside)' /\ Innermost' = Innermost
  BY <1>1, InvFacts, ShapeKept
<1>6. Leads(path, Innermost', dst)
  <2>1. /\ path \in Seq(State) /\ Len(path) # 0 /\ path[1] = dst
        /\ sup[path[Len(path)]] = Innermost'
        /\ \A k \in 1 .. Len(path) - 1 : sup[path[k]] = path[k + 1]
    <3>1. /\ path \in Seq(State) /\ path[1] = dst
          /\ \A k \in 1 .. Len(path) - 1 : sup[path[k]] = path[k + 1]
      BY <1>3 DEF IsPath
    <3>2. sup[path[Len(path)]] = Innermost'
      BY <1>1, <1>2, <1>3, <1>5
    <3> QED
      BY <1>4, <3>1, <3>2
  <2> QED
    BY <2>1 DEF Leads
<1>7. /\ src' \in Place /\ state' \in Place /\ instance' \in Instance \cup {0}
      /\ level' = Len(inside') /\ failed' = FALSE
  BY <1>1, <1>2, InvFacts DEF Place, TypeOK
<1> QED
  BY <1>1, <1>4, <1>5, <1>6, <1>7, EntersInv

LEMMA EnterInv == ASSUME IInv, Enter PROVE IInv'
<1> DEFINE n == Len(inside)
           s == path[left]
<1>1. /\ pc = "enter" /\ left > 0 /\ state' = s /\ instance' = s.instance
      /\ inside' = Append(inside, s) /\ left' = left - 1
      /\ UNCHANGED <<sup, level, pc, src, dst, path, cnt, redispatch, second, failed>>
  BY DEF Enter, SetState
<1>2. /\ path \in Seq(State) /\ Len(path) \in Nat /\ left \in 1 .. Len(path) /\ left \in Nat
      /\ \A k \in 1 .. Len(path) : path[k] \in State
  BY <1>1, InvFacts DEF TypeOK
<1>3. /\ dst \in State /\ level + Len(path) = n + left /\ path[1] = dst /\ sup[s] = Innermost
      /\ \A k \in 1 .. left - 1 : sup[path[k]] = path[k + 1]
  BY <1>1, InvFacts DEF Entering
<1>4. n \in Nat /\ inside \in Seq(State) /\ (inside = <<>> => Innermost = Top /\ n = 0)
      /\ (inside # <<>> => n > 0 /\ Innermost = inside[n])
  BY InvFacts, InsideFacts
<1>5. s \in State
  BY <1>2
<1> HIDE DEF s, n
<1>6. /\ inside' \in Seq(State) /\ Len(inside') = n + 1 /\ inside'[n + 1] = s
      /\ \A i \in 1 .. n : inside'[i] = inside[i]
  BY <1>1, <1>4, <1>5, AppendProperties DEF n
<1>7. IsChain(inside)'
  <2>1. \A i \in 1 .. n : sup[inside[i]] = IF i = 1 THEN Top ELSE inside[i - 1]
    BY InvFacts DEF IsChain, n
  <2>2. ASSUME NEW i \in 1 .. n + 1 PROVE sup[inside'[i]] = IF i = 1 THEN Top ELSE inside'[i - 1]
    <3>1. CASE i = n + 1
      BY <1>3, <1>4, <1>6, <3>1
    <3>2. CASE i # n + 1
      <4>1. i \in 1 .. n /\ (i # 1 => i - 1 \in 1 .. n)
        BY <1>4, <3>2
      <4> QED
        BY <1>6, <2>1, <4>1
    <3> QED
      BY <3>1, <3>2
  <2> QED
    BY <1>1, <1>6, <2>2 DEF IsChain
<1>8. Innermost' = s
  <2>1. inside' # <<>>
    BY <1>4, <1>6
  <2> QED
    BY <1>6, <2>1 DEF Innermost
<1>9. Entering'
  <2>1. level' + Len(path') = Len(inside') + left' /\ dst' \in State
    <3>1. level \in Nat
      BY InvFacts DEF TypeOK
    <3>2. level' = level /\ path' = path /\ left' = left - 1 /\ dst' = dst /\ n \in Nat
      BY <1>1, <1>4 DEF n
    <3>3. level + Len(path) = n + 1 + (left - 1)
      BY <1>2, <1>3, <3>1, <3>2
    <3> QED
      BY <1>3, <1>6, <3>2, <3>3
  <2>2. left' = 0 => Innermost' = dst'
    BY <1>1, <1>2, <1>3, <1>8 DEF s
  <2>3. ASSUME left' > 0 PROVE sup[path[left']] = Innermost'
    <3>1. left - 1 \in 1 .. left - 1 /\ (left - 1) + 1 = left
      BY <1>1, <1>2, <2>3
    <3> QED
      BY <1>1, <1>3, <1>8, <3>1 DEF s
  <2>4. \A k \in 1 .. left' - 1 : sup[path[k]] = path[k + 1]
    BY <1>1, <1>2, <1>3
  <2> QED
    BY <1>1, <1>3, <2>1, <2>2, <2>3, <2>4 DEF Entering
<1>10. Tree'
  BY <1>1, InvFacts, ShapeKept
<1>11. TypeOK'
  <2>1. left' \in 0 .. Len(path') /\ instance' \in Instance \cup {0} /\ state' \in State
    BY <1>1, <1>2, <1>5, PlaceInstance DEF Place
  <2> QED
    BY <1>1, <1>6, <2>1, InvFacts DEF TypeOK
<1>12. Resting' /\ Settled' /\ Asking' /\ Leaving' /\ Counting'
  BY <1>1, InvFacts DEF Resting, Settled, Asking, Leaving, Counting
<1> QED
  BY <1>1, <1>7, <1>9, <1>10, <1>11, <1>12, InvFacts DEF IInv, NoAssertFails

LEMMA EnteredInv == ASSUME IInv, Entered PROVE IInv'
<1>1. /\ pc = "enter" /\ left = 0 /\ level' = level + Len(path) /\ failed' = ~(level' <= DepthMax)
      /\ state' = dst /\ instance' = dst.instance /\ pc' = "init" /\ path' = <<>>
      /\ UNCHANGED <<sup, src, dst, left, cnt, redispatch, second, inside>>
  BY DEF Entered, Require, SetState
<1>2. dst \in State /\ Innermost = dst /\ level + Len(path) = Len(inside) + left
  BY <1>1, InvFacts DEF Entering
<1>3. /\ Len(inside) \in Nat /\ Len(inside) <= Cardinality(State) /\ Cardinality(State) \in Nat
      /\ DepthMax \in Nat /\ Cardinality(State) + 2 <= DepthMax
      /\ (inside = <<>> => Innermost = Top)
  BY InvFacts, InsideFacts
<1>4. level' = Len(inside) /\ level' \in 0 .. DepthMax /\ level' <= DepthMax
  BY <1>1, <1>2, <1>3
<1>5. failed' = FALSE
  BY <1>1, <1>4, Zenon
<1>6. Tree' /\ IsChain(inside)' /\ Innermost' = Innermost
  BY <1>1, InvFacts, ShapeKept
<1>7. instance' \in Instance \cup {0} /\ inside # <<>>
  BY <1>1, <1>2, <1>3, PlaceInstance, TopOutside DEF Place
<1>8. TypeOK'
  <2>1. path' \in Seq(State) /\ left' \in 0 .. Len(path')
    BY <1>1
  <2> QED
    BY <1>1, <1>2, <1>4, <1>5, <1>7, <2>1, InvFacts DEF TypeOK
<1>9. Resting' /\ Settled' /\ Asking' /\ Leaving' /\ Counting' /\ Entering'
  BY <1>1, <1>2, <1>4, <1>6, <1>7, InvFacts
     DEF Resting, Settled, Asking, Leaving, Counting, Entering
<1> QED
  BY <1>5, <1>6, <1>8, <1>9 DEF IInv, NoAssertFails

\* Where the INIT handler is, between entering and the next transition.
LEMMA InitFacts ==
  ASSUME IInv, pc = "init"
  PROVE  /\ dst = state /\ state = Innermost /\ level = Len(inside) /\ Len(inside) > 0
         /\ state \in State /\ inside # <<>> /\ Seen(state.fn) = state /\ left = 0
         /\ cnt = DepthMax
<1>1. dst = state /\ state = Innermost /\ level = Len(inside) /\ inside # <<>>
      /\ instance = state.instance
  BY InvFacts DEF Settled
<1>2. state \in State /\ Len(inside) > 0
  BY <1>1, InvFacts, InsideFacts
<1>3. Seen(state.fn) = state
  BY <1>1, <1>2, PlaceRecord DEF Seen, Place
<1> QED
  BY <1>1, <1>2, <1>3, InvFacts DEF Entering, Counting

LEMMA InitTranInv == ASSUME IInv, InitTran PROVE IInv'
<1>1. pc = "init" /\ src' = dst /\ state' = dst' /\ instance' = dst'.instance
      /\ UNCHANGED <<sup, level, cnt, redispatch, second, inside, failed>>
  BY DEF InitTran, SetState
<1>2. /\ dst = state /\ state = Innermost /\ level = Len(inside) /\ state \in State
      /\ Seen(state.fn) = state /\ cnt = DepthMax
  BY <1>1, InitFacts
<1>3. PICK d \in Substates(state) : Enters(Build(d, dst, Top), d)
  BY <1>2 DEF InitTran
<1>4. PICK k \in 1 .. DepthMax : d \in State /\ Climb(d)[k] = state
  BY <1>3 DEF Substates
<1> DEFINE p == Build(d, dst, Top)
<1>5. IsPath(p, d) /\ (p[Len(p)] = Top \/ sup[p[Len(p)]] = dst)
  <2>1. Climb(d)[k] = dst /\ dst \in Place /\ Top \in Place
    BY <1>2, <1>4 DEF Place
  <2> QED
    BY <1>4, <2>1, BuildPath, InvFacts
<1>6. Enters(p, d)
  BY <1>3
<1> HIDE DEF p
<1>7. Len(p) \in Nat /\ Len(p) > 0 /\ p[Len(p)] \in State
  BY <1>5 DEF IsPath
<1>8. IsChain(inside)' /\ Innermost' = Innermost
  BY <1>1, InvFacts, ShapeKept
<1>9. Leads(p, Innermost', d)
  <2>1. /\ p \in Seq(State) /\ p[1] = d
        /\ \A i \in 1 .. Len(p) - 1 : sup[p[i]] = p[i + 1]
    BY <1>5 DEF IsPath
  <2>2. sup[p[Len(p)]] = Innermost'
    BY <1>2, <1>5, <1>7, <1>8, TopOutside
  <2> QED
    BY <1>7, <2>1, <2>2 DEF Leads
<1>10. dst' = d
  BY <1>6 DEF Enters
<1>11. /\ src' \in Place /\ state' \in Place /\ instance' \in Instance \cup {0}
       /\ level' = Len(inside') /\ failed' = FALSE /\ cnt' = DepthMax
  BY <1>1, <1>2, <1>4, <1>10, PlaceInstance, InvFacts DEF Place
<1> QED
  BY <1>1, <1>4, <1>6, <1>8, <1>9, <1>11, EntersInv

LEMMA InitDoneInv == ASSUME IInv, InitDone PROVE IInv'
<1>1. /\ pc = "init" /\ state' = dst /\ instance' = dst.instance /\ dst' = Top
      /\ IF redispatch THEN pc' = "ask" /\ src' = dst ELSE pc' = "idle" /\ src' = Top
      /\ redispatch' = FALSE /\ second' = redispatch
      /\ UNCHANGED <<sup, level, path, left, cnt, inside, failed>>
  BY DEF InitDone, SetState, pathVars
<1>2. /\ dst = state /\ state = Innermost /\ level = Len(inside) /\ Len(inside) > 0
      /\ state \in State /\ inside # <<>> /\ left = 0 /\ cnt = DepthMax
  BY <1>1, InitFacts
<1>3. Tree' /\ IsChain(inside)' /\ Innermost' = Innermost
  BY <1>1, InvFacts, ShapeKept
<1>4. Len(inside) \in Nat /\ DepthMax \in Nat /\ Innermost = inside[Len(inside)]
  BY <1>2, InvFacts, InsideFacts
<1>5. Asking'
  <2>1. ASSUME pc' = "ask"
        PROVE  src' = inside'[Len(inside)] /\ Len(inside) \in 1 .. Len(inside')
               /\ cnt' = DepthMax - (Len(inside') - Len(inside))
    BY <1>1, <1>2, <1>4, <2>1
  <2> QED
    BY <2>1 DEF Asking
<1>6. TypeOK'
  <2>1. instance' \in Instance \cup {0} /\ redispatch \in BOOLEAN
    BY <1>1, <1>2, PlaceInstance, InvFacts DEF Place, TypeOK
  <2>2. pc' \in {"ask", "idle"} /\ src' \in State \cup {Top}
    BY <1>1, <1>2
  <2> QED
    BY <1>1, <1>2, <2>1, <2>2, InvFacts DEF TypeOK
<1>7. Resting' /\ Settled'
  BY <1>1, <1>2, <1>3 DEF Resting, Settled
<1>8. Leaving' /\ Counting' /\ Entering'
  BY <1>1, <1>2 DEF Leaving, Counting, Entering
<1> QED
  BY <1>1, <1>3, <1>5, <1>6, <1>7, <1>8, InvFacts DEF IInv, NoAssertFails

LEMMA NextInv == IInv /\ [Next]_vars => IInv'
<1> SUFFICES ASSUME IInv, [Next]_vars PROVE IInv'
  OBVIOUS
<1>1. CASE UNCHANGED vars
  <2>1. UNCHANGED <<sup, state, instance, level, pc, src, dst, path, left, cnt, redispatch,
                    second, inside, failed>>
    BY <1>1 DEF vars, hsmVars, pathVars
  <2>2. Tree' /\ IsChain(inside)' /\ Innermost' = Innermost
    BY <2>1, InvFacts, ShapeKept
  <2>3. TypeOK' /\ NoAssertFails'
    BY <2>1, InvFacts DEF TypeOK, NoAssertFails
  <2>4. Resting' /\ Settled' /\ Asking' /\ Entering' /\ Counting'
    BY <2>1, <2>2, InvFacts DEF Resting, Settled, Asking, Entering, Counting
  <2>5. Leaving'
    BY <2>1, <2>2, InvFacts, AboveKept DEF Leaving, IsPath
  <2> QED
    BY <2>2, <2>3, <2>4, <2>5 DEF IInv
<1>2. CASE InitHsm \/ Deinit \/ DeinitDone \/ Dispatch \/ AskHandled
  <2>1. UNCHANGED <<sup, path, left, inside>>
    BY <1>2 DEF InitHsm, Deinit, DeinitDone, Dispatch, AskHandled, pathVars
  <2> QED
    BY <1>2, <2>1, IdleInv
<1> QED
  BY <1>1, <1>2, StartInv, AskSuperInv, AskTranInv, ExitedInv, TranToSelfInv, TranDownInv,
     TranOutInv, LcaFoundInv, LcaIsTopInv, EnterInv, EnteredInv, InitTranInv, InitDoneInv
     DEF Next, RunToCompletion

LEMMA InductiveInv == Spec => []IInv
<1> QED
  BY InitInv, NextInv, PTL DEF Spec

\* In a tree of at most AM_HSM_HIERARCHY_DEPTH_MAX - 2 states, of any shape, no
\* assertion of hsm.c fails in any sequence of calls and of answers of the handlers.
THEOREM NoAssertFailsCorrect == Spec => []NoAssertFails
<1>1. IInv => NoAssertFails
  BY DEF IInv
<1> QED
  BY <1>1, InductiveInv, PTL

\* Every variable stays in the range of its C counterpart.
THEOREM TypeCorrect == Spec => []TypeOK
<1>1. IInv => TypeOK
  BY DEF IInv
<1> QED
  BY <1>1, InductiveInv, PTL

-----------------------------------------------------------------------------
(* Where the machine is                                                    *)

\* The loop of am_hsm_is_in goes from the active state out, and then stays at Top.
LEMMA VisitsInside ==
  ASSUME IInv, pc = "idle", \A s \in ToSet(inside) : s.instance = instance
  PROVE  /\ DOMAIN Visits = 0 .. DepthMax - 1
         /\ \A k \in 0 .. DepthMax - 1 :
              Visits[k] = IF k < Len(inside) THEN inside[Len(inside) - k] ELSE Top
<1> DEFINE n == Len(inside)
           D == DepthMax - 1
           Out(s) == IF s.fn = TopFn THEN Top ELSE Super(Seen(s.fn))
           g == [s \in Place |-> Out(s)]
           F(up) == [k \in 0 .. D |-> IF k = 0 THEN state ELSE Out(up[k - 1])]
           At(k) == IF k < n THEN inside[n - k] ELSE Top
<1>1. /\ n \in Nat /\ n > 0 /\ n < D /\ D \in Nat /\ state = inside[n] /\ state \in State
      /\ \A i \in 1 .. n : inside[i] \in State
  BY InvFacts, InsideFacts DEF Settled
<1>2. instance \in Instance
  BY <1>1, InvFacts DEF Settled, State
<1>3. \A s \in Place : s.fn = TopFn <=> s = Top
  BY HsmAssumption DEF Place, State, Top
<1>4. \A s \in State : Seen(s.fn) \in State
  BY <1>2 DEF Seen, State
<1>5. \A s \in Place : Out(s) \in Place
  BY <1>3, <1>4, SuperType, InvFacts DEF Place, Tree
<1>6. \A i \in 1 .. n : Out(inside[i]) = IF i = 1 THEN Top ELSE inside[i - 1]
  <2> SUFFICES ASSUME NEW i \in 1 .. n PROVE Out(inside[i]) = IF i = 1 THEN Top ELSE inside[i - 1]
    OBVIOUS
  <2>1. inside[i] \in State /\ inside[i].instance = instance
    BY <1>1, InvFacts DEF ToSet, IsChain
  <2>2. Seen(inside[i].fn) = inside[i] /\ inside[i] # Top /\ inside[i] \in Place
    BY <2>1, PlaceRecord, TopOutside DEF Seen, Place
  <2>3. Out(inside[i]) = sup[inside[i]]
    BY <1>3, <2>1, <2>2, SuperType, InvFacts
  <2> QED
    BY <2>3, InvFacts DEF IsChain
<1>7. Out(Top) = Top
  BY DEF Top
<1>8. PICK up \in [0 .. D -> Place] : Iterates(up, g, state, D)
  <2>1. g \in [Place -> Place] /\ state \in Place
    BY <1>1, <1>5 DEF Place
  <2> HIDE DEF g, D
  <2> QED
    BY <1>1, <2>1, IteratesExists
<1>9. F(up) = up
  <2>1. \A k \in 0 .. D : k # 0 => g[up[k - 1]] = Out(up[k - 1])
    <3> HIDE DEF Out
    <3> QED
      BY <1>1
  <2> HIDE DEF g, D, Out
  <2> QED
    BY <1>8, <2>1 DEF Iterates
<1>10. Visits = F(Visits)
  BY <1>9 DEF Visits
<1> DEFINE v == Visits
<1>11. v = [k \in 0 .. D |-> IF k = 0 THEN state ELSE Out(v[k - 1])]
  BY <1>10
<1> HIDE DEF v, Out, n, D
<1>12. \A k \in 0 .. D : v[k] = IF k = 0 THEN state ELSE Out(v[k - 1])
  BY <1>11
<1> DEFINE T == {k \in 0 .. D : v[k] = At(k)}
<1>13. 0 \in T
  BY <1>1, <1>12
<1>14. ASSUME NEW k \in 0 .. D - 1, k \in T PROVE k + 1 \in T
  <2>1. k + 1 \in 0 .. D /\ k + 1 # 0 /\ v[k + 1] = Out(v[k])
    <3>1. k + 1 \in 0 .. D /\ k + 1 # 0 /\ (k + 1) - 1 = k
      BY <1>1
    <3> QED
      BY <1>12, <3>1
  <2>2. v[k + 1] = Out(At(k))
    BY <1>14, <2>1
  <2>3. CASE k < n
    <3>1. n - k \in 1 .. n /\ (n - k = 1 <=> ~(k + 1 < n)) /\ (n - k) - 1 = n - (k + 1)
      BY <1>1, <2>3
    <3> QED
      BY <1>6, <2>1, <2>2, <2>3, <3>1
  <2>4. CASE ~(k < n)
    <3>1. ~(k + 1 < n)
      BY <1>1, <2>4
    <3> QED
      BY <1>7, <2>1, <2>2, <2>4, <3>1
  <2> QED
    BY <2>3, <2>4
<1> HIDE DEF T
<1>15. 0 .. D \subseteq T
  BY <1>1, <1>13, <1>14, Induction
<1>16. \A k \in 0 .. D : v[k] = At(k)
  BY <1>15 DEF T
<1>17. DOMAIN v = 0 .. D
  BY <1>11
<1> QED
  BY <1>16, <1>17 DEF v, D, n

\* The state, its instance and its level are those of the innermost state entered;
\* the entered states are a line of the tree, and am_hsm_is_in names these only.
THEOREM PlaceCorrect == Spec => []PlaceExact
<1>1. ASSUME IInv PROVE PlaceExact
  <2> DEFINE n == Len(inside)
  <2>1. /\ n \in Nat /\ \A i \in 1 .. n : inside[i] \in State
        /\ inside # <<>> => Innermost = inside[n]
    BY <1>1, InvFacts, InsideFacts
  <2>2. pc \in {"gone", "new"} => inside = <<>> /\ state = Top /\ level = 0
    BY <1>1, InvFacts DEF Resting
  <2>3. pc \in {"idle", "init"} =>
          /\ inside # <<>> /\ state = Last(inside) /\ instance = state.instance
          /\ level = Len(inside)
    BY <1>1, <2>1, InvFacts DEF Settled, Last
  <2>4. \A i \in DOMAIN inside : sup[inside[i]] = IF i = 1 THEN Top ELSE inside[i - 1]
    BY <1>1, InvFacts DEF IsChain
  <2>5. ASSUME pc = "idle", \A s \in ToSet(inside) : s.instance = instance, NEW s \in State
        PROVE  IsIn(s) <=> s \in ToSet(inside)
    <3>1. /\ DOMAIN Visits = 0 .. DepthMax - 1
          /\ \A k \in 0 .. DepthMax - 1 : Visits[k] = IF k < n THEN inside[n - k] ELSE Top
      BY <1>1, <2>5, VisitsInside
    <3>2. DOMAIN inside = 1 .. n /\ n < DepthMax - 1 /\ DepthMax \in Nat
      BY <1>1, InvFacts, InsideFacts DEF IsChain
    <3> HIDE DEF n
    <3>3. ASSUME NEW k \in 0 .. DepthMax - 1, Visits[k] = s PROVE s \in ToSet(inside)
      <4>1. k < n /\ s = inside[n - k]
        BY <3>1, <3>3, TopOutside
      <4>2. n - k \in 1 .. n
        BY <2>1, <4>1
      <4> QED
        BY <3>2, <4>1, <4>2 DEF ToSet
    <3>4. ASSUME NEW i \in 1 .. n, s = inside[i] PROVE IsIn(s)
      <4>1. n - i \in 0 .. DepthMax - 1 /\ n - i < n /\ n - (n - i) = i
        BY <2>1, <3>2
      <4>2. Visits[n - i] = s
        BY <3>1, <3>4, <4>1
      <4> QED
        BY <3>1, <4>1, <4>2 DEF IsIn
    <3> QED
      BY <3>1, <3>2, <3>3, <3>4 DEF IsIn, ToSet
  <2> QED
    BY <2>2, <2>3, <2>4, <2>5 DEF PlaceExact
<1> QED
  BY <1>1, InductiveInv, PTL

-----------------------------------------------------------------------------
(* The machine implements HsmAbs                                           *)

\* A path goes up the chain that ends where it begins.
LEMMA PathInChain ==
  ASSUME Tree, NEW c, IsChain(c), Len(c) > 0, NEW p, IsPath(p, c[Len(c)])
  PROVE  \A k \in 1 .. Len(p) : k <= Len(c) /\ p[k] = c[Len(c) - k + 1]
<1> DEFINE m == Len(c)
           n == Len(p)
           T == {k \in Nat : k + 1 <= n => k + 1 <= m /\ p[k + 1] = c[m - k]}
<1>1. /\ m \in Nat /\ m > 0
      /\ \A i \in 1 .. m : sup[c[i]] = IF i = 1 THEN Top ELSE c[i - 1]
  BY DEF IsChain
<1>2. /\ n \in Nat /\ n > 0 /\ p[1] = c[m] /\ \A k \in 1 .. n : p[k] \in State
      /\ \A k \in 1 .. n - 1 : sup[p[k]] = p[k + 1]
  BY DEF IsPath
<1> HIDE DEF m, n
<1>3. 0 \in T
  BY <1>1, <1>2
<1>4. ASSUME NEW k \in 0 .. n - 1, k \in T PROVE k + 1 \in T
  <2> SUFFICES ASSUME k + 1 + 1 <= n PROVE k + 1 + 1 <= m /\ p[k + 1 + 1] = c[m - (k + 1)]
    BY <1>2
  <2>1. k + 1 <= m /\ p[k + 1] = c[m - k] /\ m - k \in 1 .. m
    BY <1>1, <1>2, <1>4
  <2>2. sup[c[m - k]] = p[k + 1 + 1] /\ p[k + 1 + 1] \in State
    <3>1. k + 1 \in 1 .. n - 1 /\ k + 1 + 1 \in 1 .. n
      BY <1>2
    <3> QED
      BY <1>2, <2>1, <3>1
  <2>3. m - k # 1
    BY <1>1, <2>1, <2>2, TopOutside
  <2> QED
    BY <1>1, <2>1, <2>2, <2>3
<1> HIDE DEF T
<1>5. 0 .. n \subseteq T
  BY <1>2, <1>3, <1>4, Induction
<1>6. ASSUME NEW k \in 1 .. n PROVE k <= m /\ p[k] = c[m - k + 1]
  <2>1. k - 1 \in 0 .. n /\ (k - 1) + 1 = k /\ m - (k - 1) = m - k + 1
    BY <1>1, <1>2
  <2>2. k - 1 \in T
    BY <1>5, <2>1
  <2> QED
    BY <2>1, <2>2 DEF T
<1> QED
  BY <1>6 DEF m, n

\* It goes through superstates only, and leads on to none of its own states.
LEMMA PathAbove ==
  ASSUME Tree, NEW s \in State, NEW p, IsPath(p, s)
  PROVE  \A k \in 1 .. Len(p) :
           p[k] \in Abstract!Above(s) /\ sup[p[k]] \in Place /\ sup[p[k]] # s
<1>1. PICK c : IsChain(c) /\ Len(c) > 0 /\ c[Len(c)] = s
  BY ChainOf
<1>2. Abstract!Above(s) = {c[i] : i \in 1 .. Len(c)}
  BY <1>1, AboveChain
<1>3. \A k \in 1 .. Len(p) : k <= Len(c) /\ p[k] = c[Len(c) - k + 1]
  BY <1>1, PathInChain
<1>4. Len(c) \in Nat /\ \A i \in 1 .. Len(c) : c[i] \in State /\ sup[c[i]] = IF i = 1 THEN Top ELSE c[i - 1]
  BY <1>1 DEF IsChain
<1>5. ASSUME NEW k \in 1 .. Len(p)
      PROVE  p[k] \in Abstract!Above(s) /\ sup[p[k]] \in Place /\ sup[p[k]] # s
  <2> DEFINE i == Len(c) - k + 1
  <2>1. i \in 1 .. Len(c) /\ p[k] = c[i] /\ i - 1 < Len(c)
    BY <1>3, <1>4
  <2> HIDE DEF i
  <2>2. p[k] \in State /\ sup[p[k]] = IF i = 1 THEN Top ELSE c[i - 1]
    BY <1>4, <2>1
  <2>3. sup[p[k]] # s
    <3>1. CASE i = 1
      BY <2>2, <3>1, TopOutside
    <3>2. CASE i # 1
      <4>1. i - 1 \in 1 .. Len(c) /\ Len(c) \in 1 .. Len(c) /\ i - 1 # Len(c)
        BY <1>4, <2>1, <3>2
      <4>2. c[i - 1] # c[Len(c)]
        BY <1>1, <4>1, ChainsMeet
      <4> QED
        BY <1>1, <2>2, <3>2, <4>2
    <3> QED
      BY <3>1, <3>2
  <2> QED
    BY <1>2, <2>1, <2>2, <2>3 DEF Tree
<1> QED
  BY <1>5

\* The states above one that was entered were entered before it.
LEMMA AboveInside ==
  ASSUME Tree, IsChain(inside), NEW j \in 1 .. Len(inside)
  PROVE  Abstract!Above(inside[j]) = {inside[i] : i \in 1 .. j}
<1> DEFINE c == SubSeq(inside, 1, j)
<1>1. inside \in Seq(State) /\ Len(inside) \in Nat
      /\ \A i \in 1 .. Len(inside) : sup[inside[i]] = IF i = 1 THEN Top ELSE inside[i - 1]
  BY DEF IsChain
<1>2. c \in Seq(State) /\ Len(c) = j /\ \A i \in 1 .. j : c[i] = inside[i]
  <2>1. j \in Nat /\ j <= Len(inside)
    BY <1>1
  <2> QED
    BY <1>1, <2>1, SubSeqProperties
<1> HIDE DEF c
<1>3. IsChain(c)
  BY <1>1, <1>2 DEF IsChain
<1>4. Abstract!Above(c[Len(c)]) = {c[i] : i \in 1 .. Len(c)}
  <2>1. Len(c) > 0
    BY <1>1, <1>2
  <2> QED
    BY <1>3, <2>1, AboveChain
<1>5. c[Len(c)] = inside[j] /\ {c[i] : i \in 1 .. Len(c)} = {inside[i] : i \in 1 .. j}
  BY <1>1, <1>2
<1> QED
  BY <1>4, <1>5

LEMMA AbsInnermost ==
  Abstract!Innermost = Innermost /\ Abstract!Innermost' = Innermost'
<1>1. Abstract!Innermost = Innermost
  BY DEF Abstract!Innermost, Abstract!Last, Innermost
<1>2. Abstract!Innermost' = Innermost'
  BY DEF Abstract!Innermost, Abstract!Last, Innermost
<1> QED
  BY <1>1, <1>2

\* The handler that is asked takes itself for the state that it is asked as.
LEMMA SeenSource == IInv => (pc = "ask" => Seen(src.fn) = src)
<1> SUFFICES ASSUME IInv, pc = "ask" PROVE Seen(src.fn) = src
  OBVIOUS
<1>1. instance = src.instance /\ src \in Place
  BY InvFacts DEF Settled, TypeOK, Place
<1> QED
  BY <1>1, PlaceRecord DEF Seen

LEMMA SeenSourceNext == IInv' => (pc = "ask" => Seen(src.fn) = src)'
BY SeenSource, PTL

\* Calls, and the offer of an event from state to state.
LEMMA CallRefines ==
  ASSUME IInv, IInv',
         InitHsm \/ Start \/ Deinit \/ DeinitDone \/ Dispatch \/ AskSuper \/ AskHandled \/ AskTran
  PROVE  [Abstract!Next]_(Abstract!vars)
<1>1. /\ pc = "ask" => Seen(src.fn) = src
      /\ pc' = "ask" => Seen(src.fn)' = src'
  BY SeenSource, SeenSourceNext
<1>2. Abstract!Innermost = Innermost
  BY AbsInnermost
<1>3. CASE InitHsm
  <2>1. pc = "gone" /\ pc' = "new" /\ UNCHANGED <<sup, inside, src, dst, redispatch>>
    BY <1>3 DEF InitHsm
  <2> QED
    BY <2>1 DEF Abstract!vars
<1>4. CASE Start
  <2>1. pc = "new" /\ pc' = "enter" /\ dst' \in State /\ UNCHANGED <<sup, inside, src, redispatch>>
    BY <1>4 DEF Start, Enters
  <2>2. Abstract!Start
    BY <2>1 DEF Abstract!Start
  <2> QED
    BY <2>2 DEF Abstract!Next
<1>5. CASE Deinit
  <2>1. UNCHANGED <<sup, inside, src, dst, redispatch>>
    BY <1>5 DEF Deinit
  <2>2. CASE pc = "idle" /\ pc' = "deinit"
    <3>1. Abstract!Stop
      BY <2>1, <2>2 DEF Abstract!Stop
    <3> QED
      BY <3>1 DEF Abstract!Next
  <2>3. CASE pc = "new" /\ pc' = "gone"
    BY <2>1, <2>3 DEF Abstract!vars
  <2> QED
    BY <1>5, <2>2, <2>3 DEF Deinit
<1>6. CASE DeinitDone
  <2>1. pc = "deinit" /\ state = Top /\ pc' = "gone"
        /\ UNCHANGED <<sup, inside, src, dst, redispatch>>
    BY <1>6 DEF DeinitDone
  <2>2. inside = <<>>
    BY <2>1, InvFacts, InsideFacts DEF Settled
  <2>3. Abstract!Stopped
    BY <2>1, <2>2 DEF Abstract!Stopped
  <2> QED
    BY <2>3 DEF Abstract!Next
<1>7. CASE Dispatch
  <2>1. pc = "idle" /\ pc' = "ask" /\ src' = state /\ UNCHANGED <<sup, inside, dst, redispatch>>
    BY <1>7 DEF Dispatch
  <2>2. Seen(src.fn)' = Abstract!Innermost
    BY <1>1, <1>2, <2>1, InvFacts DEF Settled
  <2>3. Abstract!Dispatch
    BY <2>1, <2>2 DEF Abstract!Dispatch
  <2> QED
    BY <2>3 DEF Abstract!Next
<1>8. CASE AskSuper
  <2>1. pc = "ask" /\ pc' = "ask" /\ src # Top /\ src' = Super(Seen(src.fn))
        /\ UNCHANGED <<sup, inside, dst, redispatch>>
    BY <1>8 DEF AskSuper, Asked
  <2>2. Seen(src.fn)' = sup[Seen(src.fn)] /\ Seen(src.fn) # Top
    BY <1>1, <2>1 DEF Super
  <2>3. Abstract!Super
    BY <2>1, <2>2 DEF Abstract!Super
  <2> QED
    BY <2>3 DEF Abstract!Next
<1>9. CASE AskHandled
  <2>1. pc = "ask" /\ pc' = "idle" /\ src' = Top /\ UNCHANGED <<sup, inside, dst, redispatch>>
    BY <1>9 DEF AskHandled, Asked
  <2>2. Abstract!Handled
    BY <2>1 DEF Abstract!Handled
  <2> QED
    BY <2>2 DEF Abstract!Next
<1>10. CASE AskTran
  <2>1. pc = "ask" /\ pc' = "to_src" /\ src # Top /\ dst' \in State /\ redispatch' \in BOOLEAN
        /\ UNCHANGED <<sup, inside, src>>
    BY <1>10 DEF AskTran, Asked
  <2>2. Seen(src.fn) = src
    BY <1>1, <2>1
  <2>3. Abstract!Tran
    BY <2>1, <2>2 DEF Abstract!Tran
  <2> QED
    BY <2>3 DEF Abstract!Next
<1> QED
  BY <1>3, <1>4, <1>5, <1>6, <1>7, <1>8, <1>9, <1>10

\* The exits of a transition leave a state that does not contain both its ends.
LEMMA ExitRefines ==
  ASSUME IInv, DeinitExits \/ ExitToSrc \/ ExitToLca
  PROVE  [Abstract!Next]_(Abstract!vars)
<1> DEFINE n == Len(inside)
<1>1. /\ ExitState /\ pc \in {"deinit", "to_src", "to_lca"}
      /\ UNCHANGED <<sup, pc, src, dst, redispatch>>
  BY DEF DeinitExits, ExitToSrc, ExitToLca, ExitCounted
<1>2. state = Innermost /\ instance = state.instance /\ level = n /\ Abstract!Innermost = Innermost
  BY <1>1, InvFacts, AbsInnermost DEF Settled
<1>3. inside # <<>>
  BY <1>1, <1>2, InvFacts, InsideFacts DEF DeinitExits, ExitToSrc, ExitToLca, Settled
<1>4. inside' = Abstract!Front(inside)
  <2>1. inside' = Front(inside)
    BY <1>1, <1>2, <1>3, Exits, InvFacts
  <2> QED
    BY <2>1 DEF Front, Abstract!Front
<1>5. n \in Nat /\ n > 0 /\ state = inside[n] /\ state \in State
  BY <1>2, <1>3, InvFacts, InsideFacts
<1>6. CASE pc = "deinit"
  <2>1. Abstract!Leave
    BY <1>1, <1>3, <1>4, <1>6 DEF Abstract!Leave
  <2> QED
    BY <2>1 DEF Abstract!Next
<1>7. CASE pc = "to_src"
  <2>1. state # src
    BY <1>7 DEF DeinitExits, ExitToSrc, ExitToLca
  <2>2. PICK j \in 1 .. n : src = inside[j]
    BY <1>7, InvFacts DEF Leaving
  <2>3. Abstract!Above(src) = {inside[i] : i \in 1 .. j}
    BY <2>2, AboveInside, InvFacts
  <2>4. state \notin Abstract!Above(src)
    <3> SUFFICES ASSUME NEW i \in 1 .. j, inside[n] = inside[i] PROVE FALSE
      BY <1>5, <2>3
    <3>1. i \in 1 .. n /\ n \in 1 .. n /\ j # n
      BY <1>5, <2>1, <2>2
    <3>2. n = i
      BY <3>1, ChainsMeet, InvFacts
    <3> QED
      BY <1>5, <3>1, <3>2
  <2>5. ~Abstract!Left
    BY <1>2, <1>5, <1>7, <2>4, TopOutside DEF Abstract!Left, Abstract!Kept
  <2>6. Abstract!Leave
    BY <1>1, <1>3, <1>4, <1>7, <2>5 DEF Abstract!Leave
  <2> QED
    BY <2>6 DEF Abstract!Next
<1>8. CASE pc = "to_lca"
  <2>1. ~IsLca
    BY <1>8 DEF DeinitExits, ExitToSrc, ExitToLca
  <2>2. src # dst /\ IsPath(path, dst) /\ sup[path[Len(path)]] = Top
    BY <1>8, InvFacts DEF Leaving
  <2>3. PICK c : /\ IsChain(c) /\ Len(c) = Len(path) /\ c[Len(c)] = dst
                 /\ \A i \in 1 .. Len(path) : c[i] = path[Len(path) - i + 1]
    BY <2>2, PathChain, InvFacts
  <2>4. Len(path) \in Nat /\ Len(path) > 0
    BY <2>2 DEF IsPath
  <2>5. Abstract!Above(dst) = {c[i] : i \in 1 .. Len(c)}
    BY <2>3, <2>4, AboveChain, InvFacts
  <2>6. state \notin Abstract!Above(dst)
    <3> SUFFICES ASSUME NEW i \in 1 .. Len(c), inside[n] = c[i] PROVE FALSE
      BY <1>5, <2>5
    <3>1. n \in 1 .. n
      BY <1>5
    <3>2. n = i
      BY <2>3, <3>1, ChainsMeet, InvFacts
    <3>3. level <= Len(path) /\ path[Len(path) - level + 1] = state
      BY <1>2, <1>5, <2>3, <3>2
    <3> QED
      BY <2>1, <3>3 DEF IsLca
  <2>7. ~Abstract!Left
    BY <1>2, <1>5, <1>8, <2>2, <2>6, TopOutside DEF Abstract!Left, Abstract!Kept
  <2>8. Abstract!Leave
    BY <1>1, <1>3, <1>4, <1>8, <2>7 DEF Abstract!Leave
  <2> QED
    BY <2>8 DEF Abstract!Next
<1> QED
  BY <1>1, <1>6, <1>7, <1>8

\* A transition stops leaving states where the common superstates begin.
LEMMA TurnRefines ==
  ASSUME IInv, TranToSelf \/ TranDown \/ TranOut \/ LcaFound \/ LcaIsTop
  PROVE  [Abstract!Next]_(Abstract!vars)
<1>1. Abstract!Innermost = Innermost /\ Abstract!Innermost' = Innermost'
  BY AbsInnermost
<1>2. pc = "to_src" => dst \in State /\ state = Innermost /\ inside # <<>> /\ instance = state.instance
  BY InvFacts DEF Leaving, Settled
<1>3. pc = "to_lca" =>
        /\ src # dst /\ src \in State /\ IsPath(path, dst) /\ state = Innermost /\ level = Len(inside)
        /\ inside # <<>> => Innermost \in Abstract!Above(src)
  BY InvFacts DEF Leaving, Settled
<1>4. CASE TranToSelf
  <2>1. pc = "to_src" /\ state = src /\ src = dst /\ ExitState /\ pc' = "enter" /\ dst' = dst
        /\ UNCHANGED <<sup, src, redispatch>>
    BY <1>4 DEF TranToSelf, Enters
  <2>2. /\ inside' = Front(inside) /\ state' = sup[state] /\ Innermost' = state' /\ state' \in Place
    BY <1>2, <2>1, Exits, InvFacts
  <2>3. inside' = Abstract!Front(inside)
    BY <2>2 DEF Front, Abstract!Front
  <2>4. dst \in State /\ dst # Top
    BY <1>2, <2>1, TopOutside
  <2>5. dst \in Abstract!Above(dst) /\ (sup[dst] # Top => sup[dst] \in Abstract!Above(dst))
    BY <2>4, AboveUp, InvFacts
  <2>6. sup[dst] # dst
    <3>1. <<dst>> \in Seq(State) /\ Len(<<dst>>) = 1 /\ <<dst>>[1] = dst
      BY <2>4
    <3>2. IsPath(<<dst>>, dst)
      BY <3>1 DEF IsPath
    <3> QED
      BY <2>4, <3>1, <3>2, PathAbove, InvFacts
  <2>7. ~Abstract!Left
    BY <1>1, <1>2, <2>1, <2>4 DEF Abstract!Left, Abstract!Kept
  <2>8. Abstract!Above(dst)' = Abstract!Above(dst)
    BY <2>1 DEF Abstract!Above
  <2>9. Abstract!Left'
    BY <1>1, <2>1, <2>2, <2>5, <2>6, <2>8 DEF Abstract!Left, Abstract!Kept
  <2>10. Abstract!Leave
    BY <1>2, <2>1, <2>3, <2>7, <2>9 DEF Abstract!Leave
  <2> QED
    BY <2>10 DEF Abstract!Next
<1>5. CASE TranDown
  <2> DEFINE p == Build(dst, Top, src)
  <2>1. pc = "to_src" /\ state = src /\ src # dst /\ Last(p) = src /\ pc' = "enter" /\ dst' = dst
        /\ UNCHANGED <<sup, src, redispatch, inside>>
    BY <1>5 DEF TranDown, Enters
  <2>2. Innermost \in State /\ src \in Place
    BY <1>2, <2>1, InvFacts, InsideFacts DEF Place
  <2>3. IsPath(p, dst)
    BY <1>2, <2>1, <2>2, BuildToTop, InvFacts
  <2> HIDE DEF p
  <2>4. Len(p) \in 1 .. Len(p) /\ p[Len(p)] = src
    BY <2>1, <2>3 DEF IsPath, Last
  <2>5. src \in Abstract!Above(dst)
    BY <1>2, <2>1, <2>3, <2>4, PathAbove, InvFacts
  <2>6. src \in Abstract!Above(src)
    BY <1>2, <2>1, <2>2, AboveUp, InvFacts
  <2>7. Abstract!Left
    BY <1>1, <1>2, <2>1, <2>5, <2>6 DEF Abstract!Left, Abstract!Kept
  <2>8. Abstract!Turn
    BY <2>1, <2>7 DEF Abstract!Turn
  <2> QED
    BY <2>8 DEF Abstract!Next
<1>6. CASE TranOut
  <2>1. pc = "to_src" /\ pc' = "to_lca" /\ UNCHANGED <<sup, inside, src, dst, redispatch>>
    BY <1>6 DEF TranOut
  <2> QED
    BY <2>1 DEF Abstract!vars
<1>7. CASE LcaFound
  <2>1. pc = "to_lca" /\ pc' = "enter" /\ dst' = dst /\ state # Top
        /\ level <= Len(path) /\ path[Len(path) - level + 1] = state
        /\ UNCHANGED <<sup, src, redispatch, inside>>
    BY <1>7 DEF LcaFound, IsLca, Enters
  <2>2. Len(inside) \in Nat /\ Len(inside) > 0 /\ inside # <<>>
    BY <1>3, <2>1, InvFacts, InsideFacts
  <2>3. dst \in State /\ Len(path) \in Nat
    <3>1. Len(path) \in Nat /\ 1 \in 1 .. Len(path)
      BY <1>3, <2>1 DEF IsPath
    <3> QED
      BY <1>3, <2>1, <3>1 DEF IsPath
  <2>4. Len(path) - level + 1 \in 1 .. Len(path)
    BY <1>3, <2>1, <2>2, <2>3
  <2>5. state \in Abstract!Above(dst)
    BY <1>3, <2>1, <2>3, <2>4, PathAbove, InvFacts
  <2>6. Abstract!Left
    BY <1>1, <1>3, <2>1, <2>2, <2>5 DEF Abstract!Left, Abstract!Kept
  <2>7. Abstract!Turn
    BY <2>1, <2>6 DEF Abstract!Turn
  <2> QED
    BY <2>7 DEF Abstract!Next
<1>8. CASE LcaIsTop
  <2>1. pc = "to_lca" /\ pc' = "enter" /\ dst' = dst /\ state = Top
        /\ UNCHANGED <<sup, src, redispatch, inside>>
    BY <1>8 DEF LcaIsTop, Enters
  <2>2. Abstract!Left
    BY <1>1, <1>3, <2>1 DEF Abstract!Left
  <2>3. Abstract!Turn
    BY <2>1, <2>2 DEF Abstract!Turn
  <2> QED
    BY <2>3 DEF Abstract!Next
<1> QED
  BY <1>4, <1>5, <1>6, <1>7, <1>8

\* Each step on the path is into a state above the destination.
LEMMA EntersRefines ==
  ASSUME IInv, IInv', Enter \/ Entered \/ InitTran \/ InitDone
  PROVE  [Abstract!Next]_(Abstract!vars)
<1>1. Abstract!Innermost = Innermost
  BY AbsInnermost
<1>2. CASE Enter
  <2> DEFINE q == SubSeq(path, 1, left)
  <2>1. pc = "enter" /\ left > 0 /\ inside' = Append(inside, path[left])
        /\ UNCHANGED <<sup, pc, src, dst, redispatch>>
    BY <1>2 DEF Enter
  <2>2. /\ dst \in State /\ path[1] = dst /\ sup[path[left]] = Innermost
        /\ \A k \in 1 .. left - 1 : sup[path[k]] = path[k + 1]
    BY <2>1, InvFacts DEF Entering
  <2>3. left \in 1 .. Len(path) /\ Len(path) \in Nat /\ path \in Seq(State)
    BY <2>1, InvFacts DEF TypeOK
  <2>4. q \in Seq(State) /\ Len(q) = left /\ \A k \in 1 .. left : q[k] = path[k]
    <3>1. left \in Nat /\ left <= Len(path)
      BY <2>3
    <3> QED
      BY <2>3, <3>1, SubSeqProperties
  <2> HIDE DEF q
  <2>5. IsPath(q, dst)
    BY <2>1, <2>2, <2>3, <2>4 DEF IsPath
  <2>6. q[left] \in Abstract!Above(dst) /\ sup[q[left]] # dst /\ left \in 1 .. left
    BY <2>1, <2>2, <2>3, <2>4, <2>5, PathAbove, InvFacts
  <2>7. path[left] \in Abstract!Above(dst) /\ Innermost # dst
    BY <2>2, <2>4, <2>6
  <2>8. Abstract!Enter
    BY <1>1, <2>1, <2>2, <2>7 DEF Abstract!Enter
  <2> QED
    BY <2>8 DEF Abstract!Next
<1>3. CASE Entered
  <2>1. pc = "enter" /\ pc' = "init" /\ UNCHANGED <<sup, inside, src, dst, redispatch>>
    BY <1>3 DEF Entered
  <2> QED
    BY <2>1 DEF Abstract!vars
<1>4. CASE InitTran
  <2>1. pc = "init" /\ src' = dst /\ UNCHANGED <<sup, redispatch, inside>>
    BY <1>4 DEF InitTran
  <2>2. dst = state /\ state = Innermost /\ state \in State /\ Seen(state.fn) = state
    BY <2>1, InitFacts
  <2>3. PICK d \in Substates(state) : Enters(Build(d, dst, Top), d)
    BY <1>4, <2>2 DEF InitTran
  <2>4. PICK k \in 1 .. DepthMax : d \in State /\ d # state /\ Climb(d)[k] = dst
    BY <2>2, <2>3 DEF Substates
  <2> DEFINE p == Build(d, dst, Top)
  <2>5. IsPath(p, d) /\ (p[Len(p)] = Top \/ sup[p[Len(p)]] = dst)
    <3>1. dst \in Place /\ Top \in Place
      BY <2>2 DEF Place
    <3> QED
      BY <2>4, <3>1, BuildPath, InvFacts
  <2>6. pc' = "enter" /\ dst' = d
    BY <2>3 DEF Enters
  <2> HIDE DEF p
  <2>7. Len(p) \in 1 .. Len(p) /\ p[Len(p)] \in State
    BY <2>5 DEF IsPath
  <2>8. p[Len(p)] \in Abstract!Above(d)
    BY <2>4, <2>5, <2>7, PathAbove, InvFacts
  <2>9. dst \in Abstract!Above(d)
    BY <2>2, <2>4, <2>5, <2>7, <2>8, AboveUp, TopOutside, InvFacts
  <2>10. d \in Abstract!Below(dst)
    BY <2>2, <2>4, <2>9 DEF Abstract!Below
  <2>11. Abstract!InitTran
    BY <1>1, <2>1, <2>2, <2>6, <2>10 DEF Abstract!InitTran
  <2> QED
    BY <2>11 DEF Abstract!Next
<1>5. CASE InitDone
  <2>1. /\ pc = "init" /\ dst' = Top /\ redispatch' = FALSE /\ UNCHANGED <<sup, inside>>
        /\ IF redispatch THEN pc' = "ask" /\ src' = dst ELSE pc' = "idle" /\ src' = Top
    BY <1>5 DEF InitDone
  <2>2. dst = Innermost
    BY <2>1, InitFacts
  <2>3. pc' = "ask" => Seen(src.fn)' = src'
    BY SeenSourceNext
  <2>4. Abstract!Settle
    BY <1>1, <2>1, <2>2, <2>3 DEF Abstract!Settle
  <2> QED
    BY <2>4 DEF Abstract!Next
<1> QED
  BY <1>2, <1>3, <1>4, <1>5

LEMMA NextRefines ==
  IInv /\ IInv' /\ [Next]_vars => [Abstract!Next]_(Abstract!vars)
<1> SUFFICES ASSUME IInv, IInv', [Next]_vars PROVE [Abstract!Next]_(Abstract!vars)
  OBVIOUS
<1>1. CASE UNCHANGED vars
  <2>1. UNCHANGED <<sup, instance, pc, src, dst, redispatch, inside>>
    BY <1>1 DEF vars, hsmVars
  <2>2. Seen(src.fn)' = Seen(src.fn)
    BY <2>1 DEF Seen
  <2> QED
    BY <2>1, <2>2 DEF Abstract!vars
<1> QED
  BY <1>1, CallRefines, ExitRefines, TurnRefines, EntersRefines DEF Next, RunToCompletion

\* Whatever the tree and the handlers' answers, the machine offers events, leaves and
\* enters states and takes initial transitions as the abstract machine does.
THEOREM Refinement == Spec => Refines
<1>1. Init => Abstract!Init
  <2> SUFFICES ASSUME Init PROVE Abstract!Init
    OBVIOUS
  <2>1. /\ pc = "gone" /\ src = Top /\ dst = Top /\ redispatch = FALSE /\ inside = <<>>
    BY DEF Init, InitWith
  <2> QED
    BY <2>1 DEF Abstract!Init
<1> QED
  BY <1>1, InductiveInv, NextRefines, PTL DEF Spec, Refines, Abstract!Spec

=============================================================================
