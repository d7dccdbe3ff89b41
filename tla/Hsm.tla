---------------------------------- MODULE Hsm ----------------------------------
(***************************************************************************)
(* The hierarchical state machine (libs/hsm/hsm.c).  Every call of a state *)
(* handler is an action, and so are the steps between two loops of calls.  *)
(* Handlers are the user's: they answer a user event, an INIT event and    *)
(* the initial event in any way that hsm.h allows, in every tree of        *)
(* states.  A handler knows which state it stands for from its function    *)
(* and from am_hsm_get_instance() only.  What it answers to an EMPTY event *)
(* is its superstate; the EMPTY calls have no effect of their own and are  *)
(* part of the actions that make them.                                     *)
(***************************************************************************)
EXTENDS Integers, SequencesExt

CONSTANTS
  Fn,           \* state handler functions
  Instance,     \* submachine instances
  TopFn,        \* am_hsm_top
  DepthMax      \* AM_HSM_HIERARCHY_DEPTH_MAX

State == [fn : Fn, instance : Instance]
Top == [fn |-> TopFn, instance |-> 0]

ASSUME HsmAssumption ==
  /\ IsFiniteSet(State) /\ Instance \subseteq Nat /\ TopFn \notin Fn
  /\ DepthMax \in Nat
  /\ Cardinality(State) + 2 <= DepthMax    \* see NoAssertFails

VARIABLES
  sup,          \* what the handlers answer to EMPTY: the topology
  state,        \* state_fn and state_instance
  instance,     \* instance: what am_hsm_get_instance returns
  level,        \* hierarchy_level
  pc,
  src, dst,     \* the locals src (or until) and dst (always path.state[0])
  path, left,   \* path.state from path.len down, and how much of it to enter
  cnt,          \* the countdown of the loop in progress
  redispatch,   \* the handler returned AM_RC_TRAN_REDISPATCH
  second,       \* the event is dispatched for the second time
  inside,       \* the states that were entered and not exited (not in the code)
  failed        \* an AM_ASSERT failed

hsmVars == <<state, instance, level>>
pathVars == <<path, left>>
vars == <<sup, hsmVars, pc, src, dst, pathVars, cnt, redispatch, second, inside,
          failed>>

Super(s) == IF s = Top THEN Top ELSE sup[s]

\* The state with its superstates, innermost first, and Top from then on.
Climb(s) ==
  LET up[k \in 0 .. DepthMax] == IF k = 0 THEN s ELSE Super(up[k - 1]) IN up

\* Every tree of states below Top.
IsTree(f) ==
  \A s \in State :
    LET up[k \in 0 .. Cardinality(State)] ==
          IF k = 0 THEN s ELSE IF up[k - 1] = Top THEN Top ELSE f[up[k - 1]]
    IN  up[Cardinality(State)] = Top

Trees == {f \in [State -> State \cup {Top}] : IsTree(f)}

InitWith(tree) ==
  /\ sup = tree
  /\ state = Top /\ instance = 0 /\ level = 0 /\ pc = "gone"
  /\ src = Top /\ dst = Top /\ path = <<>> /\ left = 0 /\ cnt = DepthMax
  /\ redispatch = FALSE /\ second = FALSE
  /\ inside = <<>> /\ failed = FALSE

Init == \E tree \in Trees : InitWith(tree)

Require(ok) == failed' = ~ok

\* The state that the handler fn takes itself for.
Seen(fn) == [fn |-> fn, instance |-> instance]

SetState(s) == state' = s /\ instance' = s.instance

\* hsm_build.
Build(from, until, till) ==
  LET up == Climb(from)
  IN  SubSeq([k \in 1 .. DepthMax |-> up[k - 1]], 1,
             Min({k \in 1 .. DepthMax : up[k] = until \/ up[k - 1] = till}))

-----------------------------------------------------------------------------
(* am_hsm_init, am_hsm_start, am_hsm_deinit                                *)

InitHsm ==
  /\ pc = "gone"
  /\ pc' = "new" /\ level' = 0
  /\ UNCHANGED <<sup, state, instance, src, dst, pathVars, cnt, redispatch,
                 second, inside, failed>>

\* The states on p are to be entered, p[1] last, and then p[1] to be initialised.
Enters(p, target) ==
  /\ path' = p /\ left' = Len(p) /\ dst' = target
  /\ pc' = "enter"

\* The initial handler asks for a transition.
Start ==
  /\ pc = "new"
  /\ \E d \in State : Enters(Build(d, Top, Top), d)
  /\ UNCHANGED <<sup, hsmVars, src, cnt, redispatch, second, inside, failed>>

Deinit ==
  /\ pc \in {"new", "idle"}
  /\ IF pc = "idle" THEN pc' = "deinit" /\ UNCHANGED hsmVars
                    ELSE pc' = "gone" /\ SetState(Top) /\ UNCHANGED level
  /\ UNCHANGED <<sup, src, dst, pathVars, cnt, redispatch, second, inside,
                 failed>>

\* Mutant: the level is not counted down.
ExitStateKeepsLevel ==
  /\ inside' = RemoveFirst(inside, Seen(state.fn))
  /\ SetState(Super(Seen(state.fn)))
  /\ UNCHANGED level

\* hsm_exit_state, which is told the superstate by the handler of the state.
ExitState ==
  /\ inside' = RemoveFirst(inside, Seen(state.fn))
  /\ SetState(Super(Seen(state.fn)))
  /\ level' = level - 1

ExitCounted ==
  /\ ExitState
  /\ cnt' = cnt - 1
  /\ Require(level > 0 /\ cnt - 1 > 0)

DeinitExits ==
  /\ pc = "deinit" /\ state # Top
  /\ ExitCounted
  /\ UNCHANGED <<sup, pc, src, dst, pathVars, redispatch, second>>

DeinitDone ==
  /\ pc = "deinit" /\ state = Top
  /\ pc' = "gone" /\ cnt' = DepthMax
  /\ UNCHANGED <<sup, hsmVars, src, dst, pathVars, redispatch, second, inside,
                 failed>>

-----------------------------------------------------------------------------
(* am_hsm_dispatch: the event goes up the ancestor chain                   *)

Dispatch ==
  /\ pc = "idle"
  /\ pc' = "ask" /\ src' = state
  /\ UNCHANGED <<sup, hsmVars, dst, pathVars, cnt, redispatch, second, inside,
                 failed>>

Asked == pc = "ask" /\ Require(cnt - 1 > 0)

AskSuper ==
  /\ Asked /\ src # Top
  /\ src' = Super(Seen(src.fn)) /\ instance' = Super(Seen(src.fn)).instance
  /\ cnt' = cnt - 1
  /\ UNCHANGED <<sup, state, level, pc, dst, pathVars, redispatch, second, inside>>

\* Mutant: the instance is left at that of the state that handled the event.
AskHandledAbove ==
  /\ Asked
  /\ UNCHANGED <<state, instance>>
  /\ pc' = "idle" /\ src' = Top /\ cnt' = DepthMax /\ second' = FALSE
  /\ UNCHANGED <<sup, level, dst, pathVars, redispatch, inside>>

\* By the handler of src or by am_hsm_top.
AskHandled ==
  /\ Asked
  /\ SetState(state)
  /\ pc' = "idle" /\ src' = Top /\ cnt' = DepthMax /\ second' = FALSE
  /\ UNCHANGED <<sup, level, dst, pathVars, redispatch, inside>>

\* A handler asks for the redispatch of an event once at most.
AskTran ==
  /\ Asked /\ src # Top
  /\ \E d \in State : dst' = d
  /\ redispatch' \in IF second THEN {FALSE} ELSE BOOLEAN
  /\ SetState(state)
  /\ pc' = "to_src" /\ cnt' = DepthMax
  /\ UNCHANGED <<sup, level, src, pathVars, second, inside>>

-----------------------------------------------------------------------------
(* hsm_transition                                                          *)

ExitToSrc ==
  /\ pc = "to_src" /\ state # src
  /\ ExitCounted
  /\ UNCHANGED <<sup, pc, src, dst, pathVars, redispatch, second>>

TranToSelf ==
  /\ pc = "to_src" /\ state = src /\ src = dst
  /\ ExitState /\ Require(level > 0)
  /\ Enters(<<dst>>, dst)
  /\ cnt' = DepthMax
  /\ UNCHANGED <<sup, src, redispatch, second>>

TranDown ==
  /\ pc = "to_src" /\ state = src /\ src # dst
  /\ LET p == Build(dst, Top, src)
     IN  Last(p) = src /\ Enters(Front(p), dst)
  /\ cnt' = DepthMax
  /\ UNCHANGED <<sup, hsmVars, src, redispatch, second, inside, failed>>

TranOut ==
  /\ pc = "to_src" /\ state = src /\ src # dst
  /\ path' = Build(dst, Top, src) /\ Last(path') # src
  /\ pc' = "to_lca" /\ cnt' = DepthMax
  /\ UNCHANGED <<sup, hsmVars, src, dst, left, redispatch, second, inside, failed>>

\* Mutant: the level is taken for the index of the path.
IsLcaByLevel == level <= Len(path) /\ path[level] = state

\* The state of the path that has the level of the active state is this state.
IsLca == level <= Len(path) /\ path[Len(path) - level + 1] = state

ExitToLca ==
  /\ pc = "to_lca" /\ state # Top /\ ~IsLca
  /\ ExitCounted
  /\ UNCHANGED <<sup, pc, src, dst, pathVars, redispatch, second>>

LcaFound ==
  /\ pc = "to_lca" /\ state # Top /\ IsLca
  /\ Enters(SubSeq(path, 1, Len(path) - level), dst)
  /\ Require(cnt - 1 > 0) /\ cnt' = DepthMax
  /\ UNCHANGED <<sup, hsmVars, src, redispatch, second, inside>>

LcaIsTop ==
  /\ pc = "to_lca" /\ state = Top
  /\ Enters(path, dst)
  /\ cnt' = DepthMax
  /\ UNCHANGED <<sup, hsmVars, src, redispatch, second, inside, failed>>

-----------------------------------------------------------------------------
(* hsm_enter_and_init                                                      *)

Enter ==
  /\ pc = "enter" /\ left > 0
  /\ SetState(path[left])
  /\ inside' = Append(inside, path[left])
  /\ left' = left - 1
  /\ UNCHANGED <<sup, level, pc, src, dst, path, cnt, redispatch, second, failed>>

\* Mutant: the level counts am_hsm_top.
EnteredFromTop ==
  /\ pc = "enter" /\ left = 0
  /\ level' = level + Len(path) + 1 /\ Require(level' <= DepthMax)
  /\ SetState(dst)
  /\ pc' = "init"
  /\ path' = <<>>
  /\ UNCHANGED <<sup, src, dst, left, cnt, redispatch, second, inside>>

Entered ==
  /\ pc = "enter" /\ left = 0
  /\ level' = level + Len(path) /\ Require(level' <= DepthMax)
  /\ SetState(dst)
  /\ pc' = "init"
  /\ path' = <<>>
  /\ UNCHANGED <<sup, src, dst, left, cnt, redispatch, second, inside>>

Substates(s) ==
  {t \in State \ {s} : \E k \in 1 .. DepthMax : Climb(t)[k] = s}

\* The handler answers INIT with a transition to a substate.
InitTran ==
  /\ pc = "init"
  /\ \E d \in Substates(Seen(state.fn)) : Enters(Build(d, dst, Top), d)
  /\ src' = dst
  /\ SetState(dst')
  /\ UNCHANGED <<sup, level, cnt, redispatch, second, inside, failed>>

\* Mutant: the second dispatch is not told from the first.
InitDoneLoops ==
  /\ pc = "init"
  /\ SetState(dst)
  /\ IF redispatch THEN pc' = "ask" /\ src' = dst ELSE pc' = "idle" /\ src' = Top
  /\ dst' = Top
  /\ redispatch' = FALSE
  /\ UNCHANGED <<sup, level, pathVars, cnt, second, inside, failed>>

\* The handler handles INIT or passes it on.
InitDone ==
  /\ pc = "init"
  /\ SetState(dst)
  /\ IF redispatch THEN pc' = "ask" /\ src' = dst ELSE pc' = "idle" /\ src' = Top
  /\ dst' = Top
  /\ redispatch' = FALSE /\ second' = redispatch
  /\ UNCHANGED <<sup, level, pathVars, cnt, inside, failed>>

-----------------------------------------------------------------------------
RunToCompletion ==
  \/ DeinitExits \/ DeinitDone
  \/ AskSuper \/ AskHandled \/ AskTran
  \/ ExitToSrc \/ TranToSelf \/ TranDown \/ TranOut
  \/ ExitToLca \/ LcaFound \/ LcaIsTop
  \/ Enter \/ Entered \/ InitTran \/ InitDone

Next ==
  ~failed /\ (InitHsm \/ Start \/ Deinit \/ Dispatch \/ RunToCompletion)

Spec == Init /\ [][Next]_vars

\* A call that began runs on: the handlers return.
FairSpec == Spec /\ WF_vars(RunToCompletion)

-----------------------------------------------------------------------------
(* am_hsm_is_in                                                            *)

\* The states the loop visits: each handler is asked for its superstate with the
\* instance of the active state, which is restored before every call.
Visits ==
  LET at[k \in 0 .. DepthMax - 1] ==
        IF k = 0 THEN state
        ELSE IF at[k - 1].fn = TopFn THEN Top ELSE Super(Seen(at[k - 1].fn))
  IN  at

\* It returns true; when it finds neither s nor am_hsm_top, an assertion fails.
IsIn(s) == \E k \in DOMAIN Visits : Visits[k] = s

-----------------------------------------------------------------------------
(* Properties                                                              *)

\* Every variable stays in the range of its C counterpart.
TypeOK ==
  /\ sup \in [State -> State \cup {Top}]
  /\ state \in State \cup {Top} /\ instance \in Instance \cup {0}
  /\ level \in 0 .. DepthMax
  /\ pc \in {"gone", "new", "idle", "deinit", "ask", "to_src", "to_lca", "enter", "init"}
  /\ src \in State \cup {Top} /\ dst \in State \cup {Top}
  /\ path \in Seq(State) /\ left \in 0 .. Len(path)
  /\ cnt \in 0 .. DepthMax
  /\ redispatch \in BOOLEAN /\ second \in BOOLEAN
  /\ inside \in Seq(State) /\ failed \in BOOLEAN

\* In a tree that is at least two levels less deep than AM_HSM_HIERARCHY_DEPTH_MAX
\* no assertion fails: no loop counts down to zero, and no level goes below zero.
NoAssertFails == ~failed

\* Between two calls, and when the INIT handler runs, the state, its instance and
\* its level are those of the innermost state that was entered, and the states
\* that were entered are its superstates: the level, which is all that the search
\* for the least common ancestor goes by, is never off.  am_hsm_is_in names these
\* states and no other, but where a submachine lies in another instance: it asks
\* every handler with the instance of the active state.
PlaceExact ==
  /\ pc \in {"gone", "new"} => inside = <<>> /\ state = Top /\ level = 0
  /\ pc \in {"idle", "init"} =>
       /\ inside # <<>> /\ state = Last(inside) /\ instance = state.instance
       /\ level = Len(inside)
  /\ \A i \in DOMAIN inside :
       sup[inside[i]] = IF i = 1 THEN Top ELSE inside[i - 1]
  /\ pc = "idle" /\ (\A s \in ToSet(inside) : s.instance = instance) =>
       \A s \in State : IsIn(s) <=> s \in ToSet(inside)

\* Events climb, states are left and entered, and initial transitions are taken,
\* as in the abstract machine.  The handler that is asked, or told to exit, is
\* named by its function and the instance it sees.
Abstract == INSTANCE HsmAbs WITH
  phase <- CASE pc \in {"gone", "new"} -> "out"
             [] pc = "idle" -> "rest"
             [] pc = "ask" -> "asking"
             [] pc = "deinit" -> "closing"
             [] pc \in {"to_src", "to_lca"} -> "leaving"
             [] OTHER -> "entering",
  src <- IF pc = "ask" THEN Seen(src.fn) ELSE src

Refines == Abstract!Spec

\* Every call returns: no chain of initial transitions and no search for a state
\* goes on for ever.
CallsReturn == pc \notin {"gone", "new", "idle"} ~> pc \in {"gone", "idle"}

=============================================================================
