-------------------------------- MODULE Fsm --------------------------------
(***************************************************************************)
(* The finite state machine of libs/fsm.  One action per call of a state   *)
(* handler, which changes the active state by itself when it answers with  *)
(* a transition.  It implements a hierarchical machine without hierarchy.  *)
(***************************************************************************)
EXTENDS Integers, Sequences

CONSTANTS State, NoState      \* NoState stands for NULL

VARIABLES
  state,         \* fsm->state: the active state
  start_called, dispatch_in_progress,
  pc,            \* the point reached in the functions of fsm.c
  src, dst,      \* their local variables
  redispatch,    \* the last answer was AM_RC_TRAN_REDISPATCH
  second,        \* the event is dispatched for the second time
  inside,        \* the states that got an entry and no exit event since
  failed         \* an assertion failed

vars == <<state, start_called, dispatch_in_progress, pc, src, dst, redispatch,
          second, inside, failed>>
flags == <<start_called, dispatch_in_progress>>

Init ==
  /\ state = NoState /\ start_called = FALSE /\ dispatch_in_progress = FALSE
  /\ pc = "out" /\ src = NoState /\ dst = NoState
  /\ redispatch = FALSE /\ second = FALSE /\ failed = FALSE
  /\ inside = <<>>

-----------------------------------------------------------------------------
\* am_fsm_init and am_fsm_start: the initial state answers with a transition.
Start(d) ==
  /\ pc = "out"
  /\ state' = d /\ dst' = d /\ pc' = "entering"
  /\ UNCHANGED <<flags, src, redispatch, second, inside, failed>>

Enter ==
  /\ pc = "entering"
  /\ state' = dst
  /\ inside' = Append(inside, dst)
  /\ pc' = "entered"
  /\ UNCHANGED <<flags, src, dst, redispatch, second, failed>>

\* am_fsm_start or fsm_dispatch returned; an event is dispatched again once.
Entered ==
  /\ pc = "entered" /\ ~failed
  /\ start_called' = TRUE
  /\ IF redispatch /\ second
       THEN /\ failed' = TRUE
            /\ UNCHANGED <<pc, src, dst, redispatch, second, dispatch_in_progress>>
       ELSE /\ pc' = IF redispatch THEN "asking" ELSE "rest"
            /\ src' = IF redispatch THEN state ELSE NoState
            /\ dispatch_in_progress' = redispatch
            /\ second' = redispatch
            /\ dst' = NoState /\ redispatch' = FALSE
            /\ UNCHANGED failed
  /\ UNCHANGED <<state, inside>>

Dispatch ==
  /\ pc = "rest" /\ start_called /\ ~dispatch_in_progress
  /\ dispatch_in_progress' = TRUE
  /\ src' = state /\ pc' = "asking"
  /\ UNCHANGED <<state, start_called, dst, redispatch, second, inside, failed>>

\* AM_RC_HANDLED, AM_RC_CORO_BUSY or AM_RC_CORO_DONE.
Handled ==
  /\ pc = "asking" /\ state = src
  /\ pc' = "rest" /\ src' = NoState
  /\ dispatch_in_progress' = FALSE /\ second' = FALSE
  /\ UNCHANGED <<state, start_called, dst, redispatch, inside, failed>>

\* am_fsm_tran and am_fsm_tran_redispatch, called by the handler.
Tran(d, re) ==
  /\ pc = "asking"
  /\ state' = d /\ redispatch' = re
  /\ pc' = "leaving"
  /\ UNCHANGED <<flags, src, dst, second, inside, failed>>

\* Mutant: the exit event goes to the destination.
ExitWrong ==
  /\ pc = "leaving"
  /\ dst' = state /\ UNCHANGED state
  /\ inside' = SelectSeq(inside, LAMBDA s : s # state)
  /\ pc' = "entering"
  /\ UNCHANGED <<flags, src, redispatch, second, failed>>

\* fsm_dispatch puts the source back before it leaves it.
Exit ==
  /\ pc = "leaving"
  /\ dst' = state /\ state' = src
  /\ inside' = SelectSeq(inside, LAMBDA s : s # src)
  /\ pc' = "entering"
  /\ UNCHANGED <<flags, src, redispatch, second, failed>>

Deinit ==
  /\ pc = "rest" /\ pc' = "closing"
  /\ UNCHANGED <<state, flags, src, dst, redispatch, second, inside, failed>>

DeinitExit ==
  /\ pc = "closing" /\ state # NoState
  /\ inside' = SelectSeq(inside, LAMBDA s : s # state)
  /\ state' = NoState /\ start_called' = FALSE
  /\ UNCHANGED <<dispatch_in_progress, pc, src, dst, redispatch, second, failed>>

DeinitReturns ==
  /\ pc = "closing" /\ state = NoState /\ pc' = "out"
  /\ UNCHANGED <<state, flags, src, dst, redispatch, second, inside, failed>>

Next ==
  \/ \E d \in State : Start(d)
  \/ \E d \in State, re \in BOOLEAN : Tran(d, re)
  \/ Enter \/ Entered \/ Dispatch \/ Handled \/ Exit
  \/ Deinit \/ DeinitExit \/ DeinitReturns
  \/ failed /\ UNCHANGED vars

Spec == Init /\ [][Next]_vars

-----------------------------------------------------------------------------
TypeOK ==
  /\ {state, src, dst} \subseteq State \cup {NoState}
  /\ pc \in {"out", "entering", "entered", "rest", "asking", "leaving", "closing"}
  /\ {start_called, dispatch_in_progress, redispatch, second, failed} \subseteq BOOLEAN

Hsm ==
  INSTANCE HsmAbs WITH
    Top <- NoState, sup <- [s \in State |-> NoState],
    phase <- IF pc = "entered" THEN "entering" ELSE pc,
    dst <- IF pc = "leaving" THEN state ELSE dst

\* A finite state machine is a hierarchical one whose states have no superstates:
\* each transition, one to the state itself too, leaves the state that was entered
\* last and enters the destination, and a redispatched event is offered to that.
ImplementsHsm == Hsm!Init /\ [][Hsm!Next]_(Hsm!vars)

\* The machine is idle between two dispatches, in a state that was entered.
RestsInside ==
  pc = "rest" => /\ start_called /\ ~dispatch_in_progress /\ ~second
                 /\ inside = <<state>>

=============================================================================
