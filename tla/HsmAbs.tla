-------------------------------- MODULE HsmAbs --------------------------------
(***************************************************************************)
(* What a hierarchical state machine promises (libs/hsm/README.rst and     *)
(* libs/hsm/hsm.h): an event is offered to the active state and then to    *)
(* its superstates, inside out; a transition leaves the states that do not *)
(* contain both its source and its destination, inside out, and enters     *)
(* those that lead to the destination, outside in; there it goes on to a   *)
(* substate as long as an initial transition is asked for.                 *)
(***************************************************************************)
EXTENDS SequencesExt

CONSTANTS State, Top

VARIABLES
  sup,         \* the superstate of every state, or Top
  inside,      \* the states that were entered and not left, outermost first
  phase,       \* what the machine is doing
  src, dst,    \* the state that is offered the event, then source and destination
  redispatch   \* the event is to be offered again after the transition

vars == <<sup, inside, phase, src, dst, redispatch>>

Above(s) ==
  LET up[k \in 0 .. Cardinality(State)] ==
        IF k = 0 THEN {s}
        ELSE up[k - 1] \cup {sup[t] : t \in up[k - 1] \ {Top}}
  IN  up[Cardinality(State)] \ {Top}

Below(s) == {t \in State \ {s} : s \in Above(t)}

\* The states that a transition does not leave.
Kept(s, d) == IF s = d THEN Above(s) \ {s} ELSE Above(s) \cap Above(d)

Innermost == IF inside = <<>> THEN Top ELSE Last(inside)

Init ==
  /\ inside = <<>> /\ phase = "out" /\ src = Top /\ dst = Top
  /\ redispatch = FALSE

Start ==
  /\ phase = "out"
  /\ \E d \in State : dst' = d
  /\ phase' = "entering"
  /\ UNCHANGED <<sup, inside, src, redispatch>>

Dispatch ==
  /\ phase = "rest"
  /\ phase' = "asking" /\ src' = Innermost
  /\ UNCHANGED <<sup, inside, dst, redispatch>>

Super ==
  /\ phase = "asking" /\ src # Top
  /\ src' = sup[src]
  /\ UNCHANGED <<sup, inside, phase, dst, redispatch>>

Handled ==
  /\ phase = "asking"
  /\ phase' = "rest" /\ src' = Top
  /\ UNCHANGED <<sup, inside, dst, redispatch>>

Tran ==
  /\ phase = "asking" /\ src # Top
  /\ phase' = "leaving"
  /\ \E d \in State : dst' = d
  /\ redispatch' \in BOOLEAN
  /\ UNCHANGED <<sup, inside, src>>

\* Only states that contain both the source and the destination are left.
Left == Innermost \in Kept(src, dst) \cup {Top}

Leave ==
  /\ phase = "closing" \/ (phase = "leaving" /\ ~Left)
  /\ inside # <<>>
  /\ inside' = Front(inside)
  /\ phase' = phase \/ (phase = "leaving" /\ phase' = "entering" /\ Left')
  /\ UNCHANGED <<sup, src, dst, redispatch>>

Turn ==
  /\ phase = "leaving" /\ Left
  /\ phase' = "entering"
  /\ UNCHANGED <<sup, inside, src, dst, redispatch>>

Enter ==
  /\ phase = "entering" /\ Innermost # dst
  /\ \E s \in Above(dst) : sup[s] = Innermost /\ inside' = Append(inside, s)
  /\ UNCHANGED <<sup, phase, src, dst, redispatch>>

InitTran ==
  /\ phase = "entering" /\ Innermost = dst
  /\ \E d \in Below(dst) : dst' = d
  /\ src' = dst
  /\ UNCHANGED <<sup, inside, phase, redispatch>>

Settle ==
  /\ phase = "entering" /\ Innermost = dst
  /\ IF redispatch THEN phase' = "asking" /\ src' = dst
                   ELSE phase' = "rest" /\ src' = Top
  /\ dst' = Top /\ redispatch' = FALSE
  /\ UNCHANGED <<sup, inside>>

Stop ==
  /\ phase = "rest" /\ phase' = "closing"
  /\ UNCHANGED <<sup, inside, src, dst, redispatch>>

Stopped ==
  /\ phase = "closing" /\ inside = <<>> /\ phase' = "out"
  /\ UNCHANGED <<sup, inside, src, dst, redispatch>>

Next ==
  \/ Start \/ Dispatch \/ Super \/ Handled \/ Tran \/ Leave \/ Turn \/ Enter
  \/ InitTran \/ Settle \/ Stop \/ Stopped

Spec == Init /\ [][Next]_vars

=============================================================================
