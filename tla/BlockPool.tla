------------------------------ MODULE BlockPool ------------------------------
(***************************************************************************)
(* What the block allocator promises (libs/onesize/onesize.h): a pool of   *)
(* blocks, of which any free one may be handed out as long as more than    *)
(* `margin` are free, and no other.                                        *)
(***************************************************************************)
EXTENDS Integers, FiniteSets

CONSTANTS Block, Null, Margins

VARIABLES out,    \* the blocks handed out
          last    \* the answer of the last allocation

NFree == Cardinality(Block) - Cardinality(out)

Init == out = {} /\ last = Null

Get ==
  \E m \in Margins, b \in Block \ out :
    /\ NFree > m
    /\ out' = out \cup {b}
    /\ last' = b

GetNone ==
  /\ \E m \in Margins : NFree <= m
  /\ last' = Null
  /\ UNCHANGED out

Put == \E b \in out : out' = out \ {b} /\ UNCHANGED last

PutAll == out' = {} /\ UNCHANGED last

Next == Get \/ GetNone \/ Put \/ PutAll

Spec == Init /\ [][Next]_<<out, last>>
=============================================================================
