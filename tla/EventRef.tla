------------------------------- MODULE EventRef -------------------------------
(***************************************************************************)
(* Reference counted events (libs/event/event.c).  A heap value h is       *)
(*   h.live      the dynamic events that are allocated                     *)
(*   h.ref       their ref_counter field                                   *)
(*   h.corrupt   a block was touched that was not allocated                *)
(* An event outside Dynamic is static: it is never counted and never       *)
(* freed.  What the code does with a freed block is undefined (the id_lsw  *)
(* check of the header may or may not notice); the model only records that *)
(* it happened.                                                            *)
(***************************************************************************)
EXTENDS Integers

CONSTANTS Dynamic,     \* the blocks of the event pools
          RefMax       \* AM_EVENT_REF_COUNTER_MAX

ASSUME RefMaxAssumption == RefMax \in Nat \ {0}

HeapInit == [live |-> {}, ref |-> [e \in Dynamic |-> 0], corrupt |-> FALSE]

HeapType ==
  [live : SUBSET Dynamic, ref : [Dynamic -> 0 .. RefMax], corrupt : BOOLEAN]

IsStatic(e) == e \notin Dynamic

\* am_event_allocate_x: a block with its header zeroed.
Allocated(h, e) ==
  [live |-> h.live \cup {e}, ref |-> [h.ref EXCEPT ![e] = 0],
   corrupt |-> h.corrupt]

\* The increment in am_event_queue_push_unsafe and am_event_inc_ref_cnt.
CanCount(h, e) == ~IsStatic(e) => h.ref[e] < RefMax

Counted(h, e) ==
  IF IsStatic(e) THEN h
  ELSE IF e \in h.live THEN [h EXCEPT !.ref[e] = @ + 1]
  ELSE [h EXCEPT !.corrupt = TRUE]

\* Mutants: the last reference is taken for one too few, or for one too many.
FreedEarly(h, e) ==
  IF IsStatic(e) THEN h
  ELSE IF e \notin h.live THEN [h EXCEPT !.corrupt = TRUE]
  ELSE IF h.ref[e] > 2 THEN [h EXCEPT !.ref[e] = @ - 1]
  ELSE [h EXCEPT !.live = @ \ {e}]

FreedLate(h, e) ==
  IF IsStatic(e) THEN h
  ELSE IF e \notin h.live THEN [h EXCEPT !.corrupt = TRUE]
  ELSE IF h.ref[e] > 0 THEN [h EXCEPT !.ref[e] = @ - 1]
  ELSE [h EXCEPT !.live = @ \ {e}]

\* am_event_free_unsafe, and am_event_dec_ref_cnt which is the same.
Freed(h, e) ==
  IF IsStatic(e) THEN h
  ELSE IF e \notin h.live THEN [h EXCEPT !.corrupt = TRUE]
  ELSE IF h.ref[e] > 1 THEN [h EXCEPT !.ref[e] = @ - 1]
  ELSE [h EXCEPT !.live = @ \ {e}]

=============================================================================
