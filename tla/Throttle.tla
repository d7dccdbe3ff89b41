------------------------------ MODULE Throttle ------------------------------
(***************************************************************************)
(* libs/common/throttle.c: true at most once per interval, by a clock that *)
(* wraps around.                                                           *)
(***************************************************************************)
EXTENDS Integers

CONSTANTS Modulus,      \* 2 ^ 32
          Interval      \* interval_ms

VARIABLES initialized, last_ms,
          now_ms,
          elapsed       \* history: the time since the last call that was allowed

vars == <<initialized, last_ms, now_ms, elapsed>>

Init ==
  /\ initialized = FALSE /\ last_ms = 0
  /\ now_ms = 0
  /\ elapsed = 0

\* Time passes; the caller calls within a period of the clock.
Pass ==
  /\ elapsed < Modulus - 1
  /\ now_ms' = (now_ms + 1) % Modulus
  /\ elapsed' = elapsed + 1
  /\ UNCHANGED <<initialized, last_ms>>

\* Mutant: the end of the interval is computed, and may wrap around.
AllowedTill == ~initialized \/ now_ms >= (last_ms + Interval) % Modulus

Allowed == ~initialized \/ (now_ms - last_ms) % Modulus >= Interval

\* am_throttle_allow returns true; when it returns false it changes nothing.
Allow ==
  /\ Allowed
  /\ initialized' = TRUE /\ last_ms' = now_ms /\ elapsed' = 0
  /\ UNCHANGED now_ms

Next == Pass \/ Allow \/ (~Allowed /\ UNCHANGED vars)

Spec == Init /\ [][Next]_vars

-----------------------------------------------------------------------------
\* Calls that are allowed are an interval apart or more, also when the clock
\* wraps around between them, and a call an interval later is never refused.
OncePerInterval == initialized => (Allowed <=> elapsed >= Interval)

=============================================================================
