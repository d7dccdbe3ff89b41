------------------------------- MODULE Sleep -------------------------------
(***************************************************************************)
(* A loop that keeps a period with am_sleep_till_ticks (posix/pal.c), as   *)
(* main of apps/examples/sync does.  Both the clock and the argument of    *)
(* usleep are counters of one width that wrap around.                      *)
(***************************************************************************)
EXTENDS Integers

CONSTANTS Modulus,      \* 2 ^ 32
          UsPerTick,    \* 1000
          Periods,      \* of the loop, in ticks
          MaxLate       \* ticks that the loop is behind at most

\* A sleep fits in the argument of usleep, and lateness in half of the clock.
SleepsFit ==
  /\ \A p \in Periods : p * UsPerTick < Modulus
  /\ 2 * MaxLate < Modulus

VARIABLES now,          \* am_time_get_ticks
          target,       \* now_ticks of the loop
          late          \* history: how far now is behind target, without wrap-around

vars == <<now, target, late>>

Init == now = 0 /\ target = 0 /\ late = 0

\* The argument of usleep.
Microseconds(ticks) == (ticks * UsPerTick) % Modulus

\* Mutant: am_sleep_till_ms, whose test for a time that passed is never true.
SleptTillMs(till) == Microseconds((till - now) % Modulus) \div UsPerTick

\* The ticks that am_sleep_till_ticks sleeps.
SleptTill(till) ==
  LET sleep_ticks == (till - now) % Modulus
  IN  IF sleep_ticks = 0 \/ sleep_ticks > (Modulus - 1) \div 2
        THEN 0
        ELSE Microseconds(sleep_ticks) \div UsPerTick

\* An iteration of the loop ends: it sleeps until the next one is due.
SleepTill(period) ==
  LET till == (target + period) % Modulus
  IN  /\ target' = till
      /\ now' = (now + SleptTill(till)) % Modulus
      /\ late' = late + SleptTill(till) - period

\* The iteration takes a tick, or a sleep takes longer than it was asked for.
Work ==
  /\ late < MaxLate
  /\ now' = (now + 1) % Modulus /\ late' = late + 1
  /\ UNCHANGED target

Next == Work \/ \E period \in Periods : SleepTill(period)

-----------------------------------------------------------------------------
\* The loop never starts an iteration before it is due, and one that is late
\* catches up without sleeping, also while the clock wraps around.
KeepsPeriod == late \in 0 .. MaxLate

=============================================================================
