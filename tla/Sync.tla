-------------------------------- MODULE Sync --------------------------------
(***************************************************************************)
(* apps/examples/sync: two handlers on a synchronous hub (EventSync), top  *)
(* that asks for jobs and low that needs Timeout ticks for one.  An        *)
(* iteration of main's loop is two actions: nothing runs besides it.       *)
(***************************************************************************)
EXTENDS Integers

CONSTANTS Rounds,       \* 2, main()
          Timeout       \* low->timeout

VARIABLES job_pend, rounds,     \* top
          left,                 \* ticks until low's timer event, 0 when disarmed
          asked,                \* history: jobs that low was asked for
          pc                    \* where main's loop is

vars == <<job_pend, rounds, left, asked, pc>>

TopInit == job_pend = FALSE /\ rounds = Rounds
LowInit == left = 0 /\ asked = 0

Init == TopInit /\ LowInit /\ pc = "post"

\* Mutant: top forgets that a job is pending.
TopAsksAlways == rounds # 0

\* top_proc asks for a job on COMMIT.
TopAsks == ~job_pend /\ rounds # 0

\* low_proc on JOB_REQ: the published request arms the timer at once.
LowArms == left' = Timeout /\ asked' = asked + 1

\* top_event_post and low_event_post of COMMIT, which low ignores.
Commit ==
  /\ pc = "post" /\ rounds > 0
  /\ IF TopAsks THEN job_pend' = TRUE /\ LowArms ELSE UNCHANGED <<job_pend, left, asked>>
  /\ pc' = "tick"
  /\ UNCHANGED rounds

\* top_proc on JOB_DONE.
TopDone == job_pend' = FALSE /\ rounds' = rounds - 1

\* A tick, timer_proc: low publishes that the job is done when its event fires.
Tick ==
  /\ pc = "tick"
  /\ left' = IF left = 0 THEN 0 ELSE left - 1
  /\ IF left = 1 THEN TopDone ELSE UNCHANGED <<job_pend, rounds>>
  /\ pc' = "post"
  /\ UNCHANGED asked

Iterate == Commit \/ Tick

Next == Iterate \/ (pc = "post" /\ rounds = 0 /\ UNCHANGED vars)

Fairness == WF_vars(Iterate)
Spec == Init /\ [][Next]_vars /\ Fairness

-----------------------------------------------------------------------------
\* A job is pending as long as low's timer runs (its assertion that the timer is
\* not armed when a request comes), and each round is one job, asked for once.
OneJobPending ==
  /\ job_pend <=> left > 0
  /\ asked = (Rounds - rounds) + IF job_pend THEN 1 ELSE 0

\* All rounds are done.
AllDone == <>(rounds = 0)

=============================================================================
