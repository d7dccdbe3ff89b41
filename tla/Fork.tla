-------------------------------- MODULE Fork --------------------------------
(***************************************************************************)
(* apps/examples/fork: a job task that runs a program in a child process,  *)
(* and an active object that shows progress and ends the program with the  *)
(* child's outcome.  ticker_task runs the timer once, when it starts, so   *)
(* that the progress event, which is armed for 200 ticks, never fires.     *)
(***************************************************************************)
EXTENDS Mailboxes

VARIABLES child,      \* "none", "running", or how it ended
          job,        \* where job_task is: "fork", "wait", "more", "end"
          queue,      \* of the active object
          exited,     \* the program called exit()
          rc

vars == <<child, job, queue, exited, rc>>

Progress == "progress"
Event(id) == [id |-> id]

Init ==
  /\ child = "none" /\ job = "fork"
  /\ queue = [a \in {Progress} |-> <<>>]
  /\ exited = FALSE /\ rc = 0

\* progress_initial
ProgressSubscribes == {"SUCCESS", "FAILURE"}

Publish(id) ==
  queue' = Send(queue, {a \in {Progress} : id \in ProgressSubscribes}, <<Event(id)>>)

JobForkFails ==
  /\ ~exited /\ job = "fork"
  /\ child' = "no child" /\ job' = "end"
  /\ Publish("FAILURE")
  /\ UNCHANGED <<exited, rc>>

JobForks ==
  /\ ~exited /\ job = "fork"
  /\ child' = "running" /\ job' = "wait"
  /\ UNCHANGED <<queue, exited, rc>>

\* The program exits or is killed.  When execvp fails, the child publishes the
\* failure to its own copy of the active object, whose task fork() did not copy,
\* and its only thread returns: to its parent it is a program that exited with 0.
ChildEnds(how) ==
  /\ child = "running"
  /\ child' = how
  /\ UNCHANGED <<job, queue, exited, rc>>

Outcomes == {"zero", "nonzero", "signal", "no exec"}

\* Mutant: a child that was killed is not told from one that exited.
OutcomeUnsignaled == IF child = "nonzero" THEN "FAILURE" ELSE "SUCCESS"

Outcome == IF child \in {"nonzero", "signal"} THEN "FAILURE" ELSE "SUCCESS"

JobReports ==
  /\ ~exited /\ job = "wait" /\ child # "running"
  /\ Publish(Outcome)
  /\ job' = "more"
  /\ UNCHANGED <<child, exited, rc>>

\* waitpid fails.
WaitFails ==
  /\ ~exited /\ job = "wait"
  /\ Publish("FAILURE")
  /\ child' = "lost" /\ job' = "end"
  /\ UNCHANGED <<exited, rc>>

\* The end of job_task publishes success in any case.
JobEnds ==
  /\ ~exited /\ job = "more"
  /\ Publish("SUCCESS")
  /\ job' = "end"
  /\ UNCHANGED <<child, exited, rc>>

\* progress_top, and the entry of progress_done.
ProgressEnds ==
  /\ ~exited /\ queue[Progress] # <<>>
  /\ rc' = IF Receives(queue, Progress, "SUCCESS") THEN 0 ELSE -1
  /\ exited' = TRUE
  /\ queue' = Take(queue, Progress)
  /\ UNCHANGED <<child, job>>

JobStep == JobForkFails \/ JobForks \/ JobReports \/ WaitFails \/ JobEnds
ChildStep == \E how \in Outcomes : ChildEnds(how)

Next ==
  \/ JobStep \/ ChildStep \/ ProgressEnds
  \/ exited /\ UNCHANGED vars

Fairness == WF_vars(JobStep) /\ WF_vars(ChildStep) /\ WF_vars(ProgressEnds)

Spec == Init /\ [][Next]_vars /\ Fairness

-----------------------------------------------------------------------------
\* What waitpid tells of the child: an exit with 0 is also what it tells of a program
\* that could not be started (see ChildEnds).
StatusZero == child \in {"zero", "no exec"}

\* The program returns 0 when the status of the child is 0, and -1 when fork or waitpid
\* failed or the status is another one, although job_task publishes a success behind
\* every failure of a child: progress leaves with the first that arrives.
ReportsStatus == exited => (rc = 0 <=> StatusZero)

\* What the head of main.c says: 0 in case of success and -1 in case of failure.  It is
\* not so when execvp fails.
ReportsOutcome == exited => (rc = 0 <=> child = "zero")

\* The program ends with the child.
Exits == <>exited

=============================================================================
