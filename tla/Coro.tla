-------------------------------- MODULE Coro --------------------------------
(***************************************************************************)
(* The traffic light of apps/examples/coro: an active object whose state   *)
(* machine runs a coroutine (libs/coro/coro.h) in each of its two modes, a *)
(* timer event that resumes it, and a user who switches the mode and ends  *)
(* the program.  A coroutine is its state, the name of the await that it   *)
(* returned from; what it prints and for how long is left out.             *)
(*                                                                         *)
(* Time: the timer runs for 700 ticks or more, and the user needs longer to*)
(* press ENTER than the object to handle an event: neither comes a second  *)
(* time while an event of the first one waits.                             *)
(***************************************************************************)
EXTENDS Integers, SequencesExt

CONSTANT QueueSize          \* 2 slots, main()

VARIABLES state,            \* "regular", "off" or "exiting"
          coro, coro_blinking_green,
          queue,            \* of the active object
          armed,            \* the timeout event is in the timer's list
          fired,            \* the ticker took it and has not posted it yet
          entered,          \* ENTER was pressed, and the input task runs
          running,          \* the active object is not stopped
          trapped           \* an assertion failed

vars == <<state, coro, coro_blinking_green, queue, armed, fired, entered, running, trapped>>

CoroInit == "INIT"          \* AM_CORO_STATE_INIT

\* coro_initial ends in coro_regular, whose entry posts START.
Init ==
  /\ state = "regular" /\ coro = CoroInit /\ coro_blinking_green = CoroInit
  /\ queue = <<"START">>
  /\ armed = FALSE /\ fired = FALSE /\ entered = "no"
  /\ running = TRUE /\ trapped = FALSE

\* am_ao_post_fifo, am_ao_publish: they assert that there is room.
Post(q, e) ==
  IF Len(q) < QueueSize THEN queue' = Append(q, e) /\ UNCHANGED trapped
                        ELSE trapped' = TRUE /\ UNCHANGED queue

Receives(ids) == ~trapped /\ running /\ queue # <<>> /\ Head(queue) \in ids

-----------------------------------------------------------------------------
\* AM_CORO_AWAIT the timer, then go on to the next await, called next, with the
\* timer armed again.
Resumed(st, next) == IF st # CoroInit /\ armed THEN st ELSE next

\* AM_CORO_BEGIN has a case for each await of its function and no other.
BeginFails(st, awaits) == st # CoroInit /\ st \notin awaits

Colors == {"red", "yellow", "green"}
AfterColor(st) ==
  CASE st = CoroInit -> "red" [] st = "red" -> "yellow" [] st = "yellow" -> "green"
    [] st = "green" -> "call"

\* coro_regular_ keeps its state in coro_blinking_green, and so does the function
\* that it calls after the green light: AM_CORO_CALL stores where the call is,
\* and AM_CORO_BEGIN of the called function finds that.
RegularCoro ==
  LET next == Resumed(coro_blinking_green, AfterColor(coro_blinking_green))
  IN  /\ coro_blinking_green' = next
      /\ trapped' = (next = "call" /\ BeginFails(next, {"dark", "light"}))
      /\ armed' = (next # "call")
      /\ UNCHANGED coro

OffCoro ==
  /\ coro' = Resumed(coro, IF coro = "lit" THEN "dark" ELSE "lit")
  /\ armed' = TRUE
  /\ UNCHANGED <<coro_blinking_green, trapped>>

\* START and TIMER in coro_regular and coro_off.
Resume ==
  /\ Receives({"START", "TIMER"}) /\ state # "exiting"
  /\ IF state = "regular" THEN RegularCoro ELSE OffCoro
  /\ queue' = Tail(queue)
  /\ UNCHANGED <<state, fired, entered, running>>

\* Mutant: the coroutine of the new mode waits for the timer.
SwitchModeSilent ==
  /\ Receives({"SWITCH_MODE"})
  /\ queue' = Tail(queue)
  /\ armed' = FALSE /\ coro' = CoroInit
  /\ IF state = "regular"
       THEN state' = "off" /\ UNCHANGED coro_blinking_green
       ELSE state' = "regular" /\ coro_blinking_green' = CoroInit
  /\ UNCHANGED <<fired, entered, running, trapped>>

\* coro_top: the exit action disarms the timer, the entry starts a coroutine.
SwitchMode ==
  /\ Receives({"SWITCH_MODE"})
  /\ Post(Tail(queue), "START")
  /\ armed' = FALSE /\ coro' = CoroInit
  /\ IF state = "regular"
       THEN state' = "off" /\ UNCHANGED coro_blinking_green
       ELSE state' = "regular" /\ coro_blinking_green' = CoroInit
  /\ UNCHANGED <<fired, entered, running>>

\* coro_top redispatches to coro_exiting, which stops the object.
Exit ==
  /\ Receives({"EXIT"})
  /\ state' = "exiting" /\ running' = FALSE
  /\ queue' = <<>> /\ armed' = FALSE
  /\ UNCHANGED <<coro, coro_blinking_green, fired, entered, trapped>>

-----------------------------------------------------------------------------
\* ticker_cb, in two steps as in module Dpp.
TickNext ==
  /\ ~trapped /\ armed /\ ~Contains(queue, "TIMER") /\ ~fired
  /\ armed' = FALSE /\ fired' = TRUE
  /\ UNCHANGED <<state, coro, coro_blinking_green, queue, entered, running, trapped>>

TickPost ==
  /\ ~trapped /\ fired
  /\ fired' = FALSE
  /\ IF running THEN Post(queue, "TIMER") ELSE trapped' = TRUE /\ UNCHANGED queue
  /\ UNCHANGED <<state, coro, coro_blinking_green, armed, entered, running>>

\* input_task: ENTER, and ENTER again within 500 ms.
Enter(e) ==
  /\ ~trapped /\ running /\ ToSet(queue) \subseteq {"TIMER"}
  /\ e = "EXIT" => entered = "yes"
  /\ entered # "ended"
  /\ entered' = IF e = "EXIT" THEN "ended" ELSE "yes"
  /\ Post(queue, e)
  /\ UNCHANGED <<state, coro, coro_blinking_green, armed, fired, running>>

Ended == trapped \/ ~running

Next ==
  \/ Resume \/ SwitchMode \/ Exit \/ TickNext \/ TickPost
  \/ \E e \in {"SWITCH_MODE", "EXIT"} : Enter(e)
  \/ Ended /\ UNCHANGED vars

Spec == Init /\ [][Next]_vars

-----------------------------------------------------------------------------
\* The light never goes out: as long as a mode is active, either its coroutine
\* waits for the timer or an event is on its way that resumes it, although a
\* TIMER of the mode that was left may come first; and no post meets a full queue.
LightRuns ==
  /\ running /\ ~trapped => armed \/ fired \/ queue # <<>>
  /\ trapped => coro_blinking_green = "call" \/ ~running

\* A coroutine is resumed where it returned: AM_CORO_BEGIN never meets a state
\* it does not know (its AM_ASSERT(0)), and red, yellow, green and blinking green
\* follow each other as the head of main.c says.
CoroResumes == ~(trapped /\ running)

=============================================================================
