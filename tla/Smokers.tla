------------------------------ MODULE Smokers ------------------------------
(***************************************************************************)
(* The cigarette smokers of apps/examples/smokers: an agent that puts two  *)
(* of three resources on the table, and smokers who own one each.  Actions *)
(* and time as in module Dpp.  The statistics of the agent are left out.   *)
(***************************************************************************)
EXTENDS Mailboxes, FiniteSets

CONSTANTS NSmokers,     \* AM_SMOKERS_NUM_MAX, and the number of resources
          IdModulus,    \* resource_id counts modulo this number
          Nobody

\* Smoker i owns resource i.
Smoker == 0 .. NSmokers - 1
Agent == NSmokers
Object == Smoker \cup {Agent}

VARIABLES state, queue, running,
          acquired,     \* resource_acquired of a smoker
          idSeen,       \* resource_id of a smoker
          resourceId,   \* resource_id of the agent
          nstops,
          timer,        \* the one timer event of each object
          fired

vars == <<state, queue, running, acquired, idSeen, resourceId, nstops, timer, fired>>

Event(id, who, n) == [id |-> id, who |-> who, n |-> n]
Signal(id) == Event(id, Nobody, 0)

QueueSize(a) == IF a = Agent THEN 2 * NSmokers ELSE 5

\* A smoker, and the agent, after their initial transitions.
NewSmoker == [state |-> "idle", subscribes |-> {"RESOURCE", "STOP"}, queue |-> <<>>,
              timer |-> "idle"]
NewAgent == [state |-> "proc", subscribes |-> {"DONE_SMOKING", "STOPPED"},
             queue |-> <<Signal("START")>>, timer |-> "armed"]
New(a) == IF a = Agent THEN NewAgent ELSE NewSmoker

Init ==
  /\ state = [a \in Object |-> New(a).state]
  /\ queue = [a \in Object |-> New(a).queue]
  /\ running = Object
  /\ acquired = [s \in Smoker |-> {s}]
  /\ idSeen = [s \in Smoker |-> 0]
  /\ resourceId = 0 /\ nstops = 0
  /\ timer = [a \in Object |-> New(a).timer]
  /\ fired = Nobody

Handles(a, id) == a \in running /\ Receives(queue, a, id)

\* a takes its event and publishes events with one id to those who subscribed to it.
Publish(a, es) ==
  queue' = Send(Take(queue, a), {b \in running : Head(es).id \in New(b).subscribes}, es)

-----------------------------------------------------------------------------
(* Smokers *)

\* Mutant: what was acquired is kept when the agent starts a new round.
AcquiredForever(s) == acquired[s] \cup {Head(queue[s]).who}

\* A new round starts from the own resource.
Acquired(s) ==
  (IF Head(queue[s]).n # idSeen[s] THEN {s} ELSE acquired[s]) \cup {Head(queue[s]).who}

SmokerIdle(s) ==
  /\ state[s] = "idle" /\ Handles(s, "RESOURCE")
  /\ acquired' = [acquired EXCEPT ![s] = Acquired(s)]
  /\ idSeen' = [idSeen EXCEPT ![s] = Head(queue[s]).n]
  /\ queue' = Take(queue, s)
  /\ IF Acquired(s) = Smoker
       THEN /\ state' = [state EXCEPT ![s] = "smoking"]
            /\ timer' = [timer EXCEPT ![s] = "armed"]
       ELSE UNCHANGED <<state, timer>>
  /\ UNCHANGED <<running, resourceId, nstops, fired>>

SmokerSmoking(s) ==
  /\ state[s] = "smoking" /\ Handles(s, "DONE_SMOKING_TIMER")
  /\ Publish(s, <<Event("DONE_SMOKING", s, 0)>>)
  /\ state' = [state EXCEPT ![s] = "idle"]
  /\ timer' = [timer EXCEPT ![s] = "idle"]
  /\ UNCHANGED <<running, acquired, idSeen, resourceId, nstops, fired>>

\* smoker_top sends the event on to smoker_stopping; leaving smoker_smoking
\* disarms the timer.
SmokerStop(s) ==
  /\ Handles(s, "STOP")
  /\ Publish(s, <<Signal("STOPPED")>>)
  /\ timer' = [timer EXCEPT ![s] = "idle"]
  /\ state' = [state EXCEPT ![s] = "stopping"]
  /\ running' = running \ {s}
  /\ UNCHANGED <<acquired, idSeen, resourceId, nstops, fired>>

-----------------------------------------------------------------------------
(* The agent *)

\* Two resources, rand_012 says which, for every smoker.
Resources(missing) ==
  LET both == Smoker \ {missing}
      first == CHOOSE r \in both : \A x \in both : r <= x
  IN  <<Event("RESOURCE", first, resourceId)>>
        \o <<Event("RESOURCE", CHOOSE r \in both : r # first, resourceId)>>

AgentProc(missing) ==
  /\ state[Agent] = "proc" /\ (Handles(Agent, "START") \/ Handles(Agent, "DONE_SMOKING"))
  /\ Publish(Agent, Resources(missing))
  /\ resourceId' = (resourceId + 1) % IdModulus
  /\ UNCHANGED <<state, running, acquired, idSeen, nstops, timer, fired>>

AgentTimeout ==
  /\ state[Agent] = "proc" /\ Handles(Agent, "TIMEOUT")
  /\ Publish(Agent, <<Signal("STOP")>>)
  /\ state' = [state EXCEPT ![Agent] = "stopping"]
  /\ UNCHANGED <<running, acquired, idSeen, resourceId, nstops, timer, fired>>

\* Mutant: the agent stops with the first smoker.
AgentStoppingEarly ==
  /\ state[Agent] = "stopping" /\ Handles(Agent, "STOPPED")
  /\ nstops' = nstops + 1
  /\ running' = running \ {Agent}
  /\ queue' = Take(queue, Agent)
  /\ UNCHANGED <<state, acquired, idSeen, resourceId, timer, fired>>

AgentStopping ==
  /\ state[Agent] = "stopping" /\ Handles(Agent, "STOPPED")
  /\ nstops' = nstops + 1
  /\ running' = IF nstops + 1 = NSmokers THEN running \ {Agent} ELSE running
  /\ queue' = Take(queue, Agent)
  /\ UNCHANGED <<state, acquired, idSeen, resourceId, timer, fired>>

AgentIgnores ==
  /\ state[Agent] = "stopping" /\ Handles(Agent, "DONE_SMOKING")
  /\ queue' = Take(queue, Agent)
  /\ UNCHANGED <<state, running, acquired, idSeen, resourceId, nstops, timer, fired>>

-----------------------------------------------------------------------------
(* The ticker task *)

Trapped ==
  \/ fired # Nobody /\ fired \notin running
  \/ \E s \in Smoker : state[s] = "smoking" /\ Handles(s, "RESOURCE")   \* AM_ASSERT(0)

Expired(a) == Signal(IF a = Agent THEN "TIMEOUT" ELSE "DONE_SMOKING_TIMER")

TickStart(S) ==
  /\ Idle(queue) /\ fired = Nobody /\ \A a \in Object : timer[a] # "due"
  /\ S # {} /\ \A a \in S : timer[a] = "armed"
  /\ timer' = [a \in Object |-> IF a \in S THEN "due" ELSE timer[a]]
  /\ UNCHANGED <<state, queue, running, acquired, idSeen, resourceId, nstops, fired>>

TickNext(a) ==
  /\ fired = Nobody /\ timer[a] = "due"
  /\ timer' = [timer EXCEPT ![a] = "idle"]
  /\ fired' = a
  /\ UNCHANGED <<state, queue, running, acquired, idSeen, resourceId, nstops>>

TickPost ==
  /\ fired # Nobody /\ fired \in running
  /\ queue' = Send(queue, {fired}, <<Expired(fired)>>)
  /\ fired' = Nobody
  /\ UNCHANGED <<state, running, acquired, idSeen, resourceId, nstops, timer>>

AgentStep ==
  \/ \E missing \in Smoker : AgentProc(missing)
  \/ AgentTimeout \/ AgentStopping \/ AgentIgnores
SmokerStep(s) == SmokerIdle(s) \/ SmokerSmoking(s) \/ SmokerStop(s)
TickStep == TickPost \/ \E a \in Object : TickNext(a)
TickOf(a) == \E S \in SUBSET Object : a \in S /\ TickStart(S)

Ended == running = {} \/ Trapped

Next ==
  \/ /\ ~Trapped
     /\ \/ AgentStep \/ TickStep
        \/ \E s \in Smoker : SmokerStep(s)
        \/ \E a \in Object : TickOf(a)
  \/ Ended /\ UNCHANGED vars

\* Tasks run and armed timers expire.
Fairness ==
  /\ WF_vars(~Trapped /\ AgentStep)
  /\ \A s \in Smoker : WF_vars(~Trapped /\ SmokerStep(s))
  /\ WF_vars(~Trapped /\ TickStep)
  /\ \A a \in Object : SF_vars(TickOf(a))

Spec == Init /\ [][Next]_vars /\ Fairness

-----------------------------------------------------------------------------
TypeOK ==
  /\ state \in [Object -> {"proc", "stopping", "idle", "smoking"}]
  /\ running \subseteq Object
  /\ acquired \in [Smoker -> SUBSET Smoker]
  /\ idSeen \in [Smoker -> 0 .. IdModulus - 1] /\ resourceId \in 0 .. IdModulus - 1
  /\ nstops \in 0 .. NSmokers
  /\ timer \in [Object -> {"idle", "armed", "due"}]
  /\ fired \in Object \cup {Nobody}

\* Each round of the agent feeds exactly one smoker: while it lasts nobody else
\* smokes, no resource reaches the one who does (AM_ASSERT(0) of smoker_smoking),
\* and when everything was handled somebody smokes: no round is lost.
OneSmokes ==
  LET smoking == {s \in Smoker : state[s] = "smoking"}
  IN  /\ Cardinality(smoking) <= 1
      /\ \A s \in smoking : ~Handles(s, "RESOURCE")
      /\ Idle(queue) /\ fired = Nobody /\ state[Agent] = "proc" => smoking # {}

\* The queues that main gives the objects are long enough, and every object is
\* stopped in the end, the agent last.
QueuesFit == \A a \in Object : Len(queue[a]) <= QueueSize(a)
AllStop == <>Ended
AgentLast == Agent \notin running => running = {}

=============================================================================
