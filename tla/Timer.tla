-------------------------------- MODULE Timer --------------------------------
(***************************************************************************)
(* Timer events (libs/timer/timer.c) over singly linked lists              *)
(* (libs/slist/slist.c).  Threads arm and disarm events at any time; one   *)
(* ticker drives the iterator, once every tick.  Armed events wait in      *)
(* events_pend until the ticker appends them to events, the list it        *)
(* iterates over; a disarmed event stays in its list until the ticker      *)
(* meets it.                                                               *)
(*                                                                         *)
(* Arm and disarm are critical sections, one action each.  The loop of     *)
(* am_timer_tick_iterator_next is one critical section too, and every      *)
(* iteration of it is an action: nobody else moves while tick = "next".    *)
(* Lists are sequences without their sentinels; the iterator is the index  *)
(* of the item it->cur, with 0 for the sentinel.                           *)
(***************************************************************************)
EXTENDS Integers, FiniteSets, SequencesExt

CONSTANTS Event,     \* the timer events, all used with one timer
          NoEvent,   \* NULL
          Ticks,     \* the ticks callers arm with
          Intervals  \* the intervals callers arm with, 0 for one-shot

IntervalLimit == 2147483647   \* UINT32_MAX / 2

ASSUME TimerAssumption ==
  /\ IsFiniteSet(Event)
  /\ NoEvent \notin Event
  /\ Ticks \subseteq Nat
  /\ Intervals \subseteq 0 .. IntervalLimit - 1

VARIABLES
  events,    \* the list the ticker iterates over
  pend,      \* events_pend
  nevents,   \* the counts of both lists
  it,        \* the iterator's current item
  oneshot,   \* oneshot_ticks
  interval,  \* interval_ticks
  disarmed,  \* the events with disarm_pending set
  owned,     \* the events whose owner is the timer
  tick,      \* where the ticker is
  budget,    \* its local nevents in am_timer_tick_iterator_next
  fired,     \* what am_timer_tick_iterator_next returned last
  armed,     \* history: the events a caller takes for armed
  due        \* history: ticks until an armed event has to fire

eventVars == <<oneshot, interval, disarmed, owned>>
listVars == <<events, pend, nevents>>
tickVars == <<it, tick, budget, fired>>
history == <<armed, due>>

vars == <<eventVars, listVars, tickVars, history>>

Init ==
  /\ events = <<>> /\ pend = <<>>
  /\ nevents = [pend |-> 0, running |-> 0]
  /\ it = 0
  /\ oneshot = [e \in Event |-> 0]
  /\ interval = [e \in Event |-> 0]
  /\ disarmed = {} /\ owned = {}
  /\ tick = "idle"
  /\ budget = 0
  /\ fired = NoEvent
  /\ armed = {}
  /\ due = [e \in Event |-> 0]

Larger(a, b) == IF a < b THEN b ELSE a

Linked(e) == e \in ToSet(events) \cup ToSet(pend)

\* am_timer_is_armed, am_timer_get_ticks and am_timer_is_empty_unsafe.
IsArmed(e) == Linked(e) /\ e \in owned /\ e \notin disarmed
GetTicks(e) == IF e \in owned THEN oneshot[e] ELSE 0
IsEmpty == events = <<>> /\ pend = <<>>

-----------------------------------------------------------------------------
\* The callers' critical sections wait while the ticker is in its own.
Unlocked == tick # "next"

\* Mutant: an event is linked again although a list holds it.
LinkAlways(e) ==
  /\ pend' = Append(pend, e)
  /\ nevents' = [nevents EXCEPT !.pend = @ + 1]
  /\ UNCHANGED events

\* Mutant: the owner, which arming has just set, tells whether to link.
LinkByOwner(e) ==
  IF e \in owned' THEN UNCHANGED listVars
  ELSE /\ pend' = Append(pend, e)
       /\ nevents' = [nevents EXCEPT !.pend = @ + 1]
       /\ UNCHANGED events

Link(e) ==
  IF Linked(e) THEN UNCHANGED listVars
  ELSE /\ pend' = Append(pend, e)
       /\ nevents' = [nevents EXCEPT !.pend = @ + 1]
       /\ UNCHANGED events

\* Mutant: zero ticks are not normalised.
ArmedFieldsZero(e, ticks, period) ==
  /\ oneshot' = [oneshot EXCEPT ![e] = ticks]
  /\ interval' = [interval EXCEPT ![e] = period]
  /\ disarmed' = disarmed \ {e}
  /\ owned' = owned \cup {e}

ArmedFields(e, ticks, period) ==
  /\ oneshot' = [oneshot EXCEPT ![e] = Larger(ticks, 1)]
  /\ interval' = [interval EXCEPT ![e] = period]
  /\ disarmed' = disarmed \ {e}
  /\ owned' = owned \cup {e}

\* am_timer_arm
Arm(e) ==
  /\ Unlocked
  /\ \E ticks \in Ticks, period \in Intervals :
       /\ ArmedFields(e, ticks, period)
       /\ due' = [due EXCEPT ![e] = Larger(ticks, 1)]
  /\ Link(e)
  /\ armed' = armed \cup {e}
  /\ UNCHANGED tickVars

\* Mutant: only an event the ticker iterates over is marked.
MarkIfRunning(e) ==
  IF e \in owned /\ e \in ToSet(events)
  THEN /\ oneshot' = [oneshot EXCEPT ![e] = 0]
       /\ interval' = [interval EXCEPT ![e] = 0]
       /\ disarmed' = disarmed \cup {e}
       /\ UNCHANGED owned
  ELSE UNCHANGED eventVars

Mark(e) ==
  IF e \in owned
  THEN /\ oneshot' = [oneshot EXCEPT ![e] = 0]
       /\ interval' = [interval EXCEPT ![e] = 0]
       /\ disarmed' = disarmed \cup {e}
       /\ UNCHANGED owned
  ELSE UNCHANGED eventVars

\* am_timer_disarm
Disarm(e) ==
  /\ Unlocked
  /\ Mark(e)
  /\ armed' = armed \ {e}
  /\ due' = [due EXCEPT ![e] = 0]
  /\ UNCHANGED <<listVars, tickVars>>

-----------------------------------------------------------------------------
\* Bound of due: an event that is a tick late is not counted any further.
Late == -1

\* am_timer_tick_iterator_init, before its critical section.
TickBegins ==
  /\ tick = "idle"
  /\ it' = 0
  /\ tick' = "append"
  /\ UNCHANGED <<eventVars, listVars, budget, fired, history>>

\* Its critical section.  The tick counts for every event armed so far.
TickAppends ==
  /\ tick = "append"
  /\ events' = events \o pend
  /\ pend' = <<>>
  /\ nevents' = [pend |-> 0, running |-> nevents.running + nevents.pend]
  /\ due' = [e \in Event |-> IF e \in armed /\ due[e] # Late THEN due[e] - 1
                                                              ELSE due[e]]
  /\ tick' = "between"
  /\ UNCHANGED <<eventVars, it, budget, fired, armed>>

\* am_timer_tick_iterator_next enters its critical section.
NextEnters ==
  /\ tick = "between"
  /\ tick' = "next"
  /\ budget' = nevents.running
  /\ UNCHANGED <<eventVars, listVars, it, fired, history>>

\* The loop reaches the sentinel: the tick is over.
NextReturnsNull ==
  /\ tick = "next" /\ it = Len(events)
  /\ it' = 0
  /\ fired' = NoEvent
  /\ tick' = "idle"
  /\ UNCHANGED <<eventVars, listVars, budget, history>>

\* The loop reaches event e.
Reaches(e) ==
  /\ tick = "next" /\ it < Len(events)
  /\ e = events[it + 1]
  /\ budget' = budget - 1

\* Mutant: the count of running events is not decremented.
UnlinkUncounted(e) ==
  /\ events' = RemoveAt(events, it + 1)
  /\ owned' = owned \ {e}
  /\ UNCHANGED <<nevents, it, pend>>

\* am_slist_iterator_pop, and the bookkeeping of a removal.
Unlink(e) ==
  /\ events' = RemoveAt(events, it + 1)
  /\ nevents' = [nevents EXCEPT !.running = @ - 1]
  /\ owned' = owned \ {e}
  /\ UNCHANGED <<it, pend>>

NextRemoves(e) ==
  /\ Reaches(e)
  /\ e \in disarmed
  /\ Unlink(e)
  /\ disarmed' = disarmed \ {e}
  /\ UNCHANGED <<oneshot, interval, tick, fired, history>>

NextCounts(e) ==
  /\ Reaches(e)
  /\ e \notin disarmed /\ oneshot[e] > 1
  /\ oneshot' = [oneshot EXCEPT ![e] = @ - 1]
  /\ it' = it + 1
  /\ UNCHANGED <<interval, disarmed, owned, listVars, tick, fired, history>>

\* The event's time has come: the call returns it.
Fires(e) ==
  /\ Reaches(e)
  /\ e \notin disarmed /\ oneshot[e] = 1
  /\ fired' = e
  /\ tick' = "between"
  /\ UNCHANGED <<interval, disarmed>>

NextFiresPeriodic(e) ==
  /\ Fires(e)
  /\ interval[e] # 0
  /\ oneshot' = [oneshot EXCEPT ![e] = interval[e]]
  /\ it' = it + 1
  /\ due' = [due EXCEPT ![e] = interval[e]]
  /\ UNCHANGED <<owned, listVars, armed>>

NextFiresOnce(e) ==
  /\ Fires(e)
  /\ interval[e] = 0
  /\ oneshot' = [oneshot EXCEPT ![e] = 0]
  /\ Unlink(e)
  /\ armed' = armed \ {e}
  /\ due' = [due EXCEPT ![e] = 0]

-----------------------------------------------------------------------------
Next ==
  \/ \E e \in Event : Arm(e)
  \/ \E e \in Event : Disarm(e)
  \/ TickBegins
  \/ TickAppends
  \/ NextEnters
  \/ NextReturnsNull
  \/ \E e \in Event : NextRemoves(e)
  \/ \E e \in Event : NextCounts(e)
  \/ \E e \in Event : NextFiresPeriodic(e)
  \/ \E e \in Event : NextFiresOnce(e)

Ticker ==
  \/ TickBegins
  \/ TickAppends
  \/ NextEnters
  \/ NextReturnsNull
  \/ \E e \in Event :
       NextRemoves(e) \/ NextCounts(e) \/ NextFiresPeriodic(e) \/ NextFiresOnce(e)

Spec == Init /\ [][Next]_vars

\* The ticker thread or interrupt never stops (its task is am_ticker's in the
\* ports and in the examples), and a critical section is always left.
FairSpec == Spec /\ WF_vars(Ticker)

-----------------------------------------------------------------------------
\* Types.  nevents is bounded by the number of events: timer.c never checks
\* that it does not count an event twice.
TypeOK ==
  /\ events \in Seq(Event) /\ pend \in Seq(Event)
  /\ nevents \in [pend : 0 .. Cardinality(Event), running : 0 .. Cardinality(Event)]
  /\ it \in 0 .. Len(events)
  /\ oneshot \in [Event -> Nat]
  /\ interval \in [Event -> Nat]
  /\ disarmed \in SUBSET Event /\ owned \in SUBSET Event
  /\ tick \in {"idle", "append", "between", "next"}
  /\ budget \in 0 .. Cardinality(Event)
  /\ fired \in Event \cup {NoEvent}
  /\ armed \in SUBSET Event
  /\ due \in [Event -> Nat \cup {Late}]

\* An event is in one place of one list while the timer owns it, and in none
\* otherwise (both lists are linked through the same field of the event, so
\* linking it twice would cut a list), the counts are the lists' lengths, and
\* am_timer_is_empty_unsafe, asked before a sleep, misses no event.
LinkedOnce ==
  /\ \A i, j \in DOMAIN events : events[i] = events[j] => i = j
  /\ \A i, j \in DOMAIN pend : pend[i] = pend[j] => i = j
  /\ \A i \in DOMAIN events, j \in DOMAIN pend : events[i] # pend[j]
  /\ \A e \in Event : e \in owned <=> Linked(e)
  /\ nevents = [pend |-> Len(pend), running |-> Len(events)]
  /\ IsEmpty <=> owned = {}

\* Events the ticker will still reach in the tick in progress.
Ahead == IF tick \in {"between", "next"} THEN {events[i] : i \in it + 1 .. Len(events)}
                                         ELSE {}

\* An armed event is never late, and at most one tick early: with due ticks to
\* go on the caller's clock, its counter is due, or one less after a tick that
\* was already being iterated when the event was armed again has counted; in
\* the tick in progress the ticker still has that tick to count.
\* So the assertion on oneshot_ticks holds, and that on the ticker's nevents.
OnTime ==
  /\ \A e \in armed :
       IF e \in Ahead THEN GetTicks(e) - due[e] \in {0, 1}
                      ELSE due[e] - GetTicks(e) \in {0, 1}
  /\ \A e \in armed : GetTicks(e) >= 1
  /\ tick = "next" => budget >= Len(events) - it

\* What am_timer_is_armed answers is what the last arm, disarm or one-shot
\* firing says, although the ticker takes the event off its list only later.
ArmedAsAsked == armed = {e \in Event : IsArmed(e)}

\* No event fires that was disarmed after it was armed last.
FiresOnlyArmed ==
  [][tick = "next" /\ tick' = "between" => fired' \in armed]_vars

\* An armed event fires, unless it is disarmed or keeps being armed again.
FiresEventually ==
  \A e \in Event :
    <>[][~Arm(e)]_vars => (e \in armed ~> (e \notin armed \/ fired = e))

=============================================================================
