------------------------------ MODULE Watchdog ------------------------------
(***************************************************************************)
(* apps/examples/watchdog: a task that feeds a watchdog three times, and a *)
(* watchdog that ends the program when it is not fed in time.  Ticks are   *)
(* counted, in units larger than the program's milliseconds.  A task may   *)
(* leave an event in its queue for Lag ticks.                              *)
(***************************************************************************)
EXTENDS Mailboxes

CONSTANTS FeedTicks,    \* AM_FEED_TIMEOUT_MS
          BarkTicks,    \* AM_BARK_TIMEOUT_MS
          Lag           \* ticks that an event waits in a queue at most

\* Both tasks may be late between a feed that is in time and the next one.
LagIsSmall == 2 * Lag < BarkTicks - FeedTicks

Object == {"watched", "wdt"}
Timer == {"feed", "bark"}

VARIABLES queue, left,      \* ticks until a timer event fires, 0 when disarmed
          due,              \* timer events the iterator has not reached
          fired,            \* timer events taken from the list, to be posted
          age,              \* ticks that the first event of a queue waited
          feedsNum, barked

vars == <<queue, left, due, fired, age, feedsNum, barked>>

Event(id) == [id |-> id]
Owner(t) == IF t = "feed" THEN "watched" ELSE "wdt"
QueueSize(a) == IF a = "watched" THEN 1 ELSE 2

\* The initial transitions lead to states that arm the timer events.
WatchedArms == FeedTicks
WdtArms == BarkTicks

Init ==
  /\ queue = [a \in Object |-> <<>>]
  /\ left = [t \in Timer |-> IF t = "feed" THEN WatchedArms ELSE WdtArms]
  /\ due = {} /\ fired = {}
  /\ age = [a \in Object |-> 0]
  /\ feedsNum = 0 /\ barked = FALSE

Handled(a, q) ==
  /\ queue' = q
  /\ age' = [age EXCEPT ![a] = 0]

WatchedTimeout ==
  /\ ~barked /\ Receives(queue, "watched", "feed")
  /\ IF feedsNum < 3
       THEN /\ Handled("watched", Send(Take(queue, "watched"), {"wdt"}, <<Event("FEED")>>))
            /\ feedsNum' = feedsNum + 1
       ELSE Handled("watched", Take(queue, "watched")) /\ UNCHANGED feedsNum
  /\ UNCHANGED <<left, due, fired, barked>>

\* Mutant: the bark timer is not armed again.
WdtFeedLost ==
  /\ ~barked /\ Receives(queue, "wdt", "FEED")
  /\ Handled("wdt", Take(queue, "wdt"))
  /\ UNCHANGED <<left, due, fired, feedsNum, barked>>

WdtFeed ==
  /\ ~barked /\ Receives(queue, "wdt", "FEED")
  /\ Handled("wdt", Take(queue, "wdt"))
  /\ left' = [left EXCEPT !["bark"] = BarkTicks]
  /\ due' = due \ {"bark"}
  /\ UNCHANGED <<fired, feedsNum, barked>>

WdtBark ==
  /\ ~barked /\ Receives(queue, "wdt", "bark")
  /\ Handled("wdt", Take(queue, "wdt"))
  /\ barked' = TRUE
  /\ UNCHANGED <<left, due, fired, feedsNum>>

\* A tick: every armed event counts down; those at zero are due.
Tick ==
  /\ ~barked /\ due = {} /\ fired = {}
  /\ \A a \in Object : queue[a] # <<>> => age[a] < Lag
  /\ left' = [t \in Timer |-> IF left[t] = 0 THEN 0 ELSE left[t] - 1]
  /\ due' = {t \in Timer : left[t] = 1}
  /\ age' = [a \in Object |-> IF queue[a] = <<>> THEN 0 ELSE age[a] + 1]
  /\ UNCHANGED <<queue, fired, feedsNum, barked>>

\* The iterator takes an event, and arms it again if it has an interval.
TickNext(t) ==
  /\ ~barked /\ t \in due /\ fired = {}
  /\ due' = due \ {t} /\ fired' = {t}
  /\ left' = [left EXCEPT ![t] = IF t = "feed" THEN FeedTicks ELSE 0]
  /\ UNCHANGED <<queue, age, feedsNum, barked>>

TickPost(t) ==
  /\ ~barked /\ t \in fired
  /\ queue' = Send(queue, {Owner(t)}, <<Event(t)>>)
  /\ fired' = {}
  /\ UNCHANGED <<left, due, age, feedsNum, barked>>

Step ==
  \/ WatchedTimeout \/ WdtFeed \/ WdtBark \/ Tick
  \/ \E t \in Timer : TickNext(t) \/ TickPost(t)

Next == Step \/ (barked /\ UNCHANGED vars)      \* exit

Fairness == WF_vars(Step)

Spec == Init /\ [][Next]_vars /\ Fairness

-----------------------------------------------------------------------------
TypeOK ==
  /\ left \in [Timer -> 0 .. BarkTicks] /\ due \subseteq Timer /\ fired \subseteq Timer
  /\ age \in [Object -> 0 .. Lag] /\ feedsNum \in 0 .. 3 /\ barked \in BOOLEAN

\* As long as the tasks are not late, the watchdog does not bark at a task that
\* feeds it, and a queue of one and one of two events are enough.
NoFalseAlarm ==
  LagIsSmall =>
    /\ barked => feedsNum = 3
    /\ \A a \in Object : Len(queue[a]) <= QueueSize(a)

\* A task that stops feeding is noticed.
FailureNoticed == (feedsNum = 3) ~> barked

=============================================================================
