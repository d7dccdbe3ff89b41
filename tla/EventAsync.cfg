\* A publisher and two handlers that may publish the dynamic event they handle.
\* Posts are first in first out: else a stream of them starves what is queued.
CONSTANTS
  p1 = p1
  d1 = d1
  s1 = s1
  NoEvent = NoEvent
  Publisher = {p1}
  NHandlers = 2
  Event = {d1, s1}
  Dynamic = {d1}
  Capacity = 2
  RefMax = 8
  Topics = {d1}
  Forwarded = {d1}
  Lifo = {FALSE}
  Margins = {0}
  CountedMargins = {0}
SPECIFICATION FairSpec
INVARIANTS
  SubscribersRegistered
  EventsAccounted
PROPERTIES
  SubscribersServed
  EventsRecycled
