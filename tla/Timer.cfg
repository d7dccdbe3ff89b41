\* Three timer events, one-shot and periodic.
CONSTANTS
  e1 = e1
  e2 = e2
  e3 = e3
  NoEvent = NoEvent
  Event = {e1, e2, e3}
  Ticks = {0, 2}
  Intervals = {0, 2}
SPECIFICATION FairSpec
INVARIANTS LinkedOnce OnTime ArmedAsAsked
PROPERTY FiresEventually
