\* Two active objects, started twice, and two threads that post to them.
CONSTANTS
  p1 = p1
  p2 = p2
  work = work
  stop = stop
  AO = {1, 2}
  Main = Main
  Poster = {p1, p2}
  Event = {work, stop}
  Stop = {stop}
  NoEvent = NoEvent
  Margins = {1}
  Capacity = 2
  Rounds = 2
SPECIFICATION FairSpec
INVARIANTS
  NoAssertFails
PROPERTIES
  SelectsHighest
  EventsHandled
  MainReturns
