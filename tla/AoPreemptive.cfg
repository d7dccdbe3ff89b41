\* Two active objects; threads post, publish and tell them to stop.
CONSTANTS
  p1 = p1
  work = work
  stop = stop
  AO = {1, 2}
  NTasks = 2
  Main = Main
  Poster = {p1}
  Event = {work, stop}
  Stop = {stop}
  Dynamic = {}
  NoEvent = NoEvent
  Boot = {work}
  Subscriber = {1, 2}
  Margins = {1}
  Capacity = 2
  Posted = {work, stop}
  Published = {work}
  Rounds = 1
SPECIFICATION FairSpec
INVARIANTS
  NoAssertFails
  StartupGate
PROPERTIES
  EventsHandled
  MainReturns
