\* An active object stops on a dynamic event.
CONSTANTS
  p1 = p1
  work = work
  stop = stop
  AO = {1}
  NTasks = 2
  Main = Main
  Poster = {p1}
  Event = {work, stop}
  Stop = {stop}
  Dynamic = {stop}
  NoEvent = NoEvent
  Boot = {}
  Subscriber = {1}
  Margins = {1}
  Capacity = 2
  Posted = {work, stop}
  Published = {work}
  Rounds = 1
SPECIFICATION Spec
INVARIANT FreedWithAllocator
