\* Two producers, a consumer and a flusher on a queue of two slots.
CONSTANTS
  p1 = p1
  p2 = p2
  c1 = c1
  f1 = f1
  d1 = d1
  d2 = d2
  s1 = s1
  NoEvent = NoEvent
  Producer = {p1, p2}
  Consumer = {c1}
  Flusher = {f1}
  Event = {d1, d2, s1}
  Dynamic = {d1, d2}
  Capacity = 2
  RefMax = 3
  Margins = {0, 1}
  HeldMargins = {0}
SPECIFICATION Spec
INVARIANTS
  RingConsistent
  EventsAccounted
PROPERTY RefinesDeque
