\* Small instances of every part; a byte of the encoder and of the subscription
\* list, the clock and the tables of tasks and pools are smaller than the code's.
CONSTANTS
  Parts = {"onesize", "pool", "hub", "fsm", "slist", "dlist", "cobs", "bit", "throttle", "pal",
           "uv", "sleep"}
  None = None
  NTotal = 4
  Margins = {0, 1, 2}
  e1 = e1
  e2 = e2
  e3 = e3
  Event = {e1, e2, e3}
  Sizes = {1, 2, 3, 4}
  Blocks = 2
  MaxPools = 4
  RefMax = 2
  NHandlers = 3
  ByteBits = 2
  Topics = {1}
  RecursionMax = 2
  a = a
  b = b
  State = {a, b}
  d1 = d1
  d2 = d2
  d3 = d3
  Item = {d1, d2, d3}
  MainList = MainList
  OtherList = OtherList
  ZerolessMax = 5
  ByteMax = 8
  MaxSource = 11
  Indices = {0, 3, 4, 7, 8, 60, 63}
  Modulus = 8
  Interval = 3
  Slots = 2
  Handles = 2
  MaxCreate = 3
  MaxNotify = 1
  Mutexes = 2
  MaxUvCreate = 2
  UsPerTick = 4
  Periods = {0, 1, 3, 15}
  MaxLate = 31
SPECIFICATION LibSpec
INVARIANTS
  BlocksAccounted
  PoolsExact
  ValuesExact
  LinksExact
  TasksKnown
PROPERTIES
  ImplementsPool
  HubServes
  FsmImplementsHsm
  ListsIterate
  TasksEnd
