\* Every tree of four states, in two instances of two handlers.
CONSTANTS
  a = a
  b = b
  top = top
  Fn = {a, b}
  Instance = {0, 1}
  TopFn = top
  DepthMax = 6
SPECIFICATION FairSpec
INVARIANTS NoAssertFails PlaceExact
PROPERTIES Refines CallsReturn
