\* A buffer of six bytes and windows of any size: the smallest ones, the half
\* of the buffer and all of it.
CONSTANTS
  None = None
  Size = 6
  Requests = {0, 1, 3, 5}
SPECIFICATION FairSpec
INVARIANTS DataIntact SizesExact
PROPERTY Served
