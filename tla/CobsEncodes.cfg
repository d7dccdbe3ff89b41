\* The constants of the code.
CONSTANTS
  ZerolessMax = 223
  ByteMax = 255
  MaxSource = 6
SPECIFICATION Spec
INVARIANT EncodesSource
