SPECIFICATION Spec
CONSTANTS
  Digit = 4
  NarrowHalf = 32
  WideHalf = 256
  NarrowSize = 2
  WideSize = 3
  Bytes <- MCBytes
  Beyond = Beyond
  Inputs <- MCInputs
INVARIANTS
  RoundTrip
  InBounds
CHECK_DEADLOCK FALSE
