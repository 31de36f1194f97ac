SPECIFICATION Spec
CONSTANTS
  b1 = b1
  b2 = b2
  b3 = b3
  m1 = m1
  m2 = m2
  m3 = m3
  m4 = m4
  Buffer <- MCBuffer
  Block <- MCBlock
  Byte = {1}
  Garbage = Garbage
  Null = Null
  Free = Free
  Alignment = 2
  MaxBytes = 3
INVARIANTS
  OneOwner
  SizeHonest
PROPERTY
  ImplementsBuffers
SYMMETRY
  BuffersAndBlocks
