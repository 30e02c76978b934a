SPECIFICATION Spec
CONSTANTS
  Size <- MCSize
  HeaderSize = 3
  BufferSize = 2
  Room = 3
  Modulus = 16
  ShortSends = 2
INVARIANT NothingGarbled
