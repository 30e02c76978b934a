SPECIFICATION FairSpec
CONSTANTS
  Size <- MCSize
  HeaderSize = 3
  BufferSize = 2
  Room = 3
  Modulus = 16
  ShortSends = 1
INVARIANTS TypeOK FramesInOrder
PROPERTIES ImplementsChannel SendEnds
