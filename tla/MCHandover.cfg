CONSTANTS
  Streams = {s1, s2}
  NoStream = NoStream
  Free = Free
  BlockSize = 2
  MaxFrames = 3
  MaxProduced = 5
SPECIFICATION HandoverSpec
INVARIANTS
  HandoverTypeOK
  NoRepeat
  InOrder
PROPERTY LossBounded
