CONSTANTS
  MaxHostFrames = 6
  Channels = 2
  ChannelMap <- MCChannelMap
  BlockSizes <- MCBlockSizes
  Stale = Stale
  MaxFrames = 4
  MaxSamples = 60
  MaxGlitches = 3
SPECIFICATION FairSpec
INVARIANTS
  TypeOK
  RingInOrder
  LessThanOneBlockWaiting
  NoGlitches
PROPERTIES
  CallbackReturns
  Implements
CHECK_DEADLOCK FALSE
