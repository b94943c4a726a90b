CONSTANTS
  MaxHostFrames = 6
  Channels = 2
  BlockSizes = {0, 1, 2, 5, 16, 45}
  Rates <- MCRates
  MaxOutputs = 14
  MaxLost = 20
SPECIFICATION FairSpec
INVARIANTS
  TypeOK
  StagingFits
  ExactInterpolation
  LookaheadBounded
PROPERTIES
  CallReturns
  Implements
CHECK_DEADLOCK FALSE
