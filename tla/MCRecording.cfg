CONSTANTS
  Streams = {i1, i2}
  Free = Free
  App = App
  Channels = 2
  Rate = 44
  DeviceRates = {44, 96}
  Offers <- MCOffers
  MaxFrames = 2
  MaxSamples = 3
SPECIFICATION FairSpec
INVARIANTS
  TypeOK
  CapturedInOrder
  ChannelsInStep
  ExportWhole
PROPERTY CaptureReturns
CHECK_DEADLOCK FALSE
