CONSTANTS
  Streams = {s1, s2}
  NoStream = NoStream
  Free = Free
SPECIFICATION FairSpec
INVARIANTS
  TypeOK
  NoOrphanStream
  NoStaleBuffer
  FailureAnnounced
PROPERTIES
  ClearedOnlyBetweenStreams
  CallReturns
