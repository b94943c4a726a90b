CONSTANTS
  Streams = {s1, s2}
  NoStream = NoStream
  Free = Free
SPECIFICATION LoopSpec
INVARIANT RetryRequested
