CONSTANTS
  Callbacks = {c1, c2}
  Peaks = {0, 1, 2}
  MaxCallbacks = 3
SPECIFICATION FairSpec
INVARIANTS
  TypeOK
  PeakIsLoudest
PROPERTIES
  PeakNeverFalls
  UpdateEnds
