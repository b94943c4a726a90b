CONSTANTS
  Callbacks = {c1, c2}
  Free = Free
  App = App
  MaxClocks = 2
  MaxReports = 3
SPECIFICATION FairSpec
INVARIANTS
  TypeOK
  SampleNeverPanics
PROPERTIES
  TimeMovesForward
  TickReturns
CHECK_DEADLOCK FALSE
