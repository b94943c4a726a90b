CONSTANTS
  Callbacks = {c1, c2}
  Free = Free
  App = App
  MaxClocks = 2
  MaxReports = 3
SPECIFICATION FairSpec
INVARIANT NoPanicOfItsOwn
CHECK_DEADLOCK FALSE
