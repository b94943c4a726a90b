CONSTANTS
  Devices = {d1, d2}
  None = None
  Offers <- MCOffers
  RuntimeRates = {44, 46, 48}
SPECIFICATION Spec
INVARIANTS
  TypeOK
  RightPitch
  NearestHighEnd
  DefaultPlayable
CHECK_DEADLOCK FALSE
