SPECIFICATION Spec
CONSTANTS
  Capacity = 3
  MaxPeriod = 5
  Counts = {0, 1}
  MaxPushes = 5
  None = None
INVARIANT
  WalkFindsMostRecent
CHECK_DEADLOCK FALSE
