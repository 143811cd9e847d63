SPECIFICATION Spec
CONSTANTS
  Capacity = 3
  MaxPeriod = 5
  Counts = {0, 1}
  MaxPushes = 5
  None = None
PROPERTY
  EntriesAlwaysIncrease
CHECK_DEADLOCK FALSE
