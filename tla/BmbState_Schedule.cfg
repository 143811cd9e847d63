SPECIFICATION Spec
CONSTANTS
  Capacity = 3
  MaxPeriod = 5
  Counts = {0, 1}
  MaxPushes = 5
  None = None
INVARIANTS
  TypeOK
  LookupMostRecent
PROPERTIES
  EntriesIncrease
  StartedPeriodsFixed
  RefinesSchedule
CHECK_DEADLOCK FALSE
