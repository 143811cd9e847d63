SPECIFICATION Spec
CONSTANTS
    c1 = c1
    c2 = c2
    MaxPeriod = 3
    Checkers = {c1, c2}
    Drawn <- MCDrawn
    MaxRetries = 2
    MaxRestarts = 1
    Faults = TRUE
    None = None
INVARIANTS TypeOK SelectedHaveStored ReportedIsOnChain
PROPERTIES OnlyLateRetriesLand TasksEnd DaysPickedUp
CHECK_DEADLOCK FALSE
