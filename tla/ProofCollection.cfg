SPECIFICATION Spec
CONSTANTS
    Checkers = {c1, c2}
    MaxRuns = 2
    MaxSessions = 2
    MaxPeriod = 2
    MaxRetries = 2
    None = None
SYMMETRY Symmetry
INVARIANTS TypeOK ReceiptsAreStored ReceiptsAggregated
PROPERTY WritesAreTimely
CHECK_DEADLOCK FALSE
