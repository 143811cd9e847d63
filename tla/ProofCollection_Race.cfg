SPECIFICATION Spec
CONSTANTS
    Checkers = {c1}
    MaxRuns = 2
    MaxSessions = 2
    MaxPeriod = 1
    MaxRetries = 1
    None = None
INVARIANT OneReceiptPerDay
CHECK_DEADLOCK FALSE
