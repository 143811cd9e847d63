SPECIFICATION Spec
CONSTANTS
    c1 = c1
    c2 = c2
    MaxPeriod = 2
    Checkers = {c1}
    Drawn <- MCDrawn
    MaxRetries = 2
    MaxRestarts = 0
    Faults = FALSE
    None = None
PROPERTY ProofsReachTheChain
CHECK_DEADLOCK FALSE
