SPECIFICATION Spec
CONSTANTS
    w1 = w1
    w2 = w2
    Workers = {w1, w2}
    Trickling = {w2}
    Drawn <- MCDrawn
    DayTicks = 6
    MaxDay = 2
    PageSize = 2
    MaxRestarts = 1
    PERIOD_END_THRESHOLD = 5
    PERIOD_SKIP_THRESHOLD = 3
    HEALTH_ABORT_THRESHOLD = 1
    MAX_DELAY = 1
    RETRY_INTERVAL = 2
    MIN_EARLY = 2
    MAX_EARLY = 4
    MIN_INTERVAL = 1
    MAX_INTERVAL = 2
    PostTime = 0
INVARIANTS TypeOK SessionsAwaited PostsInTime EligibleMeasured
PROPERTIES ChecksStopEarly MeasuredOnce TasksEnd DaysPickedUp
CHECK_DEADLOCK FALSE
