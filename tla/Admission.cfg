SPECIFICATION Spec
CONSTANTS
    w1 = w1
    o1 = o1
    o2 = o2
    h1 = h1
    h2 = h2
    None = None
    Workers = {w1}
    Checkers = {1}
    Owners = {o1, o2}
    Keys = {o1, o2}
    Uris = {u1, u2}
    WorkerNodes <- MCWorkerNodes
    CheckerNodes <- MCCheckerNodes
    Posts = {h1, h2}
    DayTicks = 3
    Ttl = 1
    MaxPeriod = 2
    Capacity = 3
    Counts = {0, 1}
    MaxPushes = 2
    MaxEvents = 4
    Elements = 2
    Sample = 1
    Brand <- MCBrand
    Reward <- MCReward
    U16 = 4
    U32 = 3
SYMMETRY Symmetry
INVARIANTS TypeOK StartedWorkerAccepted
PROPERTIES CountInForce StartedCheckerAdmitted
CHECK_DEADLOCK FALSE
