SPECIFICATION Spec
CONSTANTS
    o1 = o1
    o2 = o2
    None = None
    Workers = {w1}
    Checkers = {0}
    Owners = {o1, o2}
    Keys = {o1, o2}
    Uris = {u1}
    Elements = 2
    Sample = 2
    Brand <- MCBrand
    Reward <- MCReward
    U16 = 3
    U32 = 3
    U64 = 40000
    MaxPeriod = 1
    Launch = 0
    Capacity = 3
    Counts = {1, 3}
    MaxPushes = 2
    LockDays = 1
    Supply = 3
    InitialSpace = 8
    MaxIncrease = 1
    MaxTransfers = 1
SYMMETRY Symmetry
INVARIANT ProofsOfFinishedDays
CHECK_DEADLOCK FALSE
