SPECIFICATION Spec
CONSTANTS
    w1 = w1
    w2 = w2
    i1 = i1
    i2 = i2
    Worker = {w1, w2}
    Instance = {i1, i2}
    At <- MCAt
    Burst = 2
    Increment = 1
    IncrPeriod = 2
    CleanupOlderThan = 4
    CasAttempts = 2
    MaxSkew = 1
    MaxLag = 1
    MaxTime = 5
    MaxObjects = 2
    MaxRequests = 4
    MaxFaults = 1
SYMMETRY Swapped
INVARIANTS
    
    RefusalHonest
CHECK_DEADLOCK FALSE
