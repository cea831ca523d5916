SPECIFICATION Spec
CONSTANTS
    i1 = i1
    i2 = i2
    w1 = w1
    w2 = w2
    Instance = {i1, i2}
    Worker = {w1, w2}
    Home <- MCHome
    NoWorker = NoWorker
    Reattempts = 1
    MaxRequests = 3
    MaxCalls = 2
    MaxTokens = 3
    MaxFaults = 1

    
    
PROPERTIES
    RowStaysEnded
CHECK_DEADLOCK FALSE
