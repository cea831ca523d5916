SPECIFICATION Spec
CONSTANTS
    w1 = w1
    w2 = w2
    b1 = b1
    Worker = {w1, w2}
    Browser = {b1}
    ExpireIn = 4
    ExtendThreshold = 3
    TickLength = 2
    Sliding = TRUE
    MaxSessionsPerUser = 1
    MaxSessions = 2
    MaxFaults = 1
    MaxConcurrentHashes = 1
    MaxTickets = 2
    MaxPasswords = 2
    MaxKeys = 2

    
    
PROPERTIES
    EndedStaysEnded
    ChangedPasswordStands
    EveryLoginAnswers
CONSTRAINT Focused
CHECK_DEADLOCK FALSE
