SPECIFICATION Spec
CONSTANTS
    Instance = {i1, i2}
    CoordMode = "CrossProc"
    Job <- MCJob
    Lists <- MCLists
    U = 2
    Margin = 1
    MarkLifetime = 4
    MaxSkew = 1
    Exec = {2881, 2882}
    MaxLag = 1
    Epoch = 2878
    MaxTime = 2883
    MaxAdds = 1
    MaxFaults = 1
SYMMETRY Instances
INVARIANTS
    
    
    OnSchedule
CHECK_DEADLOCK FALSE
