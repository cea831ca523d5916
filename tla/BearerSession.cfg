SPECIFICATION Spec
CONSTANTS
    Worker = {w1, w2}
    Cap = 1
    MaxSessions = 2
    MaxPairs = 3
    MaxFaults = 1
SYMMETRY Workers
CHECK_DEADLOCK FALSE
INVARIANTS OneShot RowsAgree
PROPERTY NeverRecreated
