CONSTANTS
    MaxCycles = 2
    MaxTerminates = 2
    u1 = u1
    Unit = {u1}
    Kinds = {"uds"}
SPECIFICATION WorkSpec
INVARIANT ServingIsReachable
