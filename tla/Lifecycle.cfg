CONSTANTS
    MaxCycles = 3
    MaxTerminates = 2
    u1 = u1
    Unit = {u1}
    Kinds = {"web", "jobsched", "sse", "uds"}
SPECIFICATION WorkSpec
INVARIANTS
    CycleLeavesNothing
PROPERTIES
    ReportMeansDown
    TerminatedOnce
    StopReachesReady
