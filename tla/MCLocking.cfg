CONSTANTS
    A = A
    B = B
    c1 = c1
    c2 = c2
    c3 = c3
    x = x
    y = y
    Instance = {A, B}
    Home <- MCHome
    NoProof = NoProof
    NoCaller = NoCaller
    MaxAsks = 1
    MaxBoot <- MCMaxBoot
    Caller = {c1, c2, c3}
    Name = {x, y}
    Asks <- MCAsks
SPECIFICATION FairSpec
INVARIANTS
    MutualExclusion
    RunsFullyBacked
    LedgersAgree
PROPERTIES
    GrantStands
    Exclusion
    EveryAskReturns
