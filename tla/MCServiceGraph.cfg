CONSTANTS
    s1 = s1
    s2 = s2
    s3 = s3
    Label = {s1, s2, s3}
    DepList <- MCDepList
    OwnList <- MCOwnList
SPECIFICATION GraphSpec
SYMMETRY Sym
INVARIANTS
    GraphSound
    LevelsOrder
CHECK_DEADLOCK FALSE
