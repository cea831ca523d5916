CONSTANTS
    o1 = o1
    o2 = o2
    Node <- MCNode
    Deps <- MCDeps
    Lvl <- MCLvl
    NumLevels <- MCNumLevels
    Order <- MCOrder
    Control = 2
    Operator = {o1}
    StartMayFail = TRUE
    SignalFrom = "boot"
    OperatorFrom = "up"
SPECIFICATION FairSpec

    
    
    
PROPERTIES
    ShutdownCompletes
