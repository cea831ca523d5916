SPECIFICATION BrokerSpec
CONSTANTS
    s1 = s1
    s2 = s2
    a = a
    b = b
    Sub = {s1, s2}
    Topic = {a, b}
    Named <- MCNamed
    QueueCapacity = 1
    MaxCycles = 2
    MaxEvents = 2
INVARIANTS NothingLeftBehind SubscribedAtRedis MissesAreTold QuietIsExact
CHECK_DEADLOCK FALSE
