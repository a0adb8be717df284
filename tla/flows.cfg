SPECIFICATION Spec
CONSTANTS
    p1 = p1
    p2 = p2
    Processes <- TwoProcesses
    SyncStore = "redis"
    Redis = Redis
    MaxChanges = 2
    MaxTime = 2
    MaxFaults = 1
INVARIANTS
    TypeOK
    OneGeneration
    HandlersCurrent
PROPERTIES
    TickOnce
    ReloadsEnd
CHECK_DEADLOCK FALSE
