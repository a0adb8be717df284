SPECIFICATION FairSpec
CONSTANTS
    p1 = p1
    p2 = p2
    p3 = p3
    p4 = p4
    c1 = c1
    c2 = c2
    c3 = c3
    c4 = c4
    Procs <- TwoProcs
    Calls <- ThreeCalls
    Home <- HomeTwo
    Bypass = {c2}
    Migrator = p1
    MaxAttempts = 3
    MaxIterations = 2
    MaxVersion = 1
    MaxFaults <- OneOfEach
INVARIANTS
    LockNotOrphaned
    WaiterHasWakeup
PROPERTIES
    CallsEnd
CHECK_DEADLOCK FALSE
