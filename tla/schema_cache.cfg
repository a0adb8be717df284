SPECIFICATION Spec
CONSTANTS
    p1 = p1
    p2 = p2
    p3 = p3
    p4 = p4
    c1 = c1
    c2 = c2
    c3 = c3
    c4 = c4
    Procs <- TwoProcs
    Calls <- ThreeCalls
    Home <- HomeTwo
    Bypass = {}
    Migrator = p2
    MaxAttempts = 3
    MaxIterations = 100
    MaxVersion = 2
    MaxFaults <- OneFailure
INVARIANTS
    TypeOK
    LockNotOrphaned
    SingleBuilder
    Coherent
PROPERTIES
    NeverOlder
    Monotonic
CHECK_DEADLOCK FALSE
