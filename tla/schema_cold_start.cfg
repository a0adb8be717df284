SPECIFICATION Spec
CONSTANTS
    p1 = p1
    p2 = p2
    p3 = p3
    p4 = p4
    c1 = c1
    c2 = c2
    c3 = c3
    c4 = c4
    Procs <- FourProcs
    Calls <- FourCalls
    Home <- HomeFour
    Bypass = {}
    Migrator = p1
    MaxAttempts = 3
    MaxIterations = 100
    MaxVersion = 1
    MaxFaults <- NoFaults
INVARIANTS
    NoLoopReported
CHECK_DEADLOCK FALSE
