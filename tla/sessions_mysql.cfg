SPECIFICATION Spec
CONSTANTS
    r1 = r1
    r2 = r2
    r3 = r3
    r4 = r4
    None = None
    Requests <- ThreeRequests
    Modes = {"session"}
    ReturnsRows = FALSE
    SessionTTL = 2
    GracePeriod = 1
    MaxTime = 4
    MaxFailures = 0
INVARIANTS
    NoFork
CHECK_DEADLOCK FALSE
