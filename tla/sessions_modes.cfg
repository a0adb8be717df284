SPECIFICATION FairSpec
CONSTANTS
    r1 = r1
    r2 = r2
    r3 = r3
    r4 = r4
    None = None
    Requests <- ThreeRequests
    Modes = {"session", "json"}
    ReturnsRows = TRUE
    SessionTTL = 2
    GracePeriod = 1
    MaxTime = 3
    MaxFailures = 1
INVARIANTS
    OneRotation
PROPERTIES
    SuccessorAppears
CHECK_DEADLOCK FALSE
