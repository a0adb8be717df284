SPECIFICATION Spec
CONSTANTS
    r1 = r1
    r2 = r2
    r3 = r3
    r4 = r4
    None = None
    Requests <- FourRequests
    Modes = {"session"}
    ReturnsRows = TRUE
    SessionTTL = 2
    GracePeriod = 1
    MaxTime = 4
    MaxFailures = 1
SYMMETRY FourAlike
INVARIANTS
    TypeOK
    RefreshesAgree
    NoFork
    NoReturn
    ReturnedIsBacked
CHECK_DEADLOCK FALSE
