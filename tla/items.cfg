SPECIFICATION Spec
CONSTANTS
    Mutations = {m1, m2}
    Menu <- WholeMenu
    Cockroach = TRUE
    MaxAttempts = 2
    MaxBatch = 3
    SharedCache = TRUE
    Readers = {q}
    MaxGets = 2
    MaxFaults = 1
SYMMETRY MutationsAlike
INVARIANTS
    TypeOK
    DeferredEventsHappened
    AnsweredIsAnnounced
    ServedFresh
    LimitHolds
CHECK_DEADLOCK FALSE
