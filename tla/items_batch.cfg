SPECIFICATION Spec
CONSTANTS
    Mutations = {m1, m2}
    Menu <- BatchMenu
    Cockroach = FALSE
    MaxAttempts = 2
    MaxBatch = 3
    SharedCache = FALSE
    Readers = {q}
    MaxGets = 2
    MaxFaults = 1
SYMMETRY MutationsAlike
INVARIANTS
    NoEventOfFailure
CHECK_DEADLOCK FALSE
