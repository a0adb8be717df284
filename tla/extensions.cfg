SPECIFICATION Spec
CONSTANTS
    p1 = p1
    p2 = p2
    Processes <- TwoProcesses
    Partial = Partial
    MaxInstalls = 1
    MaxToggles = 2
    MaxFaults = 1
    MaxEvents = 3
INVARIANTS
    TypeOK
    OneSyncer
    SettingsCurrent
    ExtensionsCurrent
PROPERTIES
    LoadsEnd
CHECK_DEADLOCK FALSE
