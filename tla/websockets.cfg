SPECIFICATION Spec
CONSTANTS
    Clients = {c1, c2}
    Messages = {1, 2}
    Uids = {u}
    NoUid = NoUid
    None = None
    MaxChanges = 1
    MaxFaults = 1
INVARIANTS
    TypeOK
    InitFirst
    ClosedIsRemoved
    OnePerUid
    
PROPERTY SilentClosed
CHECK_DEADLOCK FALSE
