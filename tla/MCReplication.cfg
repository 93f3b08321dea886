SPECIFICATION Spec
CONSTANTS
    Docs = {"a", "b", "h"}
    Updates <- ConflictAndEdit
    InitialSource = 4
    Hidden = {"h"}
    WithAtts = {3}
    Options <- Either
    PageSize = 1
    Capacity = 1
    MaxSessions = 2
    MaxFaults = 1
INVARIANTS
    CheckpointsAreSound
    SessionIsComplete
PROPERTIES
    SessionsEnd
    IsCopying
CHECK_DEADLOCK FALSE
