SPECIFICATION Spec
CONSTANTS
    old = old
    new = new
    k1 = k1
    k2 = k2
    Old = old
    New = new
    Keys = {k1, k2}
    None = None
    OldUpdates <- MCOldUpdates
    Offset = 29
    Conns <- MCConns
    Touched = {k2}
    MaxEvents = 2
    MaxFlight = 1
CHECK_DEADLOCK FALSE
INVARIANTS AssignedToLiveSession LessonComplete HandoverComplete SyncDriven
