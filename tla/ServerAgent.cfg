SPECIFICATION Spec
CONSTANTS
    None = None
    Backends = {"front"}
    SrvList <- OneList
    Resolution <- OneOrder
    TopDown <- OneOrder
    Track <- OneTrack
    Checked = {"a"}
    Agents = {"a"}
    Backups = {}
    SlowStarters = {"a"}
    Slow = 1
    WDiv = 2
    Rise = 2
    Fall = 2
    ErrLimit = 0
    OnError = "mark-down"
    CheckResults = {"failed", "passed", "cond"}
    Operated = {"a"}
    Orders = {"maint", "ready", "check", "agent"}
    Weights = {1}
    MayBeDisabled = {"a"}
INVARIANTS
    DownHasReason
PROPERTIES
    HealthyServerServes
CHECK_DEADLOCK FALSE
