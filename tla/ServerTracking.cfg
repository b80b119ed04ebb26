SPECIFICATION Spec
CONSTANTS
    None = None
    Backends = {"front", "back"}
    SrvList <- ChainList
    Resolution <- ChainOrder
    TopDown <- ChainDown
    Track <- ChainTrack
    Checked = {"a"}
    Agents = {}
    Backups = {"b", "c"}
    SlowStarters = {"b"}
    Slow = 2
    WDiv = 2
    Rise = 2
    Fall = 2
    ErrLimit = 2
    OnError = "mark-down"
    CheckResults = {"failed", "passed", "cond"}
    Operated = {"a", "b"}
    Orders = {"FMAINT", "FDRAIN", "ready", "drain", "maint", "health", "weight"}
    Weights = {0, 1}
    MayBeDisabled = {"a", "b"}
INVARIANTS
    AdminInherited
    TrackersFollow
    BalancerView
CHECK_DEADLOCK FALSE
