SPECIFICATION Spec
CONSTANTS
    first = first
    n1 = n1
    n2 = n2
    http = http
    https = https
    other = other
    First = first
    News = {n1, n2}
    Proxies <- MCProxies
    Taken = {other}
    MaxStartRetries = 1
    ListenerMax = 1
    GlobalMax = 1
CHECK_DEADLOCK FALSE
INVARIANTS NoSessionCut NoListenerForgotten
PROPERTIES ServiceRestored OldLeaves
