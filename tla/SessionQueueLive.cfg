SPECIFICATION Spec
CONSTANTS
    s1 = s1
    s2 = s2
    s3 = s3
    a = a
    b = b
    Sessions = {s1, s2}
    Servers = {a, b}
    Px = Px
    None = None
    MaxConn <- MCMaxConn
    MinConn <- MCMinConn
    MaxQueue <- MCMaxQueue
    FullConn = 3
    Retries = 1
    Redisp = TRUE
    Persist = FALSE
    Sticky = {a}
    MaxFlaps = 1
PROPERTY RequestsConclude
