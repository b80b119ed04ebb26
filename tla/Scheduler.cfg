SPECIFICATION Spec
CONSTANTS
    a = a
    b = b
    Sessions = {a}
    Services = {b}
    None = None
    TickRange = 14
    KeyRange = 6
    MaxDelay = 2
    MaxProcessed = 2
    Timeouts = {1, 2}
    Nices = {0}
    RuleNices <- MCRuleNices
    KillNice = 32
    MaxCalls = 1
    MaxRenices = 1
    MaxLesson = 2
INVARIANTS TicksTellTime TimersCovered PollsInTime CursorInQueue KeysTellOrder
