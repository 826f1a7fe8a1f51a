SPECIFICATION FairSpec
CONSTANTS
    Procs = {p1, p2}
    Tasks = {t1}
    Callers = {c1, c2}
    MaxRetries <- MCRetries
    MaxCalls = 3
CHECK_DEADLOCK FALSE
INVARIANTS
    LoneWorker
    OneAtATime
    NoneLeftBehind
    DoneOnce
PROPERTIES
    EveryCallReturns
