SPECIFICATION FairSpec
CONSTANTS
    d = d
    u = u
    Jobs = {d, u}
    Defaults = {d}
    Kind <- MCKind
    Interval <- MCInterval
    MaxFailures = 2
    MaxTime = 3
    MaxOps = 2
CHECK_DEADLOCK FALSE
INVARIANTS
    RowsAgree
    FailuresEnd
PROPERTIES
    SpacedOut
    DueJobsRun
