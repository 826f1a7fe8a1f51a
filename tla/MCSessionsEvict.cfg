SPECIFICATION Spec
CONSTANTS
    Sessions = {s1, s2}
    QueueSize = 2
    MaxSessions = 1
    SessionTimeout = 1
    StuckThreshold = 1
    HardTimeout = 2
    IdleTimeout = 3
    MaxToolRounds = 1
    SwallowsCancel = FALSE
    MaxMsgs = 3
INVARIANTS
    SerialProcessing
    QueueHasReader
    EntryHasTask
PROPERTIES
    InOrder
    ImplementsService
