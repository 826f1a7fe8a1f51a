SPECIFICATION FairSpec
CONSTANTS
    Sessions = {s1}
    QueueSize = 1
    MaxSessions = 1
    SessionTimeout = 1
    StuckThreshold = 1
    HardTimeout = 2
    IdleTimeout = 3
    MaxToolRounds = 1
    SwallowsCancel = TRUE
    MaxMsgs = 3
PROPERTIES
    EverySettles
