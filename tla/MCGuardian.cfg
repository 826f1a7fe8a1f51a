SPECIFICATION FairSpec
CONSTANTS
    MaxRestarts = 2
    MaxRetries = 1
    Window = 2
    MaxFaults = 1
INVARIANTS
    StormIsBounded
PROPERTIES
    
    KeepsTrying
