SPECIFICATION LiveSpec
CONSTANTS
    Callers = {c1}
    Streamers = {c1}
    Listed <- MCListed3
    Priority <- MCPriority3
    Family <- MCFamily3
    Cooldowns <- MCShort
    CooldownCap = 2
    DeadAfter = 1
    DeadCooldown = 1
    FamilyDeadTime = 1
    MinInterval = 1
    BreakAfter = 1
    BreakTime = 1
    GlobalTimeout = 1
    NapLimit = 1
INVARIANTS
    OneRequestEach
PROPERTIES
    EveryCallReturns
