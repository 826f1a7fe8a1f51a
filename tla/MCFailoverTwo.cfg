SPECIFICATION Spec
CONSTANTS
    Callers = {c1, c2}
    Streamers = {}
    Listed <- MCListed2
    Priority <- MCPriority2
    Family <- MCFamily2
    Cooldowns <- MCCooldowns
    CooldownCap = 2
    DeadAfter = 2
    DeadCooldown = 3
    FamilyDeadTime = 1
    MinInterval = 1
    BreakAfter = 2
    BreakTime = 1
    GlobalTimeout = 1
    NapLimit = 1
SYMMETRY
    MCSymmetry
INVARIANTS
    HealthAgrees
    BreakerAgrees
PROPERTIES
    DeadStaysDead
    NoUsableLeftOut
