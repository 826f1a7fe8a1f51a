SPECIFICATION FairSpec
CONSTANTS
    a1 = a1
    Answers = {a1}
    MaxRetries = 2
    MaxUpdates = 3
    MaxCrashes = 1
INVARIANTS
    ForgottenHasCause
    RepeatNeedsCrash
    UnseenIsRecoverable
PROPERTIES
    EveryUpdateEnds
