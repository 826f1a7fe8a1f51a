SPECIFICATION FairSpec
CONSTANTS
    Tasks = {t1, t2}
    MaxIterations = 3
CHECK_DEADLOCK FALSE
INVARIANTS
    PollAgreesWithList
    NoEmptySuccess
PROPERTIES
    CompletedStays
    EveryTaskEnds
