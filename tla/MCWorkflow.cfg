SPECIFICATION FairSpec
CONSTANTS
    Nodes <- MCNodes
    StartNode = "s"
    Kind <- MCKind
    NextNodes <- MCNextNodes
    Children <- MCChildren
    Runs = {r1, r2}
CHECK_DEADLOCK FALSE
INVARIANTS
    TypeOK
    OnlyAfterPass
    HonestResult
    NoneLeftRunning
PROPERTIES
    EveryRunEnds
