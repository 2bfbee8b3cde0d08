SPECIFICATION FairSpec
CONSTANTS
    Msgs = {m1}
    Peers = {p1, p2, p3}
    MaxMoves = 1
    None = None
CHECK_DEADLOCK FALSE
INVARIANTS
    TypeOK
    OkMeansReceived
    DoneMatchesStatus
PROPERTIES
    KeepsPromise
    EveryMessageResolved
    AckDroppedOnlyEarly
