SPECIFICATION Spec
CONSTANTS
    Msgs = {m1, m2}
    Peers = {p1}
    MaxMoves = 0
    None = None
CHECK_DEADLOCK FALSE
INVARIANTS
    IndicatorIsOwn
