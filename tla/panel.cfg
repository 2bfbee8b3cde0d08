\* Three addresses for two peers, the whole input thread of a host.
SPECIFICATION Spec
CONSTANTS
    Addrs = {a1, a2, a3}
    MaxPeers = 3
    None = None
SYMMETRY Symmetry
CHECK_DEADLOCK FALSE
INVARIANTS
    TypeOK
    BarCurrent
PROPERTIES
    KicksHighlighted
