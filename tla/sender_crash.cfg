SPECIFICATION Spec
CONSTANTS
    Addrs = {a1, a2}
    Ips = {i1}
    IpOf <- OneIp
    Keys = {k1}
    Sids = {}
    Entries = {e1, e2, e3}
    Punchers = {p1, p2}
    Dialled = {}
    Kinds = {"punch", "ack", "disconnect", "eject"}
    Commands = {"say"}
    LanHost = TRUE
    MaxPeers = 3
    SavedMuted = FALSE
    None = None
SYMMETRY Symmetry
VIEW View
CHECK_DEADLOCK FALSE
INVARIANTS
    SenderSurvives
