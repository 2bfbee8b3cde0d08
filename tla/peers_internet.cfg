SPECIFICATION Spec
CONSTANTS
    Addrs = {a1, a2, a3}
    Ips = {i1}
    IpOf <- OneIp
    Keys = {k1, k2}
    Sids = {}
    Entries = {e1, e2, e3}
    Punchers = {p1, p2}
    Dialled = {a1}
    Kinds = {"punch", "ack", "disconnect", "eject"}
    Commands = {}
    LanHost = FALSE
    MaxPeers = 3
    SavedMuted = FALSE
    None = None
SYMMETRY Symmetry
VIEW View
CHECK_DEADLOCK FALSE
INVARIANTS
    TypeOK
    RoomCapacity
    OneSlotPerKey
    BoxIndexed
PROPERTIES
    KeepsRoster
