SPECIFICATION Spec
CONSTANTS
    Addrs = {a1, a2}
    Ips = {i1}
    IpOf <- OneIp
    Keys = {k1}
    Sids = {s1}
    Entries = {e1, e2}
    Punchers = {p1}
    Dialled = {}
    Kinds = {"punch", "disconnect"}
    Commands = {"kick", "ban", "mute", "say", "leave"}
    LanHost = TRUE
    MaxPeers = 2
    SavedMuted = FALSE
    None = None
SYMMETRY Symmetry
VIEW View
CHECK_DEADLOCK FALSE
INVARIANTS
    EntryInOnePlace
PROPERTIES
    KeepsRoster
