SPECIFICATION Spec
CONSTANTS
    Addrs = {a1}
    Ips = {i1}
    IpOf <- OneIp
    Keys = {k1}
    Sids = {}
    Entries = {e1}
    Punchers = {p1}
    Dialled = {}
    Kinds = {"punch"}
    Commands = {}
    LanHost = TRUE
    MaxPeers = 3
    SavedMuted = FALSE
    None = None
CHECK_DEADLOCK FALSE
PROPERTIES
    DeadlineSparesConnected
