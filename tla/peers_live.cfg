SPECIFICATION FairSpec
CONSTANTS
    Addrs = {a1, a2}
    Ips = {i1}
    IpOf <- OneIp
    Keys = {k1}
    Sids = {s1}
    Entries = {e1, e2}
    Punchers = {p1, p2}
    Dialled = {}
    Kinds = {"ack"}
    Commands = {}
    LanHost = TRUE
    MaxPeers = 3
    SavedMuted = FALSE
    None = None
VIEW View
CHECK_DEADLOCK FALSE
PROPERTIES
    UnconnectedSlotFreed
    ThreadsEnd
