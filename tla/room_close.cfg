\* One guest who comes once to an open room that closes.
SPECIFICATION FairSpec
CONSTANTS
    Host = h
    Guests = {g1}
    Open = open
    Codes = {open}
    MaxPeers = 2
    MaxSessions = 1
    None = None
CHECK_DEADLOCK FALSE
INVARIANTS
    ClosingReachesAll
