\* One guest who comes once, a room with a passcode that changes.
SPECIFICATION FairSpec
CONSTANTS
    Host = h
    Guests = {g1}
    Open = open
    Codes = {open, pin}
    MaxPeers = 2
    MaxSessions = 1
    None = None
CHECK_DEADLOCK FALSE
PROPERTIES
    NewJoinersNeedNewCode
