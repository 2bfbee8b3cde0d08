\* One guest who comes twice, a room with a passcode that changes.
SPECIFICATION FairSpec
CONSTANTS
    Host = h
    Guests = {g1}
    Open = open
    Codes = {open, pin}
    MaxPeers = 2
    MaxSessions = 2
    None = None
CHECK_DEADLOCK FALSE
INVARIANTS
    LockedNeedsPasscode
