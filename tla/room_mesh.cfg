\* Two guests of an open room with place for both; nobody leaves.
SPECIFICATION QuietSpec
CONSTANTS
    Host = h
    Guests = {g1, g2}
    Open = open
    Codes = {open}
    MaxPeers = 3
    MaxSessions = 1
    None = None
CHECK_DEADLOCK FALSE
PROPERTIES
    JoinersMeet
