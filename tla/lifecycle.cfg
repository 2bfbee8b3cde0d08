\* Two sessions of one process, each host or guest.
SPECIFICATION FairSpec
CONSTANTS
    MaxSessions = 2
CHECK_DEADLOCK FALSE
INVARIANTS
    TypeOK
    HandlerBelongs
    PanelClosed
    RoomNeedsHandshake
PROPERTIES
    SessionReturns
    GuestWaitEnds
    BannedLeaves
