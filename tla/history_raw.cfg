\* A session after one that was ended while its user typed.
SPECIFICATION FairSpec
CONSTANTS
    MaxSessions = 2
CHECK_DEADLOCK FALSE
INVARIANTS
    HistoryCooked
