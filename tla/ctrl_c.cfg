\* One session, left by Ctrl+C at its prompt.
SPECIFICATION FairSpec
CONSTANTS
    MaxSessions = 1
CHECK_DEADLOCK FALSE
PROPERTIES
    CtrlCLeaves
