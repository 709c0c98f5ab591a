SPECIFICATION FairSpec
CONSTANTS
    Networks = {"home", "far"}
    rssi <- MCRssi
    NULL = NULL
    MaxLoads = 2
INVARIANTS
    TypeOK
    Fresh
PROPERTIES
    Answers
CHECK_DEADLOCK FALSE
