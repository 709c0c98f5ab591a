SPECIFICATION FairSpec
CONSTANTS
    Networks = {"home", "far"}
    rssi <- MCRssi
    NULL = NULL
    MaxLoads = 2
PROPERTIES
    AlwaysAnswers
CHECK_DEADLOCK FALSE
