SPECIFICATION PSpec
CONSTANTS
    MsPerSec = 2
    NsPerMs = 2
    interval = 3
    MaxSec = 3
INVARIANTS
    PTypeOK
    NeverDies
    SleepsTheRest
    KeepsPeriod
CHECK_DEADLOCK FALSE
