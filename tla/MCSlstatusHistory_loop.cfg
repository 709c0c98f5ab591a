SPECIFICATION HFairSpec
CONSTANTS
    modules <- MCModules
    LoopLimit = 4
    Pids = {p1, p2, p3}
    NULL = NULL
    CRASH = CRASH
    MaxTerms = 2
    Observed = {3, 4, 5}
INVARIANTS
    TypeOK
    ChildBound
    FreshStatus
    RightSlot
    OnTime
PROPERTIES
    Implements
    Terminates
    KeepsUpdating
CHECK_DEADLOCK FALSE
