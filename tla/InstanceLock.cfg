SPECIFICATION FairSpec
CONSTANTS
    Procs = {p, q}
    Inodes = {f, g, h}
    None = None
INVARIANTS
    TypeOK
    NoStaleLock
    ExclusiveUnlessRaced
PROPERTIES
    Answered
CHECK_DEADLOCK FALSE
