SPECIFICATION Spec
CONSTANTS
    Addrs = {a1, a2}
    Controls <- MCControls
    MaxChanges = 3
    NULL = NULL
INVARIANTS
    TypeOK
    Mirrors
    VolumeShown
PROPERTIES
    CatchesUp
