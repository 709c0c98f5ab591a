SPECIFICATION FairSpec
CONSTANTS
    BufSize = 3
    PipeSize = 4
    Byte <- MCByte
    Outputs <- MCOutputs
    Behind <- MCBehind
    MaxInts = 2
INVARIANTS
    TypeOK
    SingleLine
    StaysInside
PROPERTIES
    Returns
    ImplementsCall
CHECK_DEADLOCK FALSE
