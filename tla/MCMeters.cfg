SPECIFICATION Spec
CONSTANTS
    Kilo = 64
    PageKb = 2
    Volts = 2
    Noise <- MCNoise
    Interface = "eth0"
    W = 1048576
    W32 = 1024
    NULL = NULL
    CRASH = CRASH
    UNDEFINED = UNDEFINED
    Worlds <- MCWorlds
    MaxMoves = 2
INVARIANTS
    TypeOK
    OneMoment
    RamWithin
CHECK_DEADLOCK FALSE
