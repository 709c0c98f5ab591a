SPECIFICATION Spec
CONSTANTS
    Ifaces = {"eth0", "wlan0"}
    Devices = {"sda", "sdb"}
    Configurations <- MCConfigurations
    Intervals = {0, 3}
    MsPerSec = 2
    Kilo = 2
    W = 1024
    LoopLimit = 2
    MaxCount = 3
    NULL = NULL
INVARIANTS
    TypeOK
    OwnTraffic
    BusyTime
    PercRange
CHECK_DEADLOCK FALSE
