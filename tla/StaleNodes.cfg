CONSTANTS
    DiskSectors = 32768
    LiveRootHeadroom = 1
    MinRootHeadroom = 2
    DefaultHttpsStaging = 4
    Hosts <- CloudHosts
    Sources <- LiveOnly
    MaxAttempts = 1
    TornResize = FALSE
SPECIFICATION Spec
INVARIANTS
    ErasureIsCarriedThrough
CHECK_DEADLOCK FALSE
