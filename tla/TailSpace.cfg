CONSTANTS
    DiskSectors = 32768
    LiveRootHeadroom = 1
    MinRootHeadroom = 2
    DefaultHttpsStaging = 4
    Hosts <- TailHosts
    Sources <- LiveOnly
    MaxAttempts = 1
    TornResize = FALSE
SPECIFICATION Spec
INVARIANTS
    UsesAvailableSpace
CHECK_DEADLOCK FALSE
