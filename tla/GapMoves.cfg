CONSTANTS
    DiskSectors = 32768
    LiveRootHeadroom = 1
    MinRootHeadroom = 2
    DefaultHttpsStaging = 4
    Hosts <- GapHosts
    Sources <- HttpsOnly
    MaxAttempts = 1
    TornResize = FALSE
SPECIFICATION Spec
PROPERTIES
    MovesNothing
CHECK_DEADLOCK FALSE
