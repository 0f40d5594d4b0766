CONSTANTS
    d1 = d1
    d2 = d2
    d3 = d3
    Disks = {d1, d2, d3}
    Names = {sda, sdb, sdc}
    Hosts <- AskedHosts
    MaxAttempts = 1
    FailingAttempts = 0
    StableNames = TRUE
SPECIFICATION FairSpec
PROPERTIES
    TangIsBound
CHECK_DEADLOCK FALSE
