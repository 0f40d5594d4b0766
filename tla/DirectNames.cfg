CONSTANTS
    d1 = d1
    d2 = d2
    d3 = d3
    Disks = {d1, d2, d3}
    Names = {sda, sdb, sdc}
    Hosts <- PlainHosts
    MaxAttempts = 1
    FailingAttempts = 0
    StableNames = FALSE
SPECIFICATION Spec
PROPERTIES
    OnlyChosenDiskChanges
CHECK_DEADLOCK FALSE
