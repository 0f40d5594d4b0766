CONSTANTS
    d1 = d1
    d2 = d2
    d3 = d3
    Disks = {d1, d2, d3}
    Names = {sda, sdb, sdc}
    Hosts <- AllHosts
    MaxAttempts = 2
    FailingAttempts = 1
    StableNames = TRUE
SPECIFICATION FairSpec
INVARIANTS
    TypeOK
    DoneIsComplete
PROPERTIES
    OnlyChosenDiskChanges
    WritesAfterVerification
    RetryInstalls
CHECK_DEADLOCK FALSE
