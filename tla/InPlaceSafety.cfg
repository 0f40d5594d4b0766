CONSTANTS
    DiskSectors = 32768
    LiveRootHeadroom = 1
    MinRootHeadroom = 2
    DefaultHttpsStaging = 4
    Hosts <- AlignedHosts
    Sources <- AllSources
    MaxAttempts = 2
    TornResize = FALSE
SPECIFICATION FairSpec
INVARIANTS
    TypeOK
    VolumesKept
    ArchiveOutlivesErasure
    ContainerKept
    ContainerRelistable
    FormatsListedPartition
    MountedStaysListed
    FailureBeforeErasureBoots
PROPERTIES
    ErasedOnlyWithArchive
    KeepsCustody
    EveryAttemptEnds
    AttemptInstalls
CHECK_DEADLOCK FALSE
