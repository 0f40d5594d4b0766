CONSTANTS
    Commands = {c1, c2}
    Steady = {c2}
    w = w
    d = d
    Tar = Tar
    Img = Img
    Json = Json
    Nested = Nested
    NestedJson = NestedJson
    Workspaces = {w}
    Devices = {d}
    Files = {Tar, Img, Json, Nested, NestedJson}
    Outputs = {Tar, Img, Nested}
    Descriptor <- Suffixes
    Inside <- Locations
    Jobs <- SmallJobs
    NoCommand = NoCommand
    NoTree = NoTree
SPECIFICATION FairSpec
INVARIANTS
    TypeOK
    SourcesKept
    MountUndone
    DescriptorNamesArchive
PROPERTIES
    FinishedKept
    PackSucceeds
CHECK_DEADLOCK FALSE
