CONSTANTS
    Clients = {c1, c2}
    Pids = {p1, p2}
    NoClient = NoClient
    Machines <- AllMachines
SPECIFICATION FairSpec
INVARIANTS
    TypeOK
    OldSystemStaysBootable
    InstallerCarriesManifest
    ChoiceBootsItsManifest
PROPERTIES
    StagedOnce
    BootsOnce
    OldSystemReturns
    HandoffBoots
CHECK_DEADLOCK FALSE
