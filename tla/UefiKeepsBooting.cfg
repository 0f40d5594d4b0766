CONSTANTS
    Clients = {c1}
    Pids = {p1}
    NoClient = NoClient
    Machines <- UefiMachines
SPECIFICATION FairSpec
PROPERTIES
    OrdinaryBootReturns
CHECK_DEADLOCK FALSE
