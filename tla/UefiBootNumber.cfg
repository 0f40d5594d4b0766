CONSTANTS
    Clients = {c1}
    Pids = {p1}
    NoClient = NoClient
    Machines <- UefiMachines
SPECIFICATION Spec
INVARIANTS
    BootNextIsInstaller
CHECK_DEADLOCK FALSE
