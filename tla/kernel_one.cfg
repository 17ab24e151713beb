SPECIFICATION FairSpec
CONSTANTS
    keys = keys
    update = update
    tick = tick
    cli = cli
    Free = Free
    NoPid = NoPid
    NoMarker = NoMarker
    Clients <- TwoClients
    Monitors <- OneMonitor
    ProcOf <- OneProcess
    Commands <- NoCommand
    KindsOf <- TuiKinds
    Faults = FALSE
    SignalFaults = FALSE
    MaxCores = 3
    MaxOps = 2
    MaxEnds = 0
INVARIANTS
    OneCore
PROPERTIES
    ExitIsNoticed
CHECK_DEADLOCK FALSE
