SPECIFICATION Spec
CONSTANTS
    keys = keys
    update = update
    tick = tick
    cli = cli
    Free = Free
    NoPid = NoPid
    NoMarker = NoMarker
    Clients <- OneClient
    Monitors <- OneMonitor
    ProcOf <- OneProcess
    Commands <- NoCommand
    KindsOf <- TuiKinds
    Faults = FALSE
    SignalFaults = TRUE
    MaxCores = 2
    MaxOps = 3
    MaxEnds = 0
INVARIANTS
    OneCore
CHECK_DEADLOCK FALSE
