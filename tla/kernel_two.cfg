SPECIFICATION Spec
CONSTANTS
    keys = keys
    update = update
    tick = tick
    cli = cli
    Free = Free
    NoPid = NoPid
    NoMarker = NoMarker
    Clients <- TuiAndCli
    Monitors <- OneMonitor
    ProcOf <- TwoProcesses
    Commands <- CliOnly
    KindsOf <- CliKinds
    Faults = TRUE
    SignalFaults = FALSE
    MaxCores = 2
    MaxOps = 2
    MaxEnds = 1
INVARIANTS
    TypeOK
    SettledWhenFree
    ChildIsShown
CHECK_DEADLOCK FALSE
