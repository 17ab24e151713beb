SPECIFICATION Spec
CONSTANTS
    sub = sub
    other = other
    merge = merge
    tui = tui
    cli = cli
    job = job
    job2 = job2
    v1 = v1
    v2 = v2
    nodeA = nodeA
    NoUid = NoUid
    NoSel = NoSel
    NoEntry = NoEntry
    NoFile = NoFile
    Partial = Partial
    Torn = Torn
    Free = Free
    Uids <- TwoProfiles
    Remote <- TwoSubscriptions
    Local <- NoLocal
    Refs <- NoRefs
    Versions <- OneVersion
    Selections <- OneSelection
    Clients <- TuiAndCli
    Tasks <- NoTask
    ProcOf <- ProcessEach
    Switchable <- MainProfiles
    Kinds <- ActivateAndDelete
    Aborts = FALSE
    IoFaults = "never"
    RuntimeFaults = TRUE
    MaxOps = 2
INVARIANTS
    NoMisleadingCurrent
SYMMETRY AlikeProcesses
CHECK_DEADLOCK FALSE
