SPECIFICATION Spec
CONSTANTS
    sub = sub
    other = other
    merge = merge
    tui = tui
    cli = cli
    job = job
    job2 = job2
    v1 = v1
    v2 = v2
    nodeA = nodeA
    NoUid = NoUid
    NoSel = NoSel
    NoEntry = NoEntry
    NoFile = NoFile
    Partial = Partial
    Torn = Torn
    Free = Free
    Uids <- Profiles
    Remote <- OneSubscription
    Local <- OneLocal
    Refs <- MergeOfSub
    Versions <- TwoVersions
    Selections <- OneSelection
    Clients <- Tui
    Tasks <- OneTask
    ProcOf <- OneProcess
    Switchable <- MainProfiles
    Kinds <- UpdateAndSelect
    Aborts = FALSE
    IoFaults = "never"
    RuntimeFaults = FALSE
    MaxOps = 2
INVARIANTS
    SavedSelectionSurvives
CHECK_DEADLOCK FALSE
