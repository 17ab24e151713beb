SPECIFICATION Spec
CONSTANTS
    sub = sub
    other = other
    merge = merge
    tui = tui
    cli = cli
    job = job
    job2 = job2
    v1 = v1
    v2 = v2
    nodeA = nodeA
    NoUid = NoUid
    NoSel = NoSel
    NoEntry = NoEntry
    NoFile = NoFile
    Partial = Partial
    Torn = Torn
    Free = Free
    Uids <- TwoProfiles
    Remote <- OneSubscription
    Local <- OneLocal
    Refs <- NoRefs
    Versions <- TwoVersions
    Selections <- OneSelection
    Clients <- Tui
    Tasks <- OneTask
    ProcOf <- OneProcess
    Switchable <- MainProfiles
    Kinds <- AllOperations
    Aborts = TRUE
    IoFaults = "always"
    RuntimeFaults = TRUE
    MaxOps = 2
INVARIANTS
    ProfileInv
    LockIsHeldInTransactions
    RollbackRestores
    CommitAppliesCurrent
SYMMETRY AlikeVersions
CHECK_DEADLOCK FALSE
