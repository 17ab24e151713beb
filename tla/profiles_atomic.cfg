SPECIFICATION FairSpec
CONSTANTS
    sub = sub
    other = other
    merge = merge
    tui = tui
    cli = cli
    job = job
    job2 = job2
    v1 = v1
    v2 = v2
    nodeA = nodeA
    NoUid = NoUid
    NoSel = NoSel
    NoEntry = NoEntry
    NoFile = NoFile
    Partial = Partial
    Torn = Torn
    Free = Free
    Uids <- Profiles
    Remote <- TwoSubscriptions
    Local <- NoLocal
    Refs <- MergeOfSub
    Versions <- TwoVersions
    Selections <- OneSelection
    Clients <- Tui
    Tasks <- OneTask
    ProcOf <- OneProcess
    Switchable <- MainProfiles
    Kinds <- Transactions
    Aborts = FALSE
    IoFaults = "forward"
    RuntimeFaults = TRUE
    MaxOps = 2
INVARIANTS
    NoMisleadingCurrent
PROPERTIES
    TransactionsAreAtomic
    WaitingUpdateEnds
CHECK_DEADLOCK FALSE
