SPECIFICATION FairSpec
CONSTANTS
    sub1 = sub1
    sub2 = sub2
    tui = tui
    cli = cli
    NoFile = NoFile
    NoTarget = NoTarget
    Targets <- OneTarget
    Callers <- OneCaller
    JobLimit = 1
    MaxJobs = 2
    MaxProgress = 1
    Reporting = {1}
    MaxRestarts = 1
    HistoryOn = TRUE
    DiskFaults = FALSE
    TmpNames <- OneSecond
INVARIANTS
    HistoryInv
    HistoryOutcomeIsReal
PROPERTY
    JobIsOver
CHECK_DEADLOCK FALSE
