SPECIFICATION Spec
CONSTANTS
    sub1 = sub1
    sub2 = sub2
    tui = tui
    cli = cli
    NoFile = NoFile
    NoTarget = NoTarget
    Targets <- TwoTargets
    Callers <- OneCaller
    JobLimit = 2
    MaxJobs = 2
    MaxProgress = 0
    Reporting = {}
    MaxRestarts = 0
    HistoryOn = TRUE
    DiskFaults = FALSE
    TmpNames <- OneSecond
INVARIANTS
    AnnouncedIsPersisted
SYMMETRY Alike
CHECK_DEADLOCK FALSE
