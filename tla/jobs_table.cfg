SPECIFICATION Spec
CONSTANTS
    sub1 = sub1
    sub2 = sub2
    tui = tui
    cli = cli
    NoFile = NoFile
    NoTarget = NoTarget
    Targets <- TwoTargets
    Callers <- TwoCallers
    JobLimit = 2
    MaxJobs = 3
    MaxProgress = 0
    Reporting = {}
    MaxRestarts = 0
    HistoryOn = FALSE
    DiskFaults = FALSE
    TmpNames <- OneSecond
INVARIANTS
    OneActivePerTarget
    ActiveHasTask
    CancelledIsBeingStopped
    HandleHasUse
PROPERTIES
    OutcomeIsFinal
    CreatedComesFirst
SYMMETRY Alike
CHECK_DEADLOCK FALSE
