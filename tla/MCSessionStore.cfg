SPECIFICATION Spec
CONSTANTS
    c = c
    r = r
    x = x
    XKind = "run"
    RunSaves = 2
    None = None
    Writers <- MCWriters
    Processes <- MCProcesses
    ProcessOf <- MCProcessOf
    Kind <- MCKind
    MaxSaves <- MCMaxSaves
    MaxTries = 2
    LeaseTicks = 1
INVARIANTS
    TypeOK
    SnapshotIsHistory
    FencesNeverRegress
    OutcomeTruth
PROPERTIES
    FencedCommit
    RefinesRevisionLog
CHECK_DEADLOCK FALSE
