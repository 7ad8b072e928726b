SPECIFICATION FairSpec
CONSTANTS
    c = c
    r = r
    x = x
    XKind = "message"
    RunSaves = 1
    None = None
    Writers <- MCWriters
    Processes <- MCProcesses
    ProcessOf <- MCProcessOf
    Kind <- MCKind
    MaxSaves <- MCMaxSaves
    MaxTries = 2
    LeaseTicks = 1
PROPERTY SaveResolves
CHECK_DEADLOCK FALSE
