SPECIFICATION Spec
CONSTANTS
    Families = {f1}
    Operators = {o1}
    Files = {p1, p2}
    Recent = 1
    Keeps = {0, 1}
    MaxCommits = 6
    MaxRecords = 2
    MaxLeases = 3
    MaxCrashes = 1
    MaxLosses = 1
    None = None
SYMMETRY Interchangeable
INVARIANTS SessionLoads OutboxContinues
PROPERTIES HistoryIsKept RecoveryEvidenceStays
CHECK_DEADLOCK FALSE
