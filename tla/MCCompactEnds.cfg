SPECIFICATION Spec
CONSTANTS
    RawIds = {}
    ToolSize = 2
    Window = 8
    Reserve = 1
    Margin = 1
    RequestBase = 1
    SummaryBase = 2
    SummaryReserve = 1
    CorrectionSize = 2
    RawTurns = 1
    SoftLimit = 4
    MinGrowth = 2
    Cadence = 2
    Spacing = 1
    MinPressure = 20
    MinReclaim = 1
    MinReduction = 1
    MinReductionRatio = 10
    MaxAttempts = 2
    MaxPasses = 2
    SummarySizes = {1, 3}
    MaxBatch = 1
    MaxHistory = 4
    CarefulClient = TRUE
    None = None
INVARIANTS TypeOK NewestAreKept
PROPERTIES CompactEnds
CHECK_DEADLOCK FALSE
