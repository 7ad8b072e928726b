SPECIFICATION Spec
CONSTANTS
    RawIds = {1}
    ToolSize = 2
    Window = 10
    Reserve = 1
    Margin = 1
    RequestBase = 1
    SummaryBase = 2
    SummaryReserve = 1
    CorrectionSize = 2
    RawTurns = 2
    SoftLimit = 7
    MinGrowth = 2
    Cadence = 2
    Spacing = 1
    MinPressure = 20
    MinReclaim = 1
    MinReduction = 1
    MinReductionRatio = 10
    MaxAttempts = 2
    MaxPasses = 2
    SummarySizes = {1, 3}
    MaxBatch = 2
    MaxHistory = 6
    CarefulClient = TRUE
    None = None
INVARIANTS HistoryIsGrouped GroupingIsRight IdsAreUnique
PROPERTIES SummaryShrinksRequest
CHECK_DEADLOCK FALSE
