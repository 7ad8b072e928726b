SPECIFICATION Spec
CONSTANTS
    Tools = {"look", "act"}
    Outputs = {"x", "ERROR"}
    ErrorOutputs = {"ERROR"}
    Phases = {"first", "second"}
    Entry = "first"
    Phase <- MCPhase
    Checks <- MCChecks
    Bindings <- MCBindings
    ToolPolicy = "auto"
    MaxInvalid = 2
    MaxIdle = 2
    Requested = {0, 1}
    RunMaxSteps = 0
    DefaultSteps = 3
    SeenCap = 4
    Requests <- MCRequests
    MaxBatch = 2
    MaxDecisions = 5
    MaxCrashes = 1
    Interruptible = TRUE
    None = None
INVARIANTS PhaseOfBatch CompletionIsEarned InvalidAgreesUnlessCrash
PROPERTIES NoToolAfterTerminal RunEnds
CHECK_DEADLOCK FALSE
