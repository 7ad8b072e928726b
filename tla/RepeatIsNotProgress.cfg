SPECIFICATION Spec
CONSTANTS
    Tools = {"look", "act"}
    Outputs = {"x", "y", "ERROR"}
    ErrorOutputs = {"ERROR"}
    Phases = {}
    Entry = "first"
    Phase <- NoPhase
    Checks <- RepeatChecks
    Bindings <- NoBindings
    ToolPolicy = "auto"
    MaxInvalid = 3
    MaxIdle = 2
    Requested = {0}
    RunMaxSteps = 0
    DefaultSteps = 5
    SeenCap = 4
    Requests <- FreeRequests
    MaxBatch = 2
    MaxDecisions = 7
    MaxCrashes = 0
    Interruptible = FALSE
    None = None
INVARIANT IdleAgrees
CHECK_DEADLOCK FALSE
