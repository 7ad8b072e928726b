SPECIFICATION Spec
CONSTANTS
    a = a
    b = b
    SecondCommand = "other"
    FirstKind = "run"
    OtherKind = "resume"
    None = None
    Activations <- MCActivations
    Commands <- MCCommands
    CommandOf <- MCCommandOf
    Kind <- MCKind
    CommandTicks = 1
    MaxSteps <- MCMaxSteps
    FirstSteps = 0
    MaxFence = 2
INVARIANTS
    OneRunningRun
PROPERTIES
    ClosedRunsStayClosed
    InterruptionReachesCommand
CHECK_DEADLOCK FALSE
