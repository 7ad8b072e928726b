SPECIFICATION Spec
CONSTANTS
    a = a
    b = b
    SecondCommand = "first"
    FirstKind = "resume"
    OtherKind = "resume"
    None = None
    Activations <- MCActivations
    Commands <- MCCommands
    CommandOf <- MCCommandOf
    Kind <- MCKind
    CommandTicks = 1
    MaxSteps <- MCMaxSteps
    FirstSteps = 1
    MaxFence = 2
INVARIANT SettledMeansEnded
CHECK_DEADLOCK FALSE
