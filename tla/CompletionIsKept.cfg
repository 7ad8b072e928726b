SPECIFICATION Spec
CONSTANTS
    a = a
    b = b
    SecondCommand = "first"
    FirstKind = "run"
    OtherKind = "run"
    None = None
    Activations <- MCActivations
    Commands <- MCCommands
    CommandOf <- MCCommandOf
    Kind <- MCKind
    CommandTicks = 1
    MaxSteps <- MCMaxSteps
    FirstSteps = 0
    MaxFence = 1
PROPERTY CompletionIsKept
CHECK_DEADLOCK FALSE
