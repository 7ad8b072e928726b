SPECIFICATION Spec
CONSTANTS
    a = a
    b = b
    SecondCommand = "first"
    FirstKind = "resume"
    OtherKind = "resume"
    None = None
    Activations <- MCActivations
    Commands <- MCCommands
    CommandOf <- MCCommandOf
    Kind <- MCKind
    CommandTicks = 1
    MaxSteps <- MCMaxSteps
    FirstSteps = 0
    MaxFence = 1
INVARIANT ResumeInputOnce
CHECK_DEADLOCK FALSE
