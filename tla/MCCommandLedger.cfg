SPECIFICATION Spec
CONSTANTS
    a = a
    b = b
    c = c
    cli = cli
    KeyRoute = "stream"
    None = None
    Requests <- MCRequests
    Keys <- MCKeys
    KeyOf <- MCKeyOf
    Contents <- MCContents
    ContentOf <- MCContentOf
    Route <- MCRoute
    CommandTicks = 2
SYMMETRY Duplicates
INVARIANTS
    EffectOnce
    SuccessIsRecorded
PROPERTIES
    RefinesIdempotentCommand
CHECK_DEADLOCK FALSE
