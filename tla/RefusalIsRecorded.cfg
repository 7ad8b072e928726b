SPECIFICATION Spec
CONSTANTS
    a = a
    b = b
    c = c
    cli = cli
    KeyRoute = "atomic"
    None = None
    Requests <- TwoRequests
    Keys = {"k"}
    KeyOf <- TwoKeyOf
    Contents <- MCContents
    ContentOf <- TwoContentOf
    Route <- TwoRoute
    CommandTicks = 2
INVARIANT RefusalIsRecorded
CHECK_DEADLOCK FALSE
