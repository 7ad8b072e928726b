SPECIFICATION FairSpec
CONSTANTS
    a = a
    b = b
    c = c
    cli = cli
    KeyRoute = "stream"
    None = None
    Requests <- TwoRequests
    Keys = {"k"}
    KeyOf <- TwoKeyOf
    Contents <- MCContents
    ContentOf <- TwoContentOf
    Route <- TwoRoute
    CommandTicks = 2
PROPERTY StartedMeansWorking
CHECK_DEADLOCK FALSE
