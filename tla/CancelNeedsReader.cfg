SPECIFICATION SlowSpec
CONSTANTS
    ChannelSize = 2
    PageLimit = 2
    MaxEvents = 5
    Readers = {}
PROPERTIES CancelEndsRun
CHECK_DEADLOCK FALSE
