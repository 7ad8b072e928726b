SPECIFICATION Spec
CONSTANTS
    ChannelSize = 2
    PageLimit = 2
    MaxEvents = 3
    Readers = {r1}
INVARIANTS ReconnectIsComplete
CHECK_DEADLOCK FALSE
