SPECIFICATION Spec
CONSTANTS
    Ids = {1, 2}
    MaxBatch = 2
    MaxLength = 5
    Minimum = 2
INVARIANTS GroupsAreTheCut SplitKeepsMinimum SingleCallIsPaired
CHECK_DEADLOCK FALSE
