SPECIFICATION Spec
CONSTANTS
    w1 = w1
    w2 = w2
    w3 = w3
    w4 = w4
    None = None
    Workers <- MCWorkers
    Modes = {"read_only", "repeatable", "idempotent", "reconcile"}
    MaxAttempts = 2
SYMMETRY Owners
INVARIANTS
    CallsAreRecorded
    NoUnsafeRepeat
    ResultIsReal
PROPERTIES
    OutcomesStable
CHECK_DEADLOCK FALSE
