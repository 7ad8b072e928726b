SPECIFICATION LockSpec
CONSTANTS
    Savers = {s1, s2}
    Enders = {e1}
    Cancellers = {c1}
    Origin = s1
    Nobody = Nobody
INVARIANTS CycleNeedsExpiry
PROPERTIES TransactionsEnd
CHECK_DEADLOCK FALSE
