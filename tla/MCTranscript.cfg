SPECIFICATION TranscriptSpec
CONSTANTS
    MaxTries = 2
    MaxEntries = 7
    MaxRevision = 5
    MaxFaults = 2
INVARIANTS NeverRefused TranscriptInOrder CommittedLoads
PROPERTIES SavedIsComplete
CHECK_DEADLOCK FALSE
