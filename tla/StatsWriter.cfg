SPECIFICATION Spec
CONSTANTS
    Windows <- MCWindows
    Keys <- MCKeys
    DistKeys <- MCDistKeys
    MaxEntriesPerPayload = 2
    MaxBuckets = 2
    MaxFlushes = 2
INVARIANTS
    SplitConserves
CHECK_DEADLOCK FALSE
