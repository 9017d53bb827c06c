SPECIFICATION Spec
CONSTANTS
    Windows <- MCWindows
    Keys <- MCKeys
    DistKeys <- MCDistKeys
    MaxEntriesPerPayload = 2
    MaxBuckets = 2
    MaxFlushes = 1
INVARIANT CountsConserved
CHECK_DEADLOCK FALSE
