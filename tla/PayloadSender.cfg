SPECIFICATION FairSpec
CONSTANTS
    MaxQueuedPayloads = 2
    MaxQueuedBytes = 3
    MaxAge = 1
    Sizes <- MCSizes
    MaxPayloads = 4
    MaxTime = 2
INVARIANTS
    AccountedOnce
    QueueWithinLimits
    EnqueueNeverPanics
    RetryOutstandingWhenQueuing
PROPERTIES
    NoOvertaking
    ImplementsLedger
    QueueDrains
    StopReturns
CHECK_DEADLOCK FALSE
