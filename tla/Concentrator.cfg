SPECIFICATION FairSpec
CONSTANTS
    BSize = 2
    MaxTime = 6
    MaxSpans = 2
    MaxSkew = 1
INVARIANTS
    SpansConserved
    OnTimeSpansFindTheirBucket
    DelayAtMostTwoBuckets
    StopDeliversLastFlush
PROPERTY StopReturns
CHECK_DEADLOCK FALSE
