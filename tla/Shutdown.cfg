SPECIFICATION FairSpec
CONSTANT ChanCap = 1
INVARIANTS
    StopsLeaveNothingBehind
PROPERTY ShutdownCompletes
CHECK_DEADLOCK FALSE
