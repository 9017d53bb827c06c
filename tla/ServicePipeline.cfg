SPECIFICATION FairSpec
CONSTANTS
    Services = {web, db}
    ChanCap = 2
    MaxProduced = 3
INVARIANTS
    OnlyUpgradesSent
    CacheMatchesWhatIsSent
PROPERTIES
    ChangesAreFlushed
    StopReturns
CHECK_DEADLOCK FALSE
