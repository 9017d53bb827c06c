SPECIFICATION MCSpec
CONSTANTS
    Width = 8
    Configs <- MCConfigs
    MaxRetries = 9
    MaxTicking = 2
    PreSampleRates <- MCPreSampleRates
    ConnectionLimit = 2
    MaxCPU = 2
    UserAvgs = {0, 1, 2, 4, 100}
    TraceCounts = {0, 1, 20}
    MaxPayloads = 4
    MaxDecays = 1
    MaxRounds = 2
    MaxRefreshes = 2
    Services = {web, db}
    Threads = {t1, t2}
    FactorN = 3
    FactorD = 2
    OffsetN = 1
    OffsetD = 2
    MaxTraces = 2
    MaxIdleDecays = 4
INVARIANTS
    DelayWithinBounds
    ConnectionsWithinLease
    KeptTracksRate
    TotalConserved
PROPERTY SilentServicesForgotten
CHECK_DEADLOCK FALSE
