SPECIFICATION MCSpec
CONSTANTS
    Inputs <- MCInputs
    MaxInt64 = 31
    Year2000 = 0
    Latest = 20
    Scale = 420
    Precision = 1000
    Services = {"a", "b"}
    DeepSize = 7
    WireWidth = 24
    FixedBytes = 3
INVARIANTS
    RootIsAnOrphan
    OneEntryPerVisit
    SubtracesAreDescendants
    SublayersConserveTime
    RoundTrip
CHECK_DEADLOCK FALSE
