SPECIFICATION FairSpec
CONSTANTS
    Requests <- MCRequests
    Traces <- MCTraces
    Extractor = "analyzed"
    RawCapacity = 1
    MaxRounds = 1
INVARIANTS
    TracesAccountedFor
    CountsLostOnlyInRace
    WrittenIffKept
PROPERTY HandlersReturn
CHECK_DEADLOCK FALSE
