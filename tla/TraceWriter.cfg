SPECIFICATION FairSpec
CONSTANTS
    MaxSpansPerPayload = 2
    TraceSizes <- MCTraceSizes
    TransactionCounts <- MCTransactionCounts
    MaxReceived = 3
INVARIANTS
    NothingLostOrReordered
    PayloadsWithinLimit
    FlushesReportedOnce
PROPERTIES
    BufferIsFlushed
CHECK_DEADLOCK FALSE
