SPECIFICATION Spec
CONSTANTS
    Lexemes <- MCLexemes
    Weight <- MCWeight
    Incomplete <- MCIncomplete
    Keepers <- MCKeepers
    MaxWeight = 6
    MaxDocuments = 2
    GoOn = TRUE
INVARIANTS
    RefusedDocumentsAreSafe
CHECK_DEADLOCK FALSE
