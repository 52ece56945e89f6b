SPECIFICATION Spec
CONSTANTS
    MaxSize = 8
    Log <- MCLog
    OldLogs <- MCOldLogs
    Entries <- MCEntries
    Documents <- MCDocuments
    Proofs <- MCProofs
    Nodes <- MCNodes
INVARIANTS
    InclusionIsExact
    ConsistencyIsExact
CHECK_DEADLOCK FALSE
