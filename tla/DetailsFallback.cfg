SPECIFICATION PageSpec
CONSTANTS
    None = None
    u1 = u1
    u2 = u2
    u3 = u3
    u4 = u4
    w1 = w1
    w2 = w2
    d1 = d1
    d2 = d2
    UUIDv4s = {u1, u2, u3}
    Digests <- MCDigests
    Times <- MCTimes
    LastReading = 0
    Offsets = {0}
    MaxExact = 4
    MaxInt64 = 4
    TailCount = 2
    Workers = {w1, w2}
    Requests <- Requests1
    DevMode = FALSE
    Faults = {}
    MaxLog = 3
SYMMETRY WorkersAndIds
INVARIANTS
    FailedFetchHasFallback
