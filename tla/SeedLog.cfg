SPECIFICATION FairSeedSpec
CONSTANTS
    None = None
    u1 = u1
    u2 = u2
    u3 = u3
    u4 = u4
    u5 = u5
    w1 = w1
    w2 = w2
    d1 = d1
    d2 = d2
    d3 = d3
    UUIDv4s = {u1, u2, u3, u4, u5}
    Digests <- MCDigests
    Times <- MCTimes
    LastReading = 0
    Offsets = {0}
    MaxExact = 5
    MaxInt64 = 5
    TailCount = 2
    Workers = {w1, w2}
    Requests <- ClientRequests
    DevMode = FALSE
    Faults = {"lookup", "read", "append", "crash"}
    MaxLog = 5
    SeedWorker <- SeedWorker1
    DocIDs <- DocIDs2
    updatesPerChosenDoc <- Updates2
    SeedRequest <- Base
INVARIANTS
    SummaryMatchesLog
PROPERTIES
    SequencedIsEventuallyServed
CONSTRAINTS
    DrawnInOrder
CHECK_DEADLOCK FALSE
