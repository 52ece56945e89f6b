SPECIFICATION FairSpec
CONSTANTS
    None = None
    ticker = ticker
    f1 = f1
    f2 = f2
    Ticker = ticker
    Forcers = {f1, f2}
    Faults = {"read", "write", "torn", "crash"}
    MaxSize = 2
    MaxLines = 2
    MaxFailures = 2
INVARIANTS
    TypeOK
    RecordsOrdered
    LatestUnlessTorn
    LatestIsFresh
PROPERTIES
    TicksPublishOnlyNew
    CheckpointsGetAnchored
