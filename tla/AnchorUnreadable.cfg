SPECIFICATION Spec
CONSTANTS
    None = None
    ticker = ticker
    f1 = f1
    f2 = f2
    Ticker = ticker
    Forcers = {f1}
    Faults = {"torn"}
    MaxSize = 2
    MaxLines = 2
    MaxFailures = 1
INVARIANTS
    LatestIsLastPublished
