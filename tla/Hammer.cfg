SPECIFICATION FairSpec
CONSTANTS
    Workers = {w1, w2, w3}
    requests = 4
INVARIANTS
    TypeOK
    JobsPostedOnce
    SendsNeverBlock
    ReportIsComplete
PROPERTIES
    HammerReports
CHECK_DEADLOCK FALSE
