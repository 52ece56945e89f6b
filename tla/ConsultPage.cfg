SPECIFICATION Spec
CONSTANTS
    s1 = s1
    s2 = s2
    Searches = {s1, s2}
    Events <- OnTwoDays
    Filters <- BlankOrDays
    DayLength = 2
    Faults = {"db", "read", "network"}
    MaxLog = 3
    PageSize = 1
SYMMETRY Asking
INVARIANTS
    TypeOK
    AnswersPairEntries
    NoMoreMeansAll
    WalkMissesNothing
    SearchIsNeverLockedOut
