SPECIFICATION Spec
CONSTANTS
    None = None
    u1 = u1
    EventID = u1
    UUIDv4s = {u1}
    Digests <- MCDigests
    Times <- MCTimes
    LastReading = 2
    Offsets <- MCOffsets
    MaxExact = 2
    MaxInt64 = 5
    Bodies <- MCBodies
INVARIANTS
    SpellingIsImmaterial
    CanonicalFormIsStable
    EventFitsItsType
CHECK_DEADLOCK FALSE
