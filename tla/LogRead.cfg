SPECIFICATION Spec
CONSTANTS
    Width = 3
    Span <- Powers
    MaxEntries = 7
    Faults = {"io"}
INVARIANTS
    TypeOK
    PublishedIsFound
    DeliversWhatWasAsked
