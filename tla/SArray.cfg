SPECIFICATION Spec
CONSTANTS
    Arrays = {1, 2}
    Widths = {1, 2}
    Spare = 1
    GrowBy = 1
    Values = {0, 1}
    MaxSize = 2
    MaxCapacity = 3
    MaxMemory = 10
INVARIANTS
    InBounds
    VectorSemantics
PROPERTIES
    NoStrayWrites
    UndefinedOnlyByAliasing
CHECK_DEADLOCK FALSE
