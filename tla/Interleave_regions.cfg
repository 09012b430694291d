SPECIFICATION Spec
CONSTANTS
    W = 8
    Regions <- MC_Regions
    MemSizes = {1, 3, 4}
    Values = {0, 1}
    MMIO = {3, 4, 7}
    MaxPhases = 2
    MaxPending = 2
INVARIANTS
    TypeOK
    AnswersKeepAddress
    InBounds
PROPERTIES
    AdjustedOnce
    ImplementsFlatMemory
CHECK_DEADLOCK FALSE
