SPECIFICATION Spec
CONSTANTS
    FuncBase = 0
    SramBase = 16
    DramBase = 24
    SramWords = 4
    NumParams = 4
    ChunkWords = 2
    WordMod = 5
    MaxAddr = 35
    PimId = 0
    BackingInit <- EqualWords
    EventIds = {1, 2}
    Jobs <- MC_Jobs
    Stores <- NoStores
    Sequential = FALSE
INVARIANT
    AssertionsHold
CHECK_DEADLOCK FALSE
