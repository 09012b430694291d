SPECIFICATION FairSpec
CONSTANTS
    FuncBase = 0
    SramBase = 16
    DramBase = 24
    SramWords = 4
    NumParams = 4
    ChunkWords = 2
    WordMod = 61
    MaxAddr = 35
    PimId = 60
    BackingInit <- DistinctWords
    EventIds = {1, 2}
    Jobs <- MC_EmptyJobs
    Stores <- NoStores
    Sequential = TRUE
PROPERTY
    FinishReturns
