SPECIFICATION Spec
CONSTANTS
    W = 8
    Regions <- Nodes
    MemSizes = {4}
    Values = {0, 1}
    MMIO = {4, 7}
    MaxPhases = 2
    MaxPending = 1
INVARIANT
    InitDataInMemory
