SPECIFICATION FairSpec
CONSTANTS
    pageSize = 8
    pageCount = 2
    Kinds <- MC_Kinds
    MaxRequests = 4
    cacheLine = 8
    maxOpLookup = 3
    reqMaxPerCycle = 2
    maxRequestsPending <- MC_Slots
INVARIANTS
    TypeOK
    FenceOrder
    DependenciesHold
    SlotsAgree
    EachRequestOnce
    AddressesApart
PROPERTY
    EndsWhenFinished
CHECK_DEADLOCK FALSE
