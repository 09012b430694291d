SPECIFICATION FairSpec
CONSTANTS
    Addrs = {a, b}
    Values = {0, 1}
    MaxOps = 4
    maxOpLookup = 2
    reqMaxPerCycle = 2
    maxPending = 1
    NodeSize = 2
INVARIANTS
    TypeOK
    ReceivesLatest
    NoLostWakeup
PROPERTY
    SimulationEnds
CHECK_DEADLOCK FALSE
