SPECIFICATION Spec
CONSTANTS
    Addrs = {a, b}
    Values = {0, 1}
    MaxOps = 3
    maxOpLookup = 2
    reqMaxPerCycle = 2
    maxPending = 1
    NodeSize = 2
INVARIANT
    ReceiveSucceeds
CHECK_DEADLOCK FALSE
