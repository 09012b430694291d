SPECIFICATION FairSpec
CONSTANTS
    lineSize = 2
    Lines = {0}
    Noncacheable = {2}
    Values = {0, 1}
    Initial = 0
    MaxEvents = 3
INVARIANTS
    TypeOK
    TableAgrees
    OnlyCustomFaults
    NothingLost
PROPERTIES
    ReadsLatest
    FlushWritesBack
    Answered
CHECK_DEADLOCK FALSE
