SPECIFICATION FairSpec
CONSTANTS
    Configurations <- MC_Configurations
    Capacity <- MC_Capacity
    MaxIssue = 2
    MaxSteps = 2
INVARIANTS
    TypeOK
    NoFatal
    ClockWhileNeeded
    WakeupPerRequest
    EachEventOnce
PROPERTIES
    KeepsOrder
    OldestAnswered
    CallsReturn
CHECK_DEADLOCK FALSE
