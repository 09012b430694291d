SPECIFICATION Spec
CONSTANTS
    Configurations <- MC_SimpleMem
    Capacity <- MC_Capacity
    MaxIssue = 2
    MaxSteps = 1
INVARIANT
    SelfTestReachesSram
