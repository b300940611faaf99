CONSTANTS
    VMs = {v1, v2}
    Capacity = 1
    SuccessRetention = 1
    FailureRetention = 0
SPECIFICATION FairSpec
INVARIANTS
    TypeOK
    KeptForRetention
    NoVMForgotten
    AwaitedBeforeClose
PROPERTIES
    PushesEnd
    InterruptEnds
CHECK_DEADLOCK FALSE
