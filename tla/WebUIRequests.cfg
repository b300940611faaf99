CONSTANTS
    Names = {r1}
    Jobs = {j1}
    Cancellable = {r1}
    NoName = NoName
    Conclusions = {"success", "cancelled"}
    Retention = 1
    MaxTime = 3
SPECIFICATION UISpec
INVARIANTS
    PoolsShowLeases
    ThroughMeansWritten
CHECK_DEADLOCK FALSE
