CONSTANTS
    Names = {r1}
    Jobs = {j1, j2}
    Cancellable = {r1}
    NoName = NoName
    Conclusions = {"success", "cancelled"}
    Retention = 1
    MaxTime = 2
SPECIFICATION Spec
PROPERTIES
    CancelHitsItsJob
CHECK_DEADLOCK FALSE
