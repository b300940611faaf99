CONSTANTS
    Names = {r1}
    Jobs = {j1}
    Cancellable = {}
    NoName = NoName
    Conclusions = {"success", "cancelled"}
    Retention = 1
    MaxTime = 2
SPECIFICATION Spec
INVARIANTS
    CanceledWasCanceled
CHECK_DEADLOCK FALSE
