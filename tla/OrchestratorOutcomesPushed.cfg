CONSTANTS
    VMs = {v1, v2}
    Capacity = 1
    SuccessRetention = 1
    FailureRetention = 0
SPECIFICATION Spec
INVARIANTS
    OutcomesPushed
CHECK_DEADLOCK FALSE
