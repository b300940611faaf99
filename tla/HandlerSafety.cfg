CONSTANTS
    Names = {r1, r2}
    Jobs = {j1, j2}
    Cancellable = {}
    NoName = NoName
    Conclusions = {"success", "cancelled", ""}
    Retention = 1
    MaxTime = 1
SPECIFICATION Spec
SYMMETRY Interchangeable
INVARIANTS
    TypeOK
    CompletedAfterTeardown
    CompletedMatchesGitHub
    PushedAfterRelease
    JobKeepsItsVM
    NoVMAbandoned
    StatusAgrees
    RerunOnlyOrphans
PROPERTIES
    ImplementsLifecycle
CHECK_DEADLOCK FALSE
