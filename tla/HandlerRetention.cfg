CONSTANTS
    Names = {r1}
    Jobs = {j1, j2}
    Cancellable = {r1}
    NoName = NoName
    Conclusions = {"success", "cancelled"}
    Retention = 1
    MaxTime = 3
SPECIFICATION FairSpec
PROPERTIES
    StatusMoves
    OnlyLateCancelsStay
    HandlerEnds
    VMGivenUp
CHECK_DEADLOCK FALSE
