CONSTANTS
    Files = {f1, f2}
    Second = 2
    MaxInterval = 3
    MaxTotal = 4
    MaxInitial = 1
    MaxTime = 6
SPECIFICATION FairSpec
INVARIANTS
    FailureMeansLate
    SuccessMeansThere
PROPERTIES
    WaitEnds
CHECK_DEADLOCK FALSE
