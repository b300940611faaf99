CONSTANTS
    Ignored = {"o2"}
    IncludeNotCalled = FALSE
    Dirs <- TwoDirs
    Plans <- SmallPlans
    EnvWords = {"env:X"}
    Streams <- SmallStreams
    MaxScripts = 3
SPECIFICATION FairSpec
INVARIANTS
    TypeOK
    CommandsInOrder
    ZeroMeansAll
    ZeroMeansClean
PROPERTIES
    ChecksEnd
CHECK_DEADLOCK FALSE
