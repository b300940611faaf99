CONSTANTS
    Requests <- TwoRequests
    Files = {"chrome", "resources"}
    Binary = "chrome"
    ProfileDirs <- TwoDirs
    MaxVersion = 2
    MaxRuns = 3
    MaxFaults = 2
SPECIFICATION FairSpec
INVARIANTS
    ToldMeansInstalled
    FailsForACause
    InitializedProfile
PROPERTIES
    CommandEnds
CHECK_DEADLOCK FALSE
