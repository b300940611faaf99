CONSTANTS
    Lower <- LowerCase
    Configs <- SmallConfigs
    Events <- SmallEvents
    Handlers = {h1, h2}
    Lifetime = 2
    Margin = 1
    MaxBoots = 2
    MaxVMs = 3
SPECIFICATION Spec
SYMMETRY Alike
INVARIANTS
    TypeOK
    RightPool
PROPERTIES
    SweepIsThorough
    TokenGoodWhenUsed
CHECK_DEADLOCK FALSE
