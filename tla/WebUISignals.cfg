CONSTANTS
    MaxVersion = 2
    MaxFetches = 1
    MaxDrops = 1
SPECIFICATION FairSpec
INVARIANTS
    TypeOK
    ChangesSignalled
PROPERTIES
    ImplementsView
CHECK_DEADLOCK FALSE
