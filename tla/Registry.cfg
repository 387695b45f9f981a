SPECIFICATION Spec
CONSTANTS
    Kinds = {"dog", "person"}
    Rows = 2
    Limit = 1
    MaxNew = 1
    MaxScreens = 4
    MaxDepth = 4
    MaxWrites = 2
INVARIANTS EditReplacesItsRow AtMostOneSavePerEditor MixNeedsStraying
CHECK_DEADLOCK FALSE
