CONSTANTS
    Users = {u1}
    None = None
    Older <- MCAnybody
    MaxViews = 2
    MaxWrites = 3
    MaxReads = 2
SPECIFICATION FairSpec
INVARIANTS FinishedIsDelivered
PROPERTIES SaleSettles
CHECK_DEADLOCK FALSE
