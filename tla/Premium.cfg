CONSTANTS
    Users = {u1, u2}
    None = None
    Older <- MCSomebody
    MaxViews = 2
    MaxWrites = 2
    MaxReads = 2
SYMMETRY MCSymmetry
SPECIFICATION Spec
INVARIANTS PremiumIsSold PremiumIsThePayers FlagIsTheAccounts
CHECK_DEADLOCK FALSE
