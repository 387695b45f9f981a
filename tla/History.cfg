SPECIFICATION FairSpec
CONSTANTS
    w1 = w1  w2 = w2  b1 = b1
    Walks = {w1, w2}
    Baths = {b1}
    None = None
    MaxAsked = 2
    MaxRemovals = 1
INVARIANTS WrongRowNeedsReload WrongTabNeedsOverlap
PROPERTY DeletedRowLeaves
CHECK_DEADLOCK FALSE
