CONSTANTS
    None = None
    Promenad = Promenad
    DuschBad = DuschBad
    MaxForms = 3
    MaxSaves = 2
    InitKeys <- MCReady
    Entered = {"dog"}
SPECIFICATION FairSpec
INVARIANTS TypeOK AtMostOneSavePerForm LockMeansSavingOrSaved DuplicateNeedsUnansweredSave
PROPERTIES HandlerRemovesItsOwnWalk ImplementsLog SaveSettles
CHECK_DEADLOCK FALSE
