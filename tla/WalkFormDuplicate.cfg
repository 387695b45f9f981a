CONSTANTS
    None = None
    Promenad = Promenad
    DuschBad = DuschBad
    MaxForms = 3
    MaxSaves = 2
    InitKeys <- MCReady
    Entered = {"dog"}
SPECIFICATION Spec
INVARIANTS NoDuplicates
CHECK_DEADLOCK FALSE
