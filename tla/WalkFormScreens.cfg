CONSTANTS
    None = None
    Promenad = Promenad
    DuschBad = DuschBad
    MaxForms = 2
    MaxSaves = 1
    InitKeys <- MCDrafts
    Entered = {"dog", "person", "what", "when", "note", "img", "track"}
SPECIFICATION Spec
INVARIANTS StoredWalksDisplayable
PROPERTIES DraftOutlivesFailure
CHECK_DEADLOCK FALSE
