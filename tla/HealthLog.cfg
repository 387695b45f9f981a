SPECIFICATION Spec
CONSTANTS
    MaxTime = 2
    MaxDepth = 4
    MaxSaves = 2
INVARIANTS ReminderDateIsStored RequestedIsPending
PROPERTY PickKeepsRows
CHECK_DEADLOCK FALSE
