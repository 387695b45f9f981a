SPECIFICATION Spec
CONSTANTS
    Nobody = Nobody
    Users = {Nobody, anna}
    MaxWrites = 3
    MaxPending = 2
    MaxChanges = 1
    MaxBreaks = 1
    MaxCrashes = 1
INVARIANTS NoAssertionFails AnswersMatchThePipeline
PROPERTY ImplementsWriteQueue
\* A finished instance stops: every write was made and settled.
CHECK_DEADLOCK FALSE
