SPECIFICATION LiveSpec
CONSTANTS
    Nobody = Nobody
    Users = {Nobody, anna}
    MaxWrites = 2
    MaxPending = 2
    MaxChanges = 2
    MaxBreaks = 1
    MaxCrashes = 0
INVARIANTS CallbackHasItsBatch SentAsItsUser
PROPERTIES QueueDrains HandlerIsTold
\* A finished instance stops: every write was made and settled.
CHECK_DEADLOCK FALSE
