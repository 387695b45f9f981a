CONSTANTS
    Unknown = Unknown
    Places <- MCPlaces
    MaxTicks = 2
    MaxPoints = 5
    MaxTimers = 2
SPECIFICATION Spec
INVARIANTS TimersBelongToAWalk DistanceIsLength HandedTrackHasPoints
PROPERTIES CrashExplained
CHECK_DEADLOCK FALSE
