SPECIFICATION Spec
CONSTANTS
    Threshold = 3
    WindowS = 3
    CooldownS = 3
    MaxTime = 10
    MaxStreak = 7
INVARIANTS
    TypeOK
    ClosedBelowThreshold
    DequeIsRecentStreak
PROPERTIES
    TripIffThresholdReached
    ContractKept
CHECK_DEADLOCK FALSE
