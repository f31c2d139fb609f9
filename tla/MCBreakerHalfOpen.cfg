SPECIFICATION Spec
CONSTANTS
    Threshold = 3
    WindowS = 3
    CooldownS = 3
    MaxTime = 10
    MaxStreak = 7
PROPERTIES
    FailedTrialReopens
CHECK_DEADLOCK FALSE
