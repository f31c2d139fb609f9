SPECIFICATION FairSpec
CONSTANTS
    MaxRetries = 2
    MaxKeys = 3
    MaxLimited = 2
INVARIANTS
    TypeOK
    OnePlanPerCall
    GivesUpAfterRetries
    ConflictIsSelfInflicted
PROPERTIES
    CallEnds
CHECK_DEADLOCK FALSE
