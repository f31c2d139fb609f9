SPECIFICATION FairSpec
CONSTANTS
    TenantA = TenantA
    TenantB = TenantB
    Api = Api
    NoContext = NoContext
    NoAnswer = NoAnswer
    Namespaces <- MCNamespaces
    Services <- MCServices
    DetectAnswers <- MCDetectAnswers
    Plans <- MCPlans
    Threshold = 2
    WindowS = 2
    CooldownS = 2
    DiscardBelow = 50
    ExecuteAt = 80
    HighSeverity = 70
    FlapWindowS = 3
    FlapThreshold = 3
    MinReplicas = 1
    MaxReplicas = 2
    MaxMemory = 4
    MaxTime = 4
    MaxIncidents = 3
INVARIANTS
    TypeOK
    ChangeIsSafe
    FlappingIsNotHealed
    
    UnconfirmedChangeIsEscalated
PROPERTIES
    NoChangeWhileTripped
    ContractKept
    IncidentEnds
CHECK_DEADLOCK FALSE
