SPECIFICATION Spec
CONSTANTS
    Api = Api
    Worker = Worker
    M1 = M1
    M2 = M2
    Bad = Bad
    Malformed = Malformed
    Nobody = Nobody
    Deployments <- OneDeployment
    Messages <- OneMessages
    KeyOf <- OneKeyOf
    MaxBatch = 2
    MaxReceive = 2
    MaxPods = 1
    CooldownS = 2
    BootLeft = 2
    MaxFaults = 0
PROPERTY SkippedWasJustHealed
