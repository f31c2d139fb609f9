SPECIFICATION FairFlapSpec
CONSTANTS
    Api = Api
    Worker = Worker
    Malformed = Malformed
    Nobody = Nobody
    Deployments <- MCDeployments
    ServiceKey <- MCServiceKey
    Messages = {}
    KeyOf <- MCKeyOf
    MaxBatch = 0
    MaxReceive = 1
    MaxPods = 1
    CooldownS = 1
    BootLeft = 1
    MaxFaults = 1
    FlapWindowS = 2
    FlapThreshold = 3
INVARIANTS
    FlapTypeOK
    FlappingIsUnreachable
PROPERTY FaultIsHandled
