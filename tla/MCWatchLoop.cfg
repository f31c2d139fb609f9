SPECIFICATION Spec
CONSTANTS
    Api = Api
    Worker = Worker
    M1 = M1
    M2 = M2
    Bad = Bad
    Malformed = Malformed
    Nobody = Nobody
    Deployments <- MCDeployments
    Messages <- MCMessages
    KeyOf <- MCKeyOf
    MaxBatch = 2
    MaxReceive = 2
    MaxPods = 2
    CooldownS = 2
    BootLeft = 0
    MaxFaults = 2
SYMMETRY MCSymmetry
INVARIANTS
    TypeOK
    DeletedWasServed
    RedeliveryNeedsFault
PROPERTIES
    HealsAreSpaced
    SkippedWasJustHealed
