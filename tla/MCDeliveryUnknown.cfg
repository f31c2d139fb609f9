SPECIFICATION DeliverySpec
CONSTANTS
    M1 = M1
    M2 = M2
    Bad = Bad
    Malformed = Malformed
    Nobody = Nobody
    NoAlert = NoAlert
    Alerts <- AppAlerts
    About <- AppAbout
    Workloads = {}
    Deployments <- AppDeployments
    Messages <- AppMessages
    KeyOf <- AppKeyOf
    MaxBatch = 2
    MaxReceive = 2
    MaxPods = 1
    CooldownS = 1
    BootLeft = 0
    MaxFaults = 1
PROPERTY SkippedForOwnDeployment
