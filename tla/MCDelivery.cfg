SPECIFICATION FairDeliverySpec
CONSTANTS
    M1 = M1
    M2 = M2
    Bad = Bad
    Malformed = Malformed
    Nobody = Nobody
    NoAlert = NoAlert
    Alerts <- LiveAlerts
    About <- LiveAbout
    Workloads = {}
    Deployments <- LiveDeployments
    Messages <- LiveMessages
    KeyOf <- LiveKeyOf
    MaxBatch = 2
    MaxReceive = 1
    MaxPods = 1
    CooldownS = 1
    BootLeft = 1
    MaxFaults = 1
INVARIANT DeliveryTypeOK
PROPERTIES
    EveryMessageSettles
    AlertIsHandled
