----------------------------- MODULE MCDelivery ------------------------------
(***************************************************************************)
(* Delivery for TLC.  Liveness: an alert of a pod and a body no forwarder  *)
(* wrote.  No pod is found failing by the poll, so only the queue can have *)
(* the alert handled.                                                      *)
(* Naming: the two alerts of the request metrics, which carry no pod.      *)
(***************************************************************************)
EXTENDS Delivery, TLC

CONSTANTS M1, M2, Bad

Tenant == <<"tenant", "a">>
Api == <<"api">>
Web == <<"web">>
Pod == Api \o <<"5d4f", "x2kp">>

Oom == [alertname |-> "PodOOMKilled", value |-> "none",
        labels |-> "namespace" :> Tenant @@ "pod" :> Pod]

LiveAlerts == {Oom}
LiveAbout == [a \in LiveAlerts |-> <<Tenant, Api>>]
LiveDeployments == {<<Tenant, Api>>}
LiveMessages == {M1, Bad}
LiveKeyOf == M1 :> <<Tenant, Api>> @@ Bad :> Malformed

\* The labels "sum by (namespace, app)" leaves.
AppAlert(name, app) == [alertname |-> name, value |-> "number",
                        labels |-> "namespace" :> Tenant @@ "app" :> app]

SlowApi == AppAlert("HighLatencyP95", Api)
FailingWeb == AppAlert("HighErrorRate", Web)

AppAlerts == {SlowApi, FailingWeb}
AppAbout == SlowApi :> <<Tenant, Api>> @@ FailingWeb :> <<Tenant, Web>>
AppDeployments == {<<Tenant, Unknown>>}
AppMessages == {M1, M2}
AppKeyOf == [m \in AppMessages |-> <<Tenant, Unknown>>]
=============================================================================
