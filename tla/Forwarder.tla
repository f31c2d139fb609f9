----------------------------- MODULE Forwarder -------------------------------
(***************************************************************************)
(* forwarder/alert_map.py: what becomes of one alert of an Alertmanager    *)
(* notification.  An alert is its alertname, its other labels and what its *)
(* annotations.value holds: "none", "text", "number" or "infinite" (the    *)
(* +Inf of a division by zero).                                            *)
(***************************************************************************)
EXTENDS Naming

\* ALERT_SIGNAL_MAP
SignalNames == [
    PodOOMKilled          |-> "pod_oom_event",
    ContainerCrashLooping |-> "container_restart_count",
    ImagePullBackOff      |-> "service_unhealthy",
    HighContainerMemory   |-> "container_resource_usage",
    HighLatencyP95        |-> "service_latency_p95",
    HighErrorRate         |-> "service_error_rate",
    ServiceUnhealthy      |-> "service_unhealthy" ]

ValueKind(alertname) ==
    CASE alertname \in {"ContainerCrashLooping", "HighContainerMemory"} -> "int"
      [] alertname \in {"HighLatencyP95", "HighErrorRate"} -> "float"
      [] OTHER -> "str"

\* Mutant of DeploymentOf: the name of the pod is taken for its ReplicaSet's.
DeploymentOfReplicaSet(labels) ==
    Or(FirstOf(labels, <<"deployment", "workload", "label_app">>),
       Or(StripSuffixes(FirstOf(labels, <<"pod", "pod_name">>), 1), Unknown))

DeploymentOf(labels) ==
    Or(FirstOf(labels, <<"deployment", "workload", "label_app">>),
       Or(StripSuffixes(FirstOf(labels, <<"pod", "pod_name">>), 2), Unknown))

ServiceOf(labels) ==
    Or(FirstOf(labels, <<"service", "label_app">>), DeploymentOf(labels))

\* _coerce; a description or _default_text for the kind str.
Coerced(kind, raw) ==
    CASE kind = "str" -> "text"
      [] raw \in {"number", "infinite"} -> raw
      [] kind = "int" -> "one"
      [] OTHER -> "zero"

\* alert_to_signal answers with a signal: the alert fires, its name is known
\* and it has a namespace to route it by.
Forwards(alert, status) ==
    /\ status = "firing"
    /\ alert.alertname \in DOMAIN SignalNames
    /\ Get(alert.labels, "namespace") # Absent

\* int(float("+Inf")) is an OverflowError, which _coerce does not catch.
Overflows(alert, status) ==
    /\ Forwards(alert, status)
    /\ ValueKind(alert.alertname) = "int"
    /\ alert.value = "infinite"

AlertToSignal(alert) == [
    service     |-> ServiceOf(alert.labels),
    signal_name |-> SignalNames[alert.alertname],
    value       |-> Coerced(ValueKind(alert.alertname), alert.value),
    labels      |-> [
        namespace  |-> Get(alert.labels, "namespace"),
        deployment |-> DeploymentOf(alert.labels),
        pod_name   |-> Get(alert.labels, "pod"),
        container  |-> Get(alert.labels, "container") ] ]
=============================================================================
