------------------------------ MODULE Collector ------------------------------
(***************************************************************************)
(* normalize_telemetry.py: the command that turns a file of raw telemetry  *)
(* into a window of the contract.  The file holds what a collector wrote,  *)
(* what the watcher sees of the pods at that moment, or a signal of the    *)
(* forwarder; the command writes its output over it.                       *)
(***************************************************************************)
EXTENDS Watcher, TelemetryContract, Forwarder

CONSTANTS
    RawFiles,     \* files other collectors write
    PromArgs      \* the arguments of the mode prometheus

\* JSON objects and arrays.
ASSUME FileKinds == \A f \in RawFiles : f.kind \in {"dict", "list"}

VARIABLES
    file,         \* what the file holds
    origin,       \* "raw", "report", "scrape", "alert", or "output" of the command
    code          \* exit code of the last command, "none" before it

toolVars == <<file, origin, code>>
vars == <<podVars, toolVars>>

Codes == {"none", "0", "1", "traceback"}
Origins == {"raw", "report", "scrape", "alert", "output"}

ListOf(items) == [kind |-> "list", fields |-> NoItem.fields, labels |-> NoItem.labels,
                  parts |-> [items |-> items]]

\* A scenario, or the window of an incident in the same wrapper.
Scenario(window) == [kind |-> "dict", fields |-> NoItem.fields, labels |-> NoItem.labels,
                     parts |-> [telemetry_window |-> window]]

WindowOf(f) == IF Has(f, "telemetry_window") THEN f.parts.telemetry_window ELSE f.parts.items

\* The alert rules are on metrics with the labels namespace, pod and container.
AlertOf(p) == [alertname |-> "PodOOMKilled", value |-> "none",
               labels |-> [namespace |-> Namespace, pod |-> Meta[p].name]]

\* alert_to_signal adds ts, tenant_id and labels.system.
SignalOf(alert) ==
    LET signal == AlertToSignal(alert)
    IN  [fields |-> [ts |-> <<"utc_ms">>, tenant_id |-> TenantId, service |-> signal.service,
                     signal_name |-> signal.signal_name, value |-> <<signal.value>>],
         labels |-> Given(Over([system |-> <<"K8S_NATIVE">>], signal.labels))]

NoFile == ListOf(<< >>)

TypeOK ==
    /\ WatcherTypeOK
    /\ file.kind \in {"dict", "list"}
    /\ origin # "raw" => file.kind = "list" \/ Has(file, "telemetry_window")
    /\ origin \in Origins
    /\ code \in Codes

Init ==
    /\ WatcherInit
    /\ file \in RawFiles \cup {NoFile}
    /\ origin = "raw"
    /\ code = "none"

-----------------------------------------------------------------------------
\* The pods are looked at once; what they do after that is not in the file.
PodStep == Kubelet /\ file = NoFile /\ code = "none" /\ UNCHANGED toolVars

Write(f, from) ==
    /\ file = NoFile /\ code = "none"
    /\ file' = f
    /\ origin' = from
    /\ UNCHANGED <<podVars, code>>

\* A file that is not raw telemetry: what the watcher reports of a pod, what it
\* scrapes of its deployment, or what the forwarder makes of its alert.
Collect ==
    \E p \in Pods :
        \/ Reported(p) /\ Write(Scenario(FaultEvent(p).telemetry_window), "report")
        \/ Write(Scenario(PostTelemetry(DeploymentOfPod(Meta[p]), << >>)), "scrape")
        \/ Write(ListOf(<<SignalOf(AlertOf(p))>>), "alert")

\* The output is a list, or the scenario with its window replaced.
Put(result, f) ==
    /\ code' = result.code
    /\ file' = IF result.code = "0" THEN f ELSE file
    /\ origin' = IF result.code = "0" THEN "output" ELSE origin
    /\ UNCHANGED podVars

PutWindow(result) == Put(result, ListOf(result.window))

RunAuto == PutWindow(AutoNormalized(file))

\* payload["telemetry_window"]: a KeyError of a dict, a TypeError of a list.
RunScenario(windowOnly) ==
    IF Has(file, "telemetry_window")
      THEN LET result == Normalized(WindowOf(file), "mock_scenario")
           IN  Put(result, IF windowOnly THEN ListOf(result.window) ELSE Scenario(result.window))
      ELSE PutWindow(Exit(IF file.kind = "dict" THEN "1" ELSE "traceback"))

\* The modes for a dict read their part with a default: a dict without it
\* normalises to an empty window, a list has no get.
PartOr(part) == IF Has(file, part) THEN file.parts[part] ELSE << >>

RunOnDict(points, mode) ==
    PutWindow(IF file.kind = "dict" THEN Normalized(points, mode) ELSE Exit("traceback"))

RunPrometheus == RunOnDict(FromPrometheus(PartOr("result"), PromArgs), "real_prometheus")
RunEvents == RunOnDict(FromEvents(PartOr("items")), "real_k8s_event")
RunExport == RunOnDict(FromExport(PartOr("resourceSpans")), "real_otel_span")

RunLogs ==
    PutWindow(Normalized(IF Has(file, "logEvents") THEN FromLogs(file.parts.logEvents, file)
                         ELSE IF file.kind = "list" THEN FromLogs(file.parts.items, NoItem)
                         ELSE FromLogs(<<file>>, NoItem),
                         "real_log_event"))

RunSpans ==
    PutWindow(IF file.kind = "list"
                THEN Normalized(FromSpans(file.parts.items, NoItem), "real_otel_span")
                ELSE Exit("1"))

\* Mutant of RunValidate: its verdict is written over the file.
RunValidateWriting ==
    /\ Has(file, "telemetry_window") \/ file.kind = "list"
    /\ code' = Validated(WindowOf(file)).code
    /\ file' = [file EXCEPT !.kind = "dict", !.parts = [none |-> << >>]]
    /\ UNCHANGED <<podVars, origin>>

\* validate writes no file.
RunValidate ==
    /\ code' = IF Has(file, "telemetry_window") \/ file.kind = "list"
                 THEN Validated(WindowOf(file)).code ELSE "1"
    /\ UNCHANGED <<podVars, file, origin>>

Run == \/ RunAuto \/ RunPrometheus \/ RunEvents \/ RunExport
       \/ RunLogs \/ RunSpans \/ RunValidate
       \/ \E windowOnly \in BOOLEAN : RunScenario(windowOnly)

Next == PodStep \/ Collect \/ Run

Spec == Init /\ [][Next]_vars

-----------------------------------------------------------------------------
Window == WindowOf(file)

\* The labels in which the last pass leaves its own mark.
Marks == {"cdo_source_mode", "cdo_original_signal"}

\* A window without the marks.
Content(window) ==
    [i \in DOMAIN window |->
        [fields |-> window[i].fields,
         labels |-> [key \in DOMAIN window[i].labels \ Marks |-> window[i].labels[key]]]]

Shows(window, signal, values) ==
    \E i \in DOMAIN window : /\ window[i].fields.signal_name = signal
                             /\ window[i].fields.value \in values

(* Whatever sequence of commands wrote a file, it keeps the output rules   *)
(* of the scripts' README: the five fields and no other, a contract        *)
(* signal, labels.system, no text that had to be scrubbed.                 *)
OutputKeepsRules ==
    origin = "output" =>
        \A i \in DOMAIN Window :
            LET point == Window[i]
            IN  /\ DOMAIN point.fields = TopLevelFields
                /\ point.fields.signal_name \in ContractSignals
                /\ point.fields.ts = <<"utc_ms">>
                /\ point.labels.system # Absent
                /\ point.fields.value \notin {Absent, <<"secret">>}

(* What has been normalised may pass through the command again, as it does *)
(* when the executor's windows are normalised by two teams: it is still    *)
(* recognised for what it is, and every field and label stays but the two  *)
(* marks.  Those are overwritten: the signal that the watcher had named is *)
(* lost in the second pass (telemetry_contract.py:97-98).                  *)
RenormalizingChangesNothing ==
    [][origin = "output" /\ RunAuto
         => code' = "0" /\ Content(WindowOf(file')) = Content(Window)]_vars

\* The map knows neither the phase of a pod nor what a container waits for.
Unmapped ==
    \E p \in Pods :
        \/ fate[p] \in {"Succeeded", "Unknown"}
        \/ \E c \in Containers(p) : cs[p][c].state = "ContainerCreating"

\* The window after still holds the evidence that counts of the one before.
Keeps(before, after) ==
    /\ Len(after) = Len(before)
    /\ Shows(before, "exit_code_oom", {Number(OomExitCode)})
         => Shows(after, "pod_oom_event", {<<"exit_code_137">>})
    /\ Shows(before, "container_ready", {<<"boolean", FALSE>>})
         <=> Shows(after, "service_unhealthy", {<<"container_not_ready">>})

(* Normalising what the watcher sees loses nothing.  An event is always    *)
(* accepted and keeps its memory kill, although most of its names are      *)
(* mapped to one; a scrape is refused as a whole when a container waits    *)
(* for a reason or a pod is in a phase the map does not know, and          *)
(* otherwise still tells whether the pods are ready - by the value, as the *)
(* signal is service_unhealthy for ready pods as well.                     *)
WindowIsWholeOrRefused ==
    [][(origin \in {"report", "scrape"} /\ RunAuto)
         => \/ code' = "0" /\ Keeps(Window, WindowOf(file'))
            \/ code' = "1" /\ origin = "scrape" /\ Unmapped]_vars

(* An alert and an event of one pod that a Deployment owns have the same   *)
(* key in the cooldown map, which is all that keeps the two sources of the *)
(* watch loop from healing it twice (main.py:226).  One takes the key from *)
(* the pod's name, the other from its ReplicaSet's.                        *)
SourcesShareKeys ==
    \A p \in Pods : Reported(p) /\ Meta[p].owner # Absent
        => DeploymentOf(AlertOf(p).labels) = FaultEvent(p).deployment
=============================================================================
