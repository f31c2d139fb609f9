-------------------------- MODULE TelemetryContract --------------------------
(***************************************************************************)
(* telemetry_contract.py (docs/Telemetry_and_Observability/.../            *)
(* custom_telemetry): how raw metrics, events, logs, spans and the         *)
(* executor's own signals become points of the telemetry contract.         *)
(*                                                                         *)
(* An item is [fields, labels]: its scalars and its dictionary of labels.  *)
(* A field that is Absent under its key is empty; null is no key at all.   *)
(* <<"object">> is a value that is no scalar, a JSON object or array.      *)
(* Times are told apart by how they are written: <<"utc_ms">> is the       *)
(* contract's form, <<"iso">> another ISO 8601 form, <<"s">>, <<"ms">>,    *)
(* <<"us">>, <<"ns">> numbers since the epoch in that unit, anything else  *)
(* text that is no time.                                                   *)
(***************************************************************************)
EXTENDS Naming, SequencesExt

ContractSignals == {
    "service_error_rate", "service_latency_p95", "container_resource_usage",
    "application_log_event", "distributed_trace_error_event", "pod_oom_event",
    "service_unhealthy", "queue_backlog", "service_throughput_rps",
    "container_restart_count", "secret_expiry_warning", "db_connection_pool_saturation"}

TopLevelFields == {"ts", "tenant_id", "service", "signal_name", "value"}

DefaultSystem == <<"E-COMMERCE">>
TenantId == <<"v4">>

\* _INTERNAL_SIGNAL_MAP: signal, value (Absent for any), contract signal, and
\* the value it gets (Absent for the value it had).
SignalMap == {
    <<"pod_waiting_reason", <<"OOMKilled">>, "pod_oom_event", <<"OOMKilled">> >>,
    <<"pod_waiting_reason", <<"CrashLoopBackOff">>, "service_unhealthy", <<"CrashLoopBackOff">> >>,
    <<"pod_waiting_reason", <<"ImagePullBackOff">>, "service_unhealthy", <<"ImagePullBackOff">> >>,
    <<"pod_waiting_reason", <<"ErrImagePull">>, "service_unhealthy", <<"ErrImagePull">> >>,
    <<"pod_waiting_reason", <<"Error">>, "service_unhealthy", <<"Container waiting Error">> >>,
    <<"exit_code_oom", Absent, "pod_oom_event", <<"exit_code_137">> >>,
    <<"restart_count", Absent, "container_restart_count", Absent>>,
    <<"pod_phase", <<"Running">>, "service_unhealthy", <<"pod_phase_running">> >>,
    <<"pod_phase", <<"Pending">>, "service_unhealthy", <<"pod_phase_pending">> >>,
    <<"pod_phase", <<"Failed">>, "service_unhealthy", <<"pod_phase_failed">> >>,
    <<"container_ready", <<"boolean", FALSE>>, "service_unhealthy", <<"container_not_ready">> >>,
    <<"container_ready", <<"boolean", TRUE>>, "service_unhealthy", <<"container_ready">> >>,
    <<"readiness_fail_after_deploy", Absent, "service_unhealthy", <<"readiness_fail_after_deploy">> >>,
    <<"container_memory_pct", Absent, "container_resource_usage", Absent>>,
    <<"hpa_at_max_replicas", Absent, "service_unhealthy", <<"hpa_at_max_replicas">> >>,
    <<"minor_blip", Absent, "service_unhealthy", <<"minor_blip">> >> }

-----------------------------------------------------------------------------
(* normalize_point                                                         *)

\* An object is no key of a dict: the lookup in the map is a TypeError, which
\* is no TelemetryContractError.
Unhashable(signal, value) == signal \notin ContractSignals /\ value = <<"object">>

\* The rows of the map that fit; the one for the value comes first.
RowsFor(signal, value) ==
    LET exact == {row \in SignalMap : row[1] = signal /\ row[2] = value}
    IN  IF Unhashable(signal, value) THEN {}
        ELSE IF exact # {} THEN exact
        ELSE {row \in SignalMap : row[1] = signal /\ row[2] = Absent}

\* Mutant of NormalSignal: a signal has to be an internal one.
NormalSignalInternal(signal, value) ==
    { <<row[3], Or(row[4], value)>> : row \in RowsFor(signal, value) }

\* _normalize_signal: the set of its one answer, or {} if it raises.
NormalSignal(signal, value) ==
    IF signal \in ContractSignals THEN { <<signal, value>> }
    ELSE { <<row[3], Or(row[4], value)>> : row \in RowsFor(signal, value) }

\* _normalize_timestamp takes no time at all for now, and ISO 8601 only.
Readable == {Absent, <<"utc_ms">>, <<"iso">>}

OutOfRange == <<"year 50000">>

\* _timestamp_from_raw and epoch_to_rfc3339_ms: a number above 1e16 is read as
\* ns, one above 1e10 as ms.  That leaves microseconds to be read as ms: a year
\* datetime cannot hold, a ValueError that is no TelemetryContractError.
TimestampFromRaw(ts) ==
    CASE ts \in {Absent, <<"s">>, <<"ms">>, <<"ns">>} -> <<"utc_ms">>
      [] ts = <<"us">> -> OutOfRange
      [] OTHER -> ts

\* Mutant of Scrubbed: nothing is taken out.
Unscrubbed(value) == value

\* scrub_value
Scrubbed(value) == IF value = <<"secret">> THEN <<"REDACTED">> ELSE value

NormalService(item) ==
    Or(Get(item.fields, "service"),
       Or(Get(item.labels, "service"), Get(item.labels, "deployment")))

\* labels.setdefault("system", ...) and the two cdo_ labels
NormalLabels(item, mode) ==
    Over([cdo_source_mode |-> <<mode>>, cdo_original_signal |-> <<item.fields.signal_name>>],
         Over(item.labels, [system |-> Or(Get(item.fields, "system"), DefaultSystem)]))

\* validate_point, on a point that has its fields.
Valid(point) ==
    /\ DOMAIN point.fields = TopLevelFields
    /\ \A f \in TopLevelFields \ {"signal_name"} : point.fields[f] # Absent
    /\ point.fields.ts = <<"utc_ms">>
    /\ point.fields.tenant_id = TenantId
    /\ point.fields.signal_name \in ContractSignals
    /\ Get(point.labels, "system") # Absent
    /\ point.fields.value # <<"object">>

\* The point normalize_point builds from a signal and value it could map.
NormalPoint(item, mode, mapped) == [
    fields |-> [ts          |-> <<"utc_ms">>,
                tenant_id   |-> Or(Get(item.fields, "tenant_id"), TenantId),
                service     |-> NormalService(item),
                signal_name |-> mapped[1],
                value       |-> Scrubbed(mapped[2])],
    labels |-> NormalLabels(item, mode) ]

\* The points normalize_point may return: one, or none if it raises.
NormalPoints(item, mode) ==
    {point \in {NormalPoint(item, mode, mapped) : mapped \in
                  NormalSignal(Get(item.fields, "signal_name"), Get(item.fields, "value"))} :
        Valid(point) /\ Get(item.fields, "ts") \in Readable}

\* A program that ends: its exit code, and what it has written if that is 0.
Exit(code) == [code |-> code, window |-> << >>]

\* [item for item in items if Test(item)]
Kept(items, Test(_)) ==
    FlattenSeq([i \in DOMAIN items |-> IF Test(items[i]) THEN <<items[i]>> ELSE << >>])

\* Mutant of Normalized: what cannot be normalised is left out.
NormalizedLeniently(items, mode) ==
    LET good == Kept(items, LAMBDA item : NormalPoints(item, mode) # {})
    IN  [code |-> "0", window |-> [i \in DOMAIN good |->
            CHOOSE point \in NormalPoints(good[i], mode) : TRUE]]

\* What fails an item is not a TelemetryContractError.
Crashes(item) ==
    \/ Get(item.fields, "ts") = OutOfRange
    \/ Unhashable(Get(item.fields, "signal_name"), Get(item.fields, "value"))

\* normalize_window: one item that cannot be normalised fails them all.
Normalized(items, mode) ==
    LET points == [i \in DOMAIN items |-> NormalPoints(items[i], mode)]
        bad == {i \in DOMAIN items : points[i] = {}}
    IN  IF bad = {} THEN [code |-> "0", window |->
                            [i \in DOMAIN items |-> CHOOSE point \in points[i] : TRUE]]
        ELSE IF Crashes(items[Min(bad)]) THEN Exit("traceback") ELSE Exit("1")

-----------------------------------------------------------------------------
(* The collectors' formats.  Each is turned into items of the form Raw,    *)
(* which normalize_point then takes.                                       *)

Raw(ts, tenantId, service, signal, value, labels) == [
    fields |-> [ts |-> ts, tenant_id |-> tenantId, service |-> service,
                signal_name |-> signal, value |-> value],
    labels |-> labels ]

\* {k: v for k, v in labels.items() if v}
Given(labels) == [key \in {k \in DOMAIN labels : labels[k] # Absent} |-> labels[key]]

NoItem == [fields |-> [none |-> Absent], labels |-> [none |-> Absent]]

\* _first: the item's value goes before the parent's, an earlier key before both.
First(item, parent, keys) ==
    LET value(key) == Or(Get(item.fields, key), Get(parent.fields, key))
    IN  FirstOf([key \in ToSet(keys) |-> value(key)], keys)

\* The field _base_labels reads for a label.  Its table has aliases for three
\* of them, k8s_namespace, k8s_deployment and pod_name, but setdefault has set
\* the label by then, to None if need be: they are never read.
LabelSource == [system |-> "system", namespace |-> "namespace", deployment |-> "deployment",
                pod_name |-> "pod", container |-> "container", endpoint |-> "endpoint"]

\* _base_labels
BaseLabels(item, parent) ==
    Given(Over(item.labels, Over(parent.labels,
          [label \in DOMAIN LabelSource |-> First(item, parent, <<LabelSource[label]>>)])))

UnknownService == <<"unknown-service">>

\* from_prometheus_result; metric labels and the set of words in __name__.
FromPrometheus(result, args) ==
    LET point(metric, value) ==
          Raw(<<"utc_ms">>, TenantId, Or(FirstOf(metric, <<"service", "app">>), args.service),
              args.signal_name, value,
              Given(Over([pod_name |-> Get(metric, "pod"), container |-> Get(metric, "container"),
                          endpoint |-> FirstOf(metric, <<"endpoint", "path">>)],
                    Over([key \in DOMAIN metric \cap {"system", "namespace", "deployment"} |->
                            metric[key]],
                         [system |-> DefaultSystem, namespace |-> args.namespace,
                          deployment |-> args.deployment]))))
    IN  [i \in DOMAIN result |-> point(result[i].labels, result[i].fields.value)]

\* _infer_signal_from_metric
InferSignal(words) ==
    CASE words \cap {"latency", "duration"} # {} -> "service_latency_p95"
      [] words \cap {"latency", "duration"} = {} /\ words \cap {"error", "5xx"} # {} ->
           "service_error_rate"
      [] OTHER -> IF "restart" \in words THEN "container_restart_count"
                  ELSE IF words \cap {"memory", "container"} # {} THEN "container_resource_usage"
                  ELSE IF words \cap {"queue", "backlog"} # {} THEN "queue_backlog"
                  ELSE "service_unhealthy"

\* _auto_prometheus: the arguments, taken from the fields beside the data, else
\* from the first metric.
PrometheusArgs(file) ==
    LET first == IF file.parts.result = << >> THEN [labels |-> NoItem.labels, words |-> {}]
                                              ELSE file.parts.result[1]
        given(key) == Or(Get(file.fields, key), Get(first.labels, key))
        service == Or(given("service"),
                      Or(FirstOf(first.labels, <<"app", "deployment">>), UnknownService))
    IN  [signal_name |-> Or(given("signal_name"), <<InferSignal(first.words)>>)[1],
         service     |-> service,
         namespace   |-> Or(given("namespace"), Unknown),
         deployment  |-> Or(given("deployment"), service)]

\* from_kubernetes_events: the signals of an event, none for most reasons.
\* <<"OOMKilled">> is any text with this word in it.
EventSignals(event) ==
    IF Get(event, "reason") = <<"OOMKilling">>
         \/ FirstOf(event, <<"message", "reason">>) = <<"OOMKilled">>
      THEN {"pod_oom_event"}
    ELSE IF Get(event, "reason") \in {<<"Unhealthy">>, <<"BackOff">>, <<"Failed">>, <<"FailedScheduling">>}
      THEN {"service_unhealthy"} ELSE {}

\* _deployment_from_event
DeploymentFromEvent(name) == StripSuffixes(name, 2)

FromEvents(items) ==
    LET events == Kept(items, LAMBDA item : EventSignals(item.fields) # {})
        point(event) ==
          LET deployment == DeploymentFromEvent(Or(Get(event, "name"), Unknown))
          IN  Raw(FirstOf(event, <<"eventTime", "lastTimestamp", "firstTimestamp">>), TenantId,
                  Or(Get(event, "app"), deployment),
                  CHOOSE signal \in EventSignals(event) : TRUE,
                  FirstOf(event, <<"message", "reason">>),
                  [system |-> <<"K8S_NATIVE">>, namespace |-> Get(event, "namespace"),
                   deployment |-> deployment, pod_name |-> Get(event, "name")])
    IN  [i \in DOMAIN events |-> point(events[i].fields)]

MessageKeys == <<"message", "log", "msg", "@message", "value">>

\* The message of a log event is None; an empty "value", the last operand of
\* the code's "or", is not.
NoMessage(item) ==
    FirstOf(item.fields, MessageKeys) = Absent /\ "value" \notin DOMAIN item.fields

\* from_log_events
FromLogs(items, parent) ==
    LET logs == Kept(items, LAMBDA item : ~NoMessage(item))
        point(event) ==
          Raw(TimestampFromRaw(FirstOf(event.fields, <<"ts", "timestamp", "@timestamp", "time">>)),
              Or(First(event, parent, <<"tenant_id">>), TenantId),
              Or(First(event, parent, <<"service", "service_name", "app", "deployment">>),
                 UnknownService),
              "application_log_event", FirstOf(event.fields, MessageKeys),
              Over(Given([level |-> FirstOf(event.fields, <<"level", "severity", "log_level">>)]),
                   BaseLabels(event, parent)))
    IN  [i \in DOMAIN logs |-> point(logs[i])]

Failed(span) == Get(span.fields, "status") \in {<<"ERROR">>, <<"STATUS_CODE_ERROR">>, <<"2">>}

\* from_otel_spans; a status message the span has, but empty, stays empty.
FromSpans(spans, parent) ==
    LET failed == Kept(spans, Failed)
        point(span) ==
          Raw(TimestampFromRaw(FirstOf(span.fields,
                <<"ts", "startTimeUnixNano", "start_time_unix_nano", "startTime">>)),
              Or(First(span, parent, <<"tenant_id">>), TenantId),
              Or(First(span, parent, <<"service", "serviceName", "service_name", "app">>),
                 UnknownService),
              "distributed_trace_error_event",
              IF "status_message" \in DOMAIN span.fields THEN span.fields.status_message
                                                         ELSE <<"ERROR">>,
              Given(Over([trace_id  |-> FirstOf(span.fields, <<"traceId", "trace_id">>),
                          span_id   |-> FirstOf(span.fields, <<"spanId", "span_id">>),
                          operation |-> FirstOf(span.fields, <<"name", "operation">>)],
                         BaseLabels(span, parent))))
    IN  [i \in DOMAIN failed |-> point(failed[i])]

\* from_otel_export and _attributes_to_dict: the attributes of a resource are
\* the parent of its spans.
ResourceParent(attributes) == [
    fields |-> [service    |-> Get(attributes, "service.name"),
                namespace  |-> Get(attributes, "k8s.namespace.name"),
                deployment |-> Get(attributes, "k8s.deployment.name"),
                pod_name   |-> Get(attributes, "k8s.pod.name"),
                system     |-> Or(Get(attributes, "system"), DefaultSystem)],
    labels |-> NoItem.labels ]

FromExport(resourceSpans) ==
    FlattenSeq([i \in DOMAIN resourceSpans |->
        FromSpans(resourceSpans[i].spans, ResourceParent(resourceSpans[i].attributes))])
-----------------------------------------------------------------------------
(* auto_normalize.  A file is a "dict" with its scalars, its labels and    *)
(* its parts (the lists in it), or a "list" with the part "items".         *)

LooksLikeLog(item) ==
    DOMAIN item.fields \cap {"message", "log", "msg", "@message", "log_level", "severity"} # {}

LooksLikeSpan(item) ==
    /\ DOMAIN item.fields \cap {"traceId", "trace_id"} # {}
    /\ DOMAIN item.fields \cap {"spanId", "span_id", "name"} # {}

Has(file, part) == file.kind = "dict" /\ part \in DOMAIN file.parts

AutoNormalized(file) ==
    LET All(Test(_)) == /\ file.kind = "list"
                        /\ \A i \in DOMAIN file.parts.items : Test(file.parts.items[i])
    IN
    IF Has(file, "telemetry_window")
      THEN Normalized(file.parts.telemetry_window, "mock_scenario")
    ELSE IF Has(file, "result") /\ Get(file.fields, "status") = <<"success">>
      THEN Normalized(FromPrometheus(file.parts.result, PrometheusArgs(file)),
                      "real_prometheus")
    ELSE IF Has(file, "items") THEN Normalized(FromEvents(file.parts.items), "real_k8s_event")
    ELSE IF Has(file, "resourceSpans")
      THEN Normalized(FromExport(file.parts.resourceSpans), "real_otel_span")
    ELSE IF file.kind = "dict" /\ LooksLikeLog(file)
      THEN Normalized(FromLogs(<<file>>, NoItem), "real_log_event")
    ELSE IF Has(file, "logEvents")
      THEN Normalized(FromLogs(file.parts.logEvents, file), "real_log_event")
    ELSE IF All(LooksLikeLog)
      THEN Normalized(FromLogs(file.parts.items, NoItem), "real_log_event")
    ELSE IF All(LooksLikeSpan)
      THEN Normalized(FromSpans(file.parts.items, NoItem), "real_otel_span")
    ELSE IF All(LAMBDA item : "signal_name" \in DOMAIN item.fields)
      THEN Normalized(file.parts.items, "contract_or_internal_window")
    ELSE Exit("1")

\* validate_window
Validated(points) ==
    Exit(IF \A i \in DOMAIN points : Valid(points[i]) THEN "0" ELSE "1")
=============================================================================
