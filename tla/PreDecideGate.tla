---------------------------- MODULE PreDecideGate ----------------------------
(***************************************************************************)
(* The gate between /v1/detect and /v1/decide (executor/pre_decide_gate.py) *)
(* and the tracker of flapping services it keeps.                          *)
(*                                                                         *)
(* A detect answer is a record: anomaly (anomaly_detected), confidence and *)
(* severity in percent, and service, the key _service_key derives from the *)
(* anomaly context, or NoContext when the answer carries none.             *)
(* handle_incident never passes maintenance_active, so the gate's first    *)
(* return, maintenance_suppressed, is not a branch of this model.          *)
(***************************************************************************)
EXTENDS CircuitBreaker

CONSTANTS
    Services,        \* the service keys the AI engine names
    NoContext,       \* the key "unknown" of an answer without anomaly_context
    DiscardBelow,    \* confidence_discard_below
    ExecuteAt,       \* confidence_execute_at
    HighSeverity,    \* _HIGH_SEVERITY
    FlapWindowS,     \* flap_window_seconds
    FlapThreshold    \* flap_threshold

ASSUME GateConstants ==
    /\ NoContext \notin Services
    /\ FlapWindowS \in Nat
    /\ FlapThreshold \in Nat \ {0}
    /\ DiscardBelow \in Nat /\ ExecuteAt \in Nat /\ HighSeverity \in Nat

VARIABLE hits        \* FlapTracker._hits: detection times of each service

ServiceKeys == Services \cup {NoContext}

Percent == 0 .. 100

Detections ==
    [anomaly : BOOLEAN, confidence : Percent, severity : Percent, service : ServiceKeys]

FlapTypeOK == hits \in [ServiceKeys -> Seq(Times)]

FlapInit == hits = [s \in ServiceKeys |-> << >>]

\* The gate reaches record_and_count: only confident anomalies are tracked.
Tracked(d) == d.anomaly /\ d.confidence >= ExecuteAt

\* Mutant of Recorded: the window of the breaker is used.
RecordedBriefly(s) == DropOld(Append(hits[s], now), now - WindowS)

\* Mutant of Recorded: the cutoff is appended instead of the time.
RecordedAtCutoff(s) == DropOld(Append(hits[s], now - FlapWindowS), now - FlapWindowS)

\* FlapTracker.record_and_count: what the service's deque becomes.
Recorded(s) == DropOld(Append(hits[s], now), now - FlapWindowS)

\* The state change of evaluate: a hit for a tracked detection.
RecordHit(d) ==
    hits' = IF Tracked(d) THEN [hits EXCEPT ![d.service] = Recorded(d.service)] ELSE hits

\* The decision of evaluate, before its hit is recorded.
GateDecision(d) ==
    CASE ~d.anomaly -> "no_anomaly"
      [] d.anomaly /\ d.confidence < DiscardBelow -> "low_confidence_discard"
      [] /\ d.anomaly
         /\ d.confidence >= DiscardBelow /\ d.confidence < ExecuteAt ->
           IF d.severity >= HighSeverity THEN "low_confidence_escalated"
                                         ELSE "low_confidence_no_action"
      [] d.anomaly /\ d.confidence >= DiscardBelow /\ d.confidence >= ExecuteAt ->
           IF Len(Recorded(d.service)) >= FlapThreshold
             THEN "flapping_escalated" ELSE "proceed_to_decide"

\* The decisions whose GateResult has escalate set.
EscalatingDecisions == {"low_confidence_escalated", "flapping_escalated"}
=============================================================================
