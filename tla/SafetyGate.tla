----------------------------- MODULE SafetyGate ------------------------------
(***************************************************************************)
(* The safety gate between /v1/decide and the execution of the plan        *)
(* (executor/safety_gate.py, executor/config.py).                          *)
(*                                                                         *)
(* A plan is a decide answer: pattern (pattern_type), window               *)
(* (verify_policy.window_seconds), items (action_plan), allowed            *)
(* (blast_radius_config.allowed_namespaces) and impact                     *)
(* (max_pod_impact_pct).  An item has its action, its namespace            *)
(* (params.namespace, Missing when the answer lacks it) and the replicas   *)
(* and memory parameters, Missing when absent.                             *)
(***************************************************************************)
EXTENDS Integers, Sequences

CONSTANTS
    MinReplicas,   \* min_replicas
    MaxReplicas,   \* max_replicas
    MaxMemory      \* max_memory_mb

UrgentActions == {"RESTART_DEPLOYMENT", "PATCH_MEMORY_LIMIT", "ROLLOUT_UNDO"}
DeferredActions == {"SCALE_REPLICAS", "ROTATE_SECRET"}
AllowedActions == UrgentActions \cup DeferredActions

\* An absent parameter of an action (None, or no such key).
Missing == -1

Passed == "safety_passed"
\* params["namespace"] raises KeyError: the gate neither allows nor denies.
Raises == "raises"

\* _check_pattern_routing
WellRouted(item, pattern) ==
    /\ pattern = "urgent" => item.action \in UrgentActions
    /\ pattern = "deferred" => item.action \in DeferredActions

\* Mutant of TenantMatches: the AI's own allowed_namespaces are trusted.
TenantAllowed(item, plan, ns) == item.namespace \in plan.allowed

\* _check_tenant_match
TenantMatches(item, plan, ns) ==
    /\ item.namespace = ns
    /\ item.namespace \in plan.allowed

\* _check_blast_radius: the reason it denies the item with, Passed if none.
BlastRadiusVerdict(item, plan) ==
    CASE item.action = "SCALE_REPLICAS" /\ item.replicas # Missing
           /\ item.replicas < MinReplicas -> "scale_to_zero_denied"
      [] \/ item.action = "SCALE_REPLICAS" /\ item.replicas = Missing
         \/ item.action = "SCALE_REPLICAS" /\ item.replicas > MaxReplicas
         \/ item.action = "PATCH_MEMORY_LIMIT" /\ item.memory = Missing
         \/ item.action = "PATCH_MEMORY_LIMIT" /\ item.memory > MaxMemory
         -> "blast_radius_exceeded"
      [] OTHER -> IF plan.impact > 100 THEN "blast_radius_exceeded" ELSE Passed

\* The four checks of one item, in the order of the loop in check().
ItemVerdict(item, plan, ns) ==
    IF item.action \notin AllowedActions THEN "denied_action_not_allowed"
    ELSE IF ~WellRouted(item, plan.pattern) THEN "invalid_pattern_type"
    ELSE IF item.namespace = Missing THEN Raises
    ELSE IF ~TenantMatches(item, plan, ns) THEN "denied_cross_tenant"
    ELSE BlastRadiusVerdict(item, plan)

\* The first item the loop does not get past; 0 if it passes them all.
FirstStopped(plan, ns) ==
    LET stopped == {i \in DOMAIN plan.items : ItemVerdict(plan.items[i], plan, ns) # Passed}
    IN  IF stopped = {} THEN 0 ELSE CHOOSE i \in stopped : \A j \in stopped : i <= j

\* check(): Passed, the reason of SafetyDenied, or Raises.
SafetyVerdict(plan, ns) ==
    IF plan.pattern \notin {"urgent", "deferred"} THEN "invalid_pattern_type"
    ELSE IF plan.window <= 0 THEN "missing_verify_policy"
    ELSE IF plan.items = << >> THEN "missing_rollback_path"
    ELSE IF FirstStopped(plan, ns) = 0 THEN Passed
    ELSE ItemVerdict(plan.items[FirstStopped(plan, ns)], plan, ns)
=============================================================================
