--------------------------- MODULE IncidentProofs ----------------------------
(***************************************************************************)
(* The incident handler, proved for every threshold, window, cooldown,     *)
(* answer and plan: when it may change the cluster, whom it tells and what *)
(* it leaves in the audit bucket.                                          *)
(***************************************************************************)
EXTENDS Incident, Lemmas, FiniteSetTheorems

(* What the handler knows at each of its calls: past the gate, a confident *)
(* anomaly; past the safety gate, a plan that passed it; past the snapshot *)
(* what the plan's pattern asks for.                                       *)
PastGate == {"breaker", "decide", "safety", "snapshot", "dry_run", "execute",
             "verify", "rollback"}
PastSafety == {"snapshot", "dry_run", "execute", "verify", "rollback"}
PastSnapshot == {"dry_run", "execute", "verify", "rollback"}
Closing == {"flush", "returned", "crashed"}

GateKnown == ctx.detect \in DetectAnswers /\ Tracked(ctx.detect)
SafetyKnown == /\ ctx.decide \in Plans
               /\ SafetyVerdict(ctx.decide, ctx.ns) = Passed
SnapshotKnown == ctx.snapshot = IF Urgent THEN "k8s" ELSE "git"

Known ==
    /\ pc = "gate" => ctx.detect \in DetectAnswers
    /\ pc \in PastGate => GateKnown
    /\ pc = "safety" => ctx.decide \in Plans
    /\ pc \in PastSafety => SafetyKnown
    /\ pc \in PastSnapshot => SnapshotKnown
    /\ pc = "dry_run" => Urgent
    /\ pc = "verify" => ctx.result = "COMPLETED"
    /\ pc = "rollback" => ctx.result = "COMPLETED" /\ verdict = "ROLLBACK"
    /\ pc \in {"verify", "rollback"} => change = IF Urgent THEN "applied" ELSE "none"
    /\ pc \notin {"rollback"} \cup Closing => verdict = NoAnswer

(* A change is only there after the call that made it, of a plan that      *)
(* passed every check.                                                     *)
ChangeKnown ==
    change # "none" => /\ pc \in {"verify", "rollback"} \cup Closing
                       /\ GateKnown /\ SafetyKnown /\ SnapshotKnown /\ Urgent

(* An escalation is the last thing before the flush, its bundle what the   *)
(* context holds; a change is reported unless an exception is on its way.  *)
Told ==
    /\ bundle # NoAnswer => pc \in Closing /\ bundle = BundleOf(ctx)
    /\ raised => pc = "flush"

Flushed == pc = "returned" \/ (pc = "flush" /\ ~raised)

Reported ==
    Flushed /\ change # "none" =>
        /\ ctx.result # NoAnswer
        /\ \/ change = "undone"
           \/ verdict \in {"DONE", "RETRY", "ROLLBACK"}
           \/ outcome = "idempotency_duplicate_denied"
           \/ /\ bundle = Evidence
              /\ failures # << >> \/ openedAt # None

Written == pc = "returned" => stored = Trail

(* The breaker lets nobody through before the cooldown of its trip is over. *)
TripKnown ==
    /\ openedAt # None => trippedAt = openedAt
    /\ openedAt = None => trippedAt = None \/ now - trippedAt >= CooldownS
    /\ pc \in {"decide", "safety", "snapshot", "dry_run", "execute", "verify", "rollback"}
         => openedAt = None

(* The deque of a service is the end of its confident detections; those it *)
(* no longer holds have left the window.                                   *)
DroppedAreOld ==
    \A s \in ServiceKeys :
        LET dropped == Len(seen[s]) - Len(hits[s]) IN
        /\ dropped >= 0
        /\ \A j \in 1 .. Len(hits[s]) : hits[s][j] = seen[s][dropped + j]
        /\ \A j \in 1 .. dropped : seen[s][j] < now - FlapWindowS

FlapKnown == pc \in PastGate \/ change # "none" => flaps < FlapThreshold

-----------------------------------------------------------------------------
(* record_failure() leaves at least the failure it records.                *)
LEMMA FailureRecorded ==
    ASSUME BreakerTypeOK, RecordFailure
    PROVE  /\ failures' \in Seq(Times) /\ failures' # << >>
           /\ openedAt' \in Times \cup {None}
<1>1. now \in Times /\ failures \in Seq(Times) /\ Len(failures) \in Nat
  BY LenProperties DEF BreakerTypeOK
<1>2. PICK i \in 1 .. (Len(failures) + 1) :
          /\ failures' \in Seq(Times)
          /\ Len(failures') = Len(failures) + 2 - i
  BY <1>1, RecordingProperties, BreakerConstants DEF RecordFailure
<1>3. Len(failures') # 0
  BY <1>1, <1>2
<1> QED
  BY <1>1, <1>2, <1>3 DEF RecordFailure, BreakerTypeOK

(* The gate's hit keeps the deque and the history sequences of times.      *)
LEMMA HitRecorded ==
    ASSUME TypeOK, NEW s \in ServiceKeys
    PROVE  /\ Recorded(s) \in Seq(Times)
           /\ Append(seen[s], now) \in Seq(Times)
<1>1. now \in Times /\ hits[s] \in Seq(Times) /\ seen[s] \in Seq(Times)
  BY DEF TypeOK, BreakerTypeOK, FlapTypeOK
<1>2. PICK i \in 1 .. (Len(hits[s]) + 1) : Recorded(s) \in Seq(Times)
  BY <1>1, RecordingProperties, GateConstants DEF Recorded
<1> QED
  BY <1>1, <1>2, AppendProperties

(* flaps counts something.                                                 *)
LEMMA CountedIsNat ==
    ASSUME NEW f \in Seq(Times), NEW cutoff
    PROVE  Cardinality({i \in DOMAIN f : f[i] >= cutoff}) \in Nat
<1>1. Len(f) \in Nat /\ DOMAIN f = 1 .. Len(f)
  BY LenProperties
<1>2. IsFiniteSet(1 .. Len(f))
  BY <1>1, FS_Interval
<1> QED
  BY <1>1, <1>2, FS_Subset, FS_CardinalityType

\* The breaker and its history are left alone, or count a failure.
FailureOnly ==
    \/ UNCHANGED <<failures, openedAt, trippedAt>>
    \/ RecordFailure /\ trippedAt' = IF openedAt' # openedAt THEN now ELSE trippedAt

\* Where the handler may turn: a call, or an end, with a bundle or without.
Turns ==
    /\ pc' \in Calls
    /\ raised' \in BOOLEAN
    /\ bundle' = bundle \/ bundle' = BundleOf(ctx')

(* What the ways on have in common.                                        *)
LEMMA Ways ==
    ASSUME TypeOK
    PROVE  /\ \A call \in Calls : GoTo(call) => Turns
           /\ Raise => Turns
           /\ \A r : Close(r) => Turns
           /\ \A r : Escalate(r) => Turns
           /\ \A r : FailAndEscalate(r) => Turns /\ FailureOnly
           /\ CountFailure => FailureOnly
BY DEF TypeOK, GoTo, Raise, Close, Escalate, FailAndEscalate, CountFailure, Turns, FailureOnly, Calls

(* The part of the type invariant these leave to check: the context.       *)
LEMMA TurnsTyped ==
    ASSUME TypeOK, Turns, UNCHANGED <<now, hits, stored, handled, trippedAt, seen, flaps>>,
           failures' \in Seq(Times), openedAt' \in Times \cup {None}
    PROVE  /\ BreakerTypeOK' /\ FlapTypeOK'
           /\ pc' \in Calls \cup {"idle", "returned", "crashed"}
           /\ bundle' \in Answered(SUBSET Evidence)
           /\ raised' \in BOOLEAN
           /\ stored' \in Answered(SUBSET (Evidence \cup {"escalated"}))
           /\ handled' \in 0 .. MaxIncidents
           /\ trippedAt' \in Times \cup {None}
           /\ seen' \in [ServiceKeys -> Seq(Times)]
           /\ flaps' \in Nat
<1>1. BundleOf(ctx') \in SUBSET Evidence
  BY DEF BundleOf
<1> QED
  BY <1>1 DEF TypeOK, BreakerTypeOK, FlapTypeOK, Turns, Answered

(* The same where a failure may be counted.                                *)
LEMMA TurnsKeepType ==
    ASSUME TypeOK, Turns, FailureOnly, UNCHANGED <<now, hits, stored, handled, seen, flaps>>
    PROVE  /\ BreakerTypeOK' /\ FlapTypeOK'
           /\ pc' \in Calls \cup {"idle", "returned", "crashed"}
           /\ bundle' \in Answered(SUBSET Evidence)
           /\ raised' \in BOOLEAN
           /\ stored' \in Answered(SUBSET (Evidence \cup {"escalated"}))
           /\ handled' \in 0 .. MaxIncidents
           /\ trippedAt' \in Times \cup {None}
           /\ seen' \in [ServiceKeys -> Seq(Times)]
           /\ flaps' \in Nat
<1>1. failures' \in Seq(Times) /\ openedAt' \in Times \cup {None}
      /\ trippedAt' \in Times \cup {None}
  BY FailureRecorded DEF FailureOnly, TypeOK, BreakerTypeOK
<1>2. BundleOf(ctx') \in SUBSET Evidence
  BY DEF BundleOf
<1> QED
  BY <1>1, <1>2 DEF TypeOK, BreakerTypeOK, FlapTypeOK, Turns, Answered

\* The part of TypeOK that is about what the process remembers.
MemoryTyped ==
    /\ BreakerTypeOK /\ FlapTypeOK
    /\ trippedAt \in Times \cup {None}
    /\ seen \in [ServiceKeys -> Seq(Times)]
    /\ flaps \in Nat

\* The part that is about the call.
CallTyped ==
    /\ pc \in Calls \cup {"idle", "returned", "crashed"}
    /\ ctx \in [ns : Answered(Namespaces), detect : Answered(DetectAnswers),
                decide : Answered(Plans), snapshot : Answered({"k8s", "git"}),
                result : Answered({"COMPLETED", "FAILED"})]
    /\ verdict \in Answered({"DONE", "RETRY", "ROLLBACK", "ESCALATE"})
    /\ raised \in BOOLEAN
    /\ change \in {"none", "applied", "undone"}

\* The part that is about what leaves it.
TracesTyped ==
    /\ bundle \in Answered(SUBSET Evidence)
    /\ stored \in Answered(SUBSET (Evidence \cup {"escalated"}))
    /\ handled \in 0 .. MaxIncidents

(* The three parts are the whole.                                          *)
LEMMA TypeParts ==
    /\ TypeOK <=> MemoryTyped /\ CallTyped /\ TracesTyped
    /\ TypeOK' <=> (MemoryTyped /\ CallTyped /\ TracesTyped)'
BY DEF TypeOK, MemoryTyped, CallTyped, TracesTyped

(* It holds where nothing is counted and no hit is recorded.               *)
LEMMA Untouched ==
    ASSUME TypeOK, NotCounted, NotSeen, UNCHANGED now
    PROVE  MemoryTyped'
BY DEF TypeOK, BreakerTypeOK, FlapTypeOK, NotCounted, NotSeen, MemoryTyped

(* The variables of the handler keep their types.                          *)
LEMMA TypeStep == TypeOK /\ Known /\ [Next]_vars => TypeOK'
<1> SUFFICES ASSUME TypeOK, Known, [Next]_vars PROVE TypeOK'
  OBVIOUS
<1> USE DEF Calls, Answered
<1>1. CASE Tick
  BY <1>1 DEF Tick, TypeOK, BreakerTypeOK, FlapTypeOK, procVars, histVars, Times
<1>2. ASSUME NEW n \in Namespaces, Start(n) PROVE TypeOK'
  <2>1. MemoryTyped'
    BY <1>2, Untouched DEF Start
  <2> QED
    BY <1>2, <2>1, IncidentConstants DEF Start, TypeOK, MemoryTyped, EmptyCtx
<1>3. CASE Detect
  <2>1. Turns /\ FailureOnly
    BY <1>3, Ways DEF Detect, Conflict, NotCounted, FailureOnly
  <2>2. ctx' = ctx \/ \E d \in DetectAnswers : ctx' = [ctx EXCEPT !.detect = d]
    BY <1>3 DEF Detect
  <2> QED
    BY <1>3, <2>1, <2>2, TurnsKeepType DEF Detect, NotSeen, TypeOK
<1>4. CASE Gate
  <2> DEFINE d == ctx.detect
  <2>0. d.service \in ServiceKeys
    BY <1>4, IncidentConstants DEF Gate, Known, Detections
  <2>1. Turns
    BY <1>4, Ways DEF Gate
  <2>2. hits' \in [ServiceKeys -> Seq(Times)] /\ seen' \in [ServiceKeys -> Seq(Times)]
    <3>1. CASE Tracked(d)
      <4>1. hits' = [hits EXCEPT ![d.service] = Recorded(d.service)]
            /\ seen' = [seen EXCEPT ![d.service] = Append(@, now)]
        BY <1>4, <3>1 DEF Gate, RecordHit
      <4> QED
        BY <2>0, <4>1, HitRecorded DEF TypeOK, FlapTypeOK
    <3>2. CASE ~Tracked(d)
      BY <1>4, <3>2 DEF Gate, RecordHit, TypeOK, FlapTypeOK
    <3> QED
      BY <3>1, <3>2
  <2>3. flaps' \in Nat
    <3>1. seen'[d.service] \in Seq(Times)
      BY <2>0, <2>2
    <3> QED
      BY <1>4, <3>1, CountedIsNat DEF Gate
  <2>4. MemoryTyped'
    BY <1>4, <2>2, <2>3, TypeParts DEF Gate, MemoryTyped, NotCounted, BreakerTypeOK, FlapTypeOK
  <2>5. CallTyped'
    BY <1>4, <2>1, TypeParts DEF Gate, Turns, CallTyped
  <2>6. TracesTyped'
    BY <1>4, <2>1, TypeParts DEF Gate, Turns, TracesTyped, BundleOf
  <2> QED
    BY <2>4, <2>5, <2>6, TypeParts
<1>5. CASE AskBreaker
  <2>1. Turns
    BY <1>5, Ways DEF AskBreaker
  <2>2. failures' \in Seq(Times) /\ openedAt' \in Times \cup {None}
    <3>1. \/ failures' = failures /\ openedAt' = openedAt
          \/ failures' = << >> /\ openedAt' = None
      BY <1>5 DEF AskBreaker, IsOpenFalse, IsOpenTrue, breakerVars
    <3>2. /\ failures \in Seq(Times) /\ openedAt \in Times \cup {None}
          /\ << >> \in Seq(Times)
      BY EmptySeq DEF TypeOK, BreakerTypeOK
    <3> QED
      BY <3>1, <3>2
  <2>3. MemoryTyped'
    BY <1>5, <2>2, TypeParts DEF AskBreaker, MemoryTyped, NotSeen, BreakerTypeOK, FlapTypeOK
  <2>4. CallTyped'
    BY <1>5, <2>1, TypeParts DEF AskBreaker, Turns, CallTyped
  <2>5. TracesTyped'
    BY <1>5, <2>1, TypeParts DEF AskBreaker, Turns, TracesTyped, BundleOf
  <2> QED
    BY <2>3, <2>4, <2>5, TypeParts
<1>6. CASE Decide
  <2>1. Turns /\ FailureOnly
    BY <1>6, Ways DEF Decide, Conflict, NotCounted, FailureOnly
  <2>2. ctx' = ctx \/ \E p \in Plans : ctx' = [ctx EXCEPT !.decide = p]
    BY <1>6 DEF Decide
  <2> QED
    BY <1>6, <2>1, <2>2, TurnsKeepType DEF Decide, NotSeen, TypeOK
<1>7. CASE CheckSafety
  <2>1. Turns /\ FailureOnly
    BY <1>7, Ways DEF CheckSafety, NotCounted, FailureOnly
  <2> QED
    BY <1>7, <2>1, TurnsKeepType DEF CheckSafety, NotSeen, TypeOK
<1>8. CASE Snapshot
  <2>1. Turns /\ FailureOnly
    BY <1>8, Ways DEF Snapshot, NotCounted, FailureOnly
  <2>2. ctx' = ctx \/ \E k \in {"k8s", "git"} : ctx' = [ctx EXCEPT !.snapshot = k]
    BY <1>8 DEF Snapshot
  <2> QED
    BY <1>8, <2>1, <2>2, TurnsKeepType DEF Snapshot, NotSeen, TypeOK
<1>9. CASE DryRun
  <2>1. Turns /\ FailureOnly
    BY <1>9, Ways DEF DryRun, NotCounted, FailureOnly
  <2>2. ctx' = ctx \/ ctx' = [ctx EXCEPT !.result = "FAILED"]
    BY <1>9 DEF DryRun
  <2> QED
    BY <1>9, <2>1, <2>2, TurnsKeepType DEF DryRun, NotSeen, TypeOK
<1>10. CASE Execute
  <2>1. Turns /\ FailureOnly
    BY <1>10, Ways DEF Execute, NotCounted, FailureOnly
  <2>2. ctx' = ctx \/ \E r \in {"COMPLETED", "FAILED"} : ctx' = [ctx EXCEPT !.result = r]
    BY <1>10 DEF Execute
  <2> QED
    BY <1>10, <2>1, <2>2, TurnsKeepType DEF Execute, NotSeen, TypeOK
<1>11. CASE Verify
  <2>1. Turns
    BY <1>11, Ways DEF Verify, Conflict
  <2>2. CASE verdict' = "DONE" /\ RecordSuccess /\ UNCHANGED trippedAt
    <3>1. failures' \in Seq(Times) /\ openedAt' \in Times \cup {None}
      BY <2>2 DEF RecordSuccess, TypeOK, BreakerTypeOK
    <3> QED
      BY <1>11, <2>1, <2>2, <3>1, TurnsTyped DEF Verify, NotSeen, TypeOK
  <2>3. CASE FailureOnly
    BY <1>11, <2>1, <2>3, TurnsKeepType DEF Verify, NotSeen, TypeOK
  <2> QED
    BY <1>11, <2>2, <2>3, Ways DEF Verify, NotCounted, FailureOnly
<1>12. CASE Rollback
  <2>1. Turns /\ FailureOnly
    BY <1>12, Ways DEF Rollback, NotCounted, FailureOnly
  <2> QED
    BY <1>12, <2>1, TurnsKeepType DEF Rollback, NotSeen, TypeOK
<1>13. CASE Flush
  <2>1. Trail \in SUBSET (Evidence \cup {"escalated"})
    BY DEF Trail
  <2>2. MemoryTyped'
    BY <1>13, Untouched DEF Flush
  <2>3. CallTyped'
    BY <1>13, TypeParts DEF Flush, CallTyped
  <2>4. TracesTyped'
    BY <1>13, <2>1, TypeParts DEF Flush, TracesTyped
  <2> QED
    BY <1>13, <2>2, <2>3, <2>4, TypeParts
<1>14. CASE Killed
  <2>1. MemoryTyped'
    BY <1>14, Untouched DEF Killed
  <2>2. CallTyped'
    BY <1>14, TypeParts DEF Killed, CallTyped
  <2>3. TracesTyped'
    BY <1>14, TypeParts DEF Killed, TracesTyped
  <2> QED
    BY <1>14, <2>1, <2>2, <2>3, TypeParts
<1>15. CASE Return
  BY <1>15 DEF Return, Forget, EmptyCtx, TypeOK, BreakerTypeOK, FlapTypeOK
<1>16. CASE Restart
  BY <1>16 DEF Restart, Forget, EmptyCtx, TypeOK, BreakerTypeOK, FlapTypeOK
<1>17. CASE UNCHANGED vars
  BY <1>17 DEF vars, procVars, histVars, TypeOK, BreakerTypeOK, FlapTypeOK
<1> QED
  BY <1>1, <1>2, <1>3, <1>4, <1>5, <1>6, <1>7, <1>8, <1>9, <1>10, <1>11, <1>12, <1>13, <1>14,
     <1>15, <1>16, <1>17 DEF Next, Handler

-----------------------------------------------------------------------------
(* Only a confident anomaly of a service that is not flapping gets past    *)
(* the pre-decide gate.                                                    *)
LEMMA ProceedIsTracked ==
    ASSUME NEW d \in Detections, GateDecision(d) = "proceed_to_decide"
    PROVE  Tracked(d) /\ ~(Len(Recorded(d.service)) >= FlapThreshold)
<1>1. /\ d.anomaly \in BOOLEAN /\ d.confidence \in Int
      /\ DiscardBelow \in Int /\ ExecuteAt \in Int
  BY GateConstants DEF Detections, Percent
<1>2. /\ d.anomaly
      /\ ~(d.confidence < DiscardBelow)
      /\ ~(d.confidence < ExecuteAt)
  BY <1>1 DEF GateDecision
<1> QED
  BY <1>1, <1>2 DEF GateDecision, Tracked

(* A plan a reader would call safe for an incident in the namespace ns,    *)
(* with the checks of safety_gate.py in no order.                          *)
WithinCaps(item) ==
    /\ item.action = "SCALE_REPLICAS" =>
           item.replicas # Missing /\ item.replicas \in MinReplicas .. MaxReplicas
    /\ item.action = "PATCH_MEMORY_LIMIT" =>
           item.memory # Missing /\ item.memory <= MaxMemory

SafeItem(item, plan, ns) ==
    /\ item.action \in IF plan.pattern = "urgent" THEN UrgentActions ELSE DeferredActions
    /\ item.namespace = ns /\ item.namespace \in plan.allowed /\ item.namespace # Missing
    /\ WithinCaps(item)

SafePlan(plan, ns) ==
    /\ plan.pattern \in {"urgent", "deferred"}
    /\ plan.window > 0
    /\ plan.items # << >>
    /\ plan.impact <= 100
    /\ \A i \in DOMAIN plan.items : SafeItem(plan.items[i], plan, ns)

LEMMA ItemsHaveIndices ==
    ASSUME NEW p \in Plans
    PROVE  /\ DOMAIN p.items \subseteq Nat /\ 0 \notin DOMAIN p.items
           /\ p.items # << >> => 1 \in DOMAIN p.items
<1>1. DOMAIN p.items = 1 .. Len(p.items) /\ Len(p.items) \in Nat
  BY PlanConstants, LenProperties
<1>2. p.items # << >> => 1 \in DOMAIN p.items
  BY <1>1, PlanConstants, EmptySeq
<1> QED
  BY <1>1, <1>2

(* The loop stops at no item only when every item passes.                  *)
LEMMA StoppedNowhere ==
    ASSUME NEW p \in Plans, NEW ns
    PROVE  /\ FirstStopped(p, ns) = 0
                <=> \A i \in DOMAIN p.items : ItemVerdict(p.items[i], p, ns) = Passed
           /\ FirstStopped(p, ns) # 0
                => ItemVerdict(p.items[FirstStopped(p, ns)], p, ns) # Passed
<1> DEFINE stopped == {i \in DOMAIN p.items : ItemVerdict(p.items[i], p, ns) # Passed}
<1>1. CASE stopped = {}
  BY <1>1 DEF FirstStopped
<1>2. CASE stopped # {}
  <2>1. stopped \subseteq Nat /\ 0 \notin stopped
    BY ItemsHaveIndices
  <2>2. \E i \in stopped : \A j \in stopped : i <= j
    BY <1>2, <2>1, LeastNat
  <2>3. FirstStopped(p, ns) \in stopped
    BY <1>2, <2>2 DEF FirstStopped
  <2> QED
    BY <2>1, <2>3
<1> QED
  BY <1>1, <1>2

LEMMA ItemIsSafe ==
    ASSUME NEW p \in Plans, NEW ns, NEW i \in DOMAIN p.items,
           p.pattern \in {"urgent", "deferred"}
    PROVE  ItemVerdict(p.items[i], p, ns) = Passed
               <=> SafeItem(p.items[i], p, ns) /\ p.impact <= 100
<1> DEFINE item == p.items[i]
<1>1. /\ item.replicas \in Int /\ item.memory \in Int /\ p.impact \in Int
      /\ MinReplicas \in Int /\ MaxReplicas \in Int /\ MaxMemory \in Int
  <2>1. /\ p.items[i].replicas \in Int /\ p.items[i].memory \in Int
        /\ p.impact \in Int
    BY PlanConstants, Zenon
  <2> QED
    BY <2>1, IncidentConstants
<1> HIDE DEF item
<1>2. BlastRadiusVerdict(item, p) = Passed <=> WithinCaps(item) /\ p.impact <= 100
  BY <1>1 DEF BlastRadiusVerdict, WithinCaps, Passed
<1>3. item.action \in AllowedActions /\ WellRouted(item, p.pattern)
        <=> item.action \in IF p.pattern = "urgent" THEN UrgentActions ELSE DeferredActions
  BY DEF AllowedActions, WellRouted
<1>4. ItemVerdict(item, p, ns) = Passed <=>
        /\ item.action \in AllowedActions /\ WellRouted(item, p.pattern)
        /\ item.namespace # Missing /\ TenantMatches(item, p, ns)
        /\ BlastRadiusVerdict(item, p) = Passed
  BY DEF ItemVerdict, Passed, Raises
<1>5. ItemVerdict(item, p, ns) = Passed <=> SafeItem(item, p, ns) /\ p.impact <= 100
  BY <1>2, <1>3, <1>4 DEF SafeItem, TenantMatches
<1> QED
  BY <1>5 DEF item

(* safety_gate.check denies nothing else and lets nothing else through: it *)
(* passes exactly the plans every item of which is safe, in whatever order *)
(* the items and the checks come.                                          *)
THEOREM GateIsExact ==
    ASSUME NEW p \in Plans, NEW ns
    PROVE  SafetyVerdict(p, ns) = Passed <=> SafePlan(p, ns)
<1>0. p.window \in Int
  BY PlanConstants, Zenon
<1>1. CASE p.pattern \notin {"urgent", "deferred"}
  BY <1>1 DEF SafetyVerdict, SafePlan, Passed
<1>2. CASE p.pattern \in {"urgent", "deferred"} /\ p.window <= 0
  BY <1>0, <1>2 DEF SafetyVerdict, SafePlan, Passed
<1>3. CASE p.pattern \in {"urgent", "deferred"} /\ ~(p.window <= 0) /\ p.items = << >>
  BY <1>3 DEF SafetyVerdict, SafePlan, Passed
<1>4. CASE p.pattern \in {"urgent", "deferred"} /\ ~(p.window <= 0) /\ p.items # << >>
  <2>1. SafetyVerdict(p, ns) = Passed
          <=> \A i \in DOMAIN p.items : ItemVerdict(p.items[i], p, ns) = Passed
    BY <1>4, StoppedNowhere DEF SafetyVerdict
  <2>2. SafetyVerdict(p, ns) = Passed
          <=> \A i \in DOMAIN p.items : SafeItem(p.items[i], p, ns) /\ p.impact <= 100
    BY <1>4, <2>1, ItemIsSafe
  <2>3. 1 \in DOMAIN p.items /\ p.window > 0
    BY <1>0, <1>4, ItemsHaveIndices
  <2> QED
    BY <1>4, <2>2, <2>3 DEF SafePlan
<1> QED
  BY <1>1, <1>2, <1>3, <1>4

(* A plan that passes the safety gate has a first item, and that one is    *)
(* within the caps and about the namespace of the incident.                *)
LEMMA PassedPlan ==
    ASSUME NEW p \in Plans, NEW ns, SafetyVerdict(p, ns) = Passed
    PROVE  /\ p.items # << >>
           /\ p.pattern = "urgent" => p.items[1].action \in UrgentActions
           /\ p.items[1].namespace = ns
           /\ p.items[1].action = "PATCH_MEMORY_LIMIT" => p.items[1].memory <= MaxMemory
<1>1. /\ p.items # << >>
      /\ p.pattern \in {"urgent", "deferred"}
  BY DEF SafetyVerdict, Passed
<1>2. 1 \in DOMAIN p.items
  BY <1>1, ItemsHaveIndices
<1>3. ItemVerdict(p.items[1], p, ns) = Passed
  BY <1>2, StoppedNowhere DEF SafetyVerdict, Passed
<1>4. /\ p.pattern = "urgent" => p.items[1].action \in UrgentActions
      /\ p.items[1].namespace = ns
      /\ BlastRadiusVerdict(p.items[1], p) = Passed
  BY <1>3 DEF ItemVerdict, WellRouted, TenantMatches, Passed, Raises
<1>5. p.items[1].action = "PATCH_MEMORY_LIMIT" => ~(p.items[1].memory > MaxMemory)
  <2> SUFFICES ASSUME p.items[1].action = "PATCH_MEMORY_LIMIT", p.items[1].memory > MaxMemory
               PROVE  FALSE
    OBVIOUS
  <2>1. BlastRadiusVerdict(p.items[1], p) = "blast_radius_exceeded"
    BY DEF BlastRadiusVerdict
  <2>2. "blast_radius_exceeded" # Passed
    BY DEF Passed
  <2> QED
    BY <1>4, <2>1, <2>2
<1>6. p.items[1].memory \in Int /\ MaxMemory \in Int
  <2>1. p.items[1].memory \in Int
    BY <1>2, PlanConstants, Zenon
  <2> QED
    BY <2>1, IncidentConstants
<1> QED
  BY <1>1, <1>4, <1>5, <1>6

-----------------------------------------------------------------------------
(* What is known at a call was learnt by the calls before it.              *)
LEMMA KnownStep ==
    ASSUME TypeOK, Known, ChangeKnown, [Next]_vars
    PROVE  Known' /\ ChangeKnown'
<1> USE DEF Known, ChangeKnown, PastGate, PastSafety, PastSnapshot, Closing
<1> USE DEF GateKnown, SafetyKnown, SnapshotKnown, Urgent, Tracked
<1>0. ctx \in [ns : Answered(Namespaces), detect : Answered(DetectAnswers),
               decide : Answered(Plans), snapshot : Answered({"k8s", "git"}),
               result : Answered({"COMPLETED", "FAILED"})]
  BY DEF TypeOK
<1>1. CASE Tick
  BY <1>1 DEF Tick
<1>2. ASSUME NEW n \in Namespaces, Start(n) PROVE Known' /\ ChangeKnown'
  BY <1>2 DEF Start
<1>3. CASE Detect
  BY <1>0, <1>3 DEF Detect, GoTo, FailAndEscalate, CountFailure, Escalate, Conflict, Close, Raise
<1>4. CASE Gate
  <2>1. ctx.detect \in Detections
    BY <1>4, IncidentConstants DEF Gate
  <2> QED
    BY <1>0, <1>4, <2>1, ProceedIsTracked DEF Gate, GoTo, Escalate, Close
<1>5. CASE AskBreaker
  BY <1>5 DEF AskBreaker, GoTo, Escalate
<1>6. CASE Decide
  BY <1>0, <1>6 DEF Decide, GoTo, FailAndEscalate, CountFailure, Escalate, Conflict, Close, Raise
<1>7. CASE CheckSafety
  <2>1. CASE pc' = "snapshot"
    BY <1>7, <2>1 DEF CheckSafety, GoTo, Escalate, Raise
  <2>2. CASE pc' = "flush"
    BY <1>7, <2>2 DEF CheckSafety
  <2> QED
    BY <1>7, <2>1, <2>2 DEF CheckSafety, GoTo, Escalate, Raise
<1>8. CASE Snapshot
  BY <1>0, <1>8 DEF Snapshot, GoTo, Raise
<1>9. CASE DryRun
  BY <1>0, <1>9 DEF DryRun, GoTo, FailAndEscalate, CountFailure, Escalate, Raise
<1>10. CASE Execute
  BY <1>0, <1>10 DEF Execute, GoTo, FailAndEscalate, CountFailure, Escalate, Raise
<1>11. CASE Verify
  BY <1>0, <1>11 DEF Verify, GoTo, FailAndEscalate, CountFailure, Escalate, Conflict, Close, Raise
<1>12. CASE Rollback
  BY <1>0, <1>12 DEF Rollback, Close, Raise
<1>13. CASE Flush
  BY <1>13 DEF Flush
<1>14. CASE Killed
  BY <1>14 DEF Killed
<1>15. CASE Return
  BY <1>15 DEF Return, Forget
<1>16. CASE Restart
  BY <1>16 DEF Restart, Forget
<1>17. CASE UNCHANGED vars
  BY <1>17 DEF vars
<1> QED
  BY <1>1, <1>2, <1>3, <1>4, <1>5, <1>6, <1>7, <1>8, <1>9, <1>10, <1>11, <1>12, <1>13, <1>14,
     <1>15, <1>16, <1>17 DEF Next, Handler

-----------------------------------------------------------------------------
(* The bundle of an escalation that follows the execution of a plan is     *)
(* complete.                                                               *)
LEMMA FullBundle ==
    ASSUME NEW c, c.detect \in DetectAnswers, c.decide \in Plans, c.decide.items # << >>,
           c.snapshot = "k8s", c.result \in {"COMPLETED", "FAILED"}
    PROVE  BundleOf(c) = Evidence
<1>1. c.detect # NoAnswer /\ c.decide # NoAnswer
  BY IncidentConstants
<1>2. c.snapshot # NoAnswer /\ c.result # NoAnswer
  BY NoAnswerConstant
<1>3. \A e \in Evidence : c[e] # NoAnswer
  BY <1>1, <1>2 DEF Evidence
<1> QED
  BY <1>3 DEF BundleOf

(* A bundle is never taken for none.                                       *)
LEMMA BundleIsAnswer == \A c : BundleOf(c) # NoAnswer
<1> SUFFICES ASSUME NEW c PROVE BundleOf(c) # NoAnswer
  OBVIOUS
<1>1. BundleOf(c) \in SUBSET (Evidence \cup {"escalated"})
  BY DEF BundleOf
<1> QED
  BY <1>1, NoAnswerConstant

(* Who is told, and what the returned call leaves behind.                  *)
LEMMA ReportStep ==
    ASSUME TypeOK, Known, ChangeKnown, Told, Reported, Written, [Next]_vars
    PROVE  Told' /\ Reported' /\ Written'
<1> USE DEF Told, Reported, Written, Flushed, Closing
<1>0. ctx \in [ns : Answered(Namespaces), detect : Answered(DetectAnswers),
               decide : Answered(Plans), snapshot : Answered({"k8s", "git"}),
               result : Answered({"COMPLETED", "FAILED"})]
  BY DEF TypeOK
<1>1. CASE Tick
  BY <1>1 DEF Tick, Trail, procVars, BundleOf
<1>2. ASSUME NEW n \in Namespaces, Start(n) PROVE Told' /\ Reported' /\ Written'
  BY <1>2 DEF Start
<1>3. CASE Detect
  <2>1. change = "none" /\ change' = "none"
    BY <1>3 DEF Detect, ChangeKnown
  <2> QED
    BY <1>3, <2>1 DEF Detect, GoTo, FailAndEscalate, CountFailure, Escalate, Conflict, Close, Raise
<1>4. CASE Gate
  <2>1. change = "none" /\ change' = "none"
    BY <1>4 DEF Gate, ChangeKnown, Closing
  <2> QED
    BY <1>4, <2>1 DEF Gate, GoTo, Escalate, Close
<1>5. CASE AskBreaker
  <2>1. change = "none" /\ change' = "none"
    BY <1>5 DEF AskBreaker, ChangeKnown
  <2> QED
    BY <1>5, <2>1 DEF AskBreaker, GoTo, Escalate
<1>6. CASE Decide
  <2>1. change = "none" /\ change' = "none"
    BY <1>6 DEF Decide, ChangeKnown
  <2> QED
    BY <1>6, <2>1 DEF Decide, GoTo, FailAndEscalate, CountFailure, Escalate, Conflict, Close, Raise
<1>7. CASE CheckSafety
  <2>1. change = "none" /\ change' = "none"
    BY <1>7 DEF CheckSafety, ChangeKnown
  <2> QED
    BY <1>7, <2>1 DEF CheckSafety, GoTo, Escalate, Raise
<1>8. CASE Snapshot
  <2>1. change = "none" /\ change' = "none"
    BY <1>8 DEF Snapshot, ChangeKnown
  <2> QED
    BY <1>8, <2>1 DEF Snapshot, GoTo, Raise
<1>9. CASE DryRun
  <2>1. change = "none" /\ change' = "none"
    BY <1>9 DEF DryRun, ChangeKnown
  <2> QED
    BY <1>9, <2>1 DEF DryRun, GoTo, FailAndEscalate, CountFailure, Escalate, Raise
<1>10. CASE Execute
  <2>1. bundle = NoAnswer
    BY <1>10 DEF Execute
  <2>2. CASE pc' = "verify"
    BY <1>10, <2>1, <2>2 DEF Execute, GoTo, FailAndEscalate, CountFailure, Escalate, Raise
  <2>3. CASE Raise
    BY <1>10, <2>1, <2>3 DEF Raise
  <2>4. CASE /\ Urgent /\ ctx' = [ctx EXCEPT !.result = "FAILED"]
             /\ FailAndEscalate("execute_failed")
    <3>1. /\ GateKnown /\ SafetyKnown /\ ctx.snapshot = "k8s"
      BY <1>10, <2>4 DEF Execute, Known, PastGate, PastSafety, PastSnapshot, SnapshotKnown
    <3>2. ctx.decide.items # << >>
      BY <3>1, PassedPlan DEF SafetyKnown
    <3>3. BundleOf(ctx') = Evidence /\ ctx'.result = "FAILED"
      BY <1>0, <2>4, <3>1, <3>2, FullBundle DEF GateKnown, SafetyKnown
    <3>4. failures' # << >>
      BY <2>4, FailureRecorded DEF FailAndEscalate, CountFailure, TypeOK
    <3> QED
      BY <2>4, <3>3, <3>4, NoAnswerConstant DEF FailAndEscalate, CountFailure, Escalate
  <2> QED
    BY <1>10, <2>2, <2>3, <2>4 DEF Execute, GoTo
<1>11. CASE Verify
  <2>1. bundle = NoAnswer /\ ctx.result = "COMPLETED" /\ ctx.result # NoAnswer /\ ctx' = ctx
    BY <1>11, NoAnswerConstant DEF Verify, Known
  <2>2. CASE verdict' \in {"DONE", "RETRY", "ROLLBACK"}
    BY <1>11, <2>1, <2>2 DEF Verify, GoTo, FailAndEscalate, CountFailure, Escalate, Conflict, Close, Raise
  <2>3. CASE Raise
    BY <1>11, <2>1, <2>3 DEF Raise
  <2>4. CASE Conflict
    BY <1>11, <2>1, <2>4 DEF Conflict, Close
  <2>5. ASSUME NEW r, FailAndEscalate(r) PROVE Told' /\ Reported' /\ Written'
    <3>1. CASE change = "none"
      BY <1>11, <2>1, <2>5, <3>1 DEF Verify, FailAndEscalate, CountFailure, Escalate
    <3>2. CASE change # "none"
      <4>1. GateKnown /\ SafetyKnown /\ ctx.snapshot = "k8s"
        BY <3>2 DEF ChangeKnown, SnapshotKnown
      <4>2. ctx.decide.items # << >>
        BY <4>1, PassedPlan DEF SafetyKnown
      <4>3. BundleOf(ctx') = Evidence
        BY <2>1, <4>1, <4>2, FullBundle DEF GateKnown, SafetyKnown
      <4>4. failures' # << >>
        BY <2>5, FailureRecorded DEF FailAndEscalate, CountFailure, TypeOK
      <4> QED
        BY <2>1, <2>5, <4>3, <4>4 DEF FailAndEscalate, CountFailure, Escalate
    <3> QED
      BY <3>1, <3>2
  <2> QED
    BY <1>11, <2>2, <2>3, <2>4, <2>5 DEF Verify
<1>12. CASE Rollback
  <2>1. bundle = NoAnswer /\ ctx.result # NoAnswer /\ ctx' = ctx
        /\ verdict' = "ROLLBACK"
    BY <1>12, NoAnswerConstant DEF Rollback, Known
  <2> QED
    BY <1>12, <2>1 DEF Rollback, Close, Raise
<1>13. CASE Flush
  BY <1>13 DEF Flush, NotCounted, Trail, BundleOf
<1>14. CASE Killed
  BY <1>14 DEF Killed, BundleOf
<1>15. CASE Return
  BY <1>15 DEF Return, Forget
<1>16. CASE Restart
  BY <1>16 DEF Restart, Forget
<1>17. CASE UNCHANGED vars
  BY <1>17 DEF vars, procVars, Trail, BundleOf
<1> QED
  BY <1>1, <1>2, <1>3, <1>4, <1>5, <1>6, <1>7, <1>8, <1>9, <1>10, <1>11, <1>12, <1>13, <1>14,
     <1>15, <1>16, <1>17 DEF Next, Handler

-----------------------------------------------------------------------------
(* While an incident is past the breaker, the breaker stays closed, and    *)
(* its last trip only gets older.                                          *)
LEMMA TripStep ==
    ASSUME TypeOK, TripKnown, [Next]_vars
    PROVE  TripKnown'
<1> USE DEF TripKnown
<1>0. /\ now \in Nat /\ CooldownS \in Nat \ {0}
      /\ openedAt \in Nat \cup {None} /\ trippedAt \in Nat \cup {None} /\ None = -1
  BY BreakerConstants DEF TypeOK, BreakerTypeOK, Times, None
<1>1. CASE Tick
  BY <1>0, <1>1 DEF Tick, procVars, histVars
<1>2. ASSUME NEW n \in Namespaces, Start(n) PROVE TripKnown'
  BY <1>2 DEF Start, NotCounted
\* A failure may trip the breaker, after which the incident is over.
<1>3. ASSUME NEW r, FailAndEscalate(r), now' = now PROVE TripKnown'
  BY <1>0, <1>3 DEF FailAndEscalate, CountFailure, RecordFailure, Escalate
<1>18. ASSUME CountFailure, Raise, now' = now PROVE TripKnown'
  BY <1>0, <1>18 DEF CountFailure, RecordFailure, Raise
<1>4. CASE Detect
  BY <1>3, <1>4 DEF Detect, GoTo, Conflict, Close, Raise, NotCounted
<1>5. CASE Gate
  BY <1>5 DEF Gate, GoTo, Escalate, Close, NotCounted
<1>6. CASE AskBreaker
  BY <1>0, <1>6 DEF AskBreaker, IsOpenFalse, IsOpenTrue, CooledDown, breakerVars, GoTo, Escalate
<1>7. CASE Decide
  BY <1>3, <1>7 DEF Decide, GoTo, Conflict, Close, Raise, NotCounted
<1>8. CASE CheckSafety
  BY <1>8 DEF CheckSafety, GoTo, Escalate, Raise, NotCounted
<1>9. CASE Snapshot
  BY <1>9 DEF Snapshot, GoTo, Raise, NotCounted
<1>10. CASE DryRun
  BY <1>3, <1>10 DEF DryRun, GoTo, Raise, NotCounted
<1>11. CASE Execute
  BY <1>3, <1>11 DEF Execute, GoTo, Raise, NotCounted
<1>12. CASE Verify
  BY <1>3, <1>12, <1>18 DEF Verify, RecordSuccess, GoTo, Conflict, Close, Raise, NotCounted
<1>13. CASE Rollback
  BY <1>13 DEF Rollback, Close, Raise, NotCounted
<1>14. CASE Flush \/ Killed
  BY <1>14 DEF Flush, Killed, NotCounted
<1>15. CASE Return
  BY <1>15 DEF Return, Forget
<1>16. CASE Restart
  BY <1>0, <1>16 DEF Restart, Forget
<1>17. CASE UNCHANGED vars
  BY <1>17 DEF vars, procVars, histVars
<1> QED
  BY <1>1, <1>2, <1>4, <1>5, <1>6, <1>7, <1>8, <1>9, <1>10, <1>11, <1>12, <1>13, <1>14,
     <1>15, <1>16, <1>17 DEF Next, Handler

-----------------------------------------------------------------------------
(* Recording a hit drops from the deque only what has left the window.     *)
LEMMA HitKeepsRecent ==
    ASSUME TypeOK, DroppedAreOld, NEW s \in ServiceKeys
    PROVE  LET f == Append(seen[s], now)
               g == Recorded(s)
               dropped == Len(f) - Len(g)
           IN  /\ Len(f) \in Nat /\ Len(g) \in Nat /\ dropped >= 0
               /\ \A j \in 1 .. Len(g) : g[j] = f[dropped + j]
               /\ \A j \in 1 .. dropped : f[j] < now - FlapWindowS
<1> DEFINE h == hits[s]
           e == seen[s]
           f == Append(e, now)
           g == Recorded(s)
           old == Len(e) - Len(h)
<1>1. now \in Times /\ h \in Seq(Times) /\ e \in Seq(Times) /\ FlapWindowS \in Nat
  BY GateConstants DEF TypeOK, BreakerTypeOK, FlapTypeOK
<1>2. Len(h) \in Nat /\ Len(e) \in Nat /\ old >= 0
  BY <1>1, LenProperties DEF DroppedAreOld
<1>3. /\ \A j \in 1 .. Len(h) : h[j] = e[old + j]
      /\ \A j \in 1 .. old : e[j] < now - FlapWindowS
  BY DEF DroppedAreOld
<1>4. /\ Len(f) = Len(e) + 1 /\ f[Len(e) + 1] = now
      /\ \A j \in 1 .. Len(e) : f[j] = e[j]
  BY <1>1, <1>2, AppendProperties DEF Times
<1>5. /\ Append(h, now)[Len(h) + 1] = now
      /\ \A j \in 1 .. Len(h) : Append(h, now)[j] = h[j]
  BY <1>1, <1>2, AppendProperties DEF Times
<1>6. PICK i \in 1 .. (Len(h) + 1) :
          /\ Len(g) = Len(h) + 2 - i
          /\ \A k \in 1 .. Len(g) : g[k] = Append(h, now)[i + k - 1]
          /\ \A j \in 1 .. (i - 1) : h[j] < now - FlapWindowS
  BY <1>1, RecordingProperties DEF Recorded
<1> HIDE DEF f, g, h, e
<1>7. Len(f) - Len(g) = old + i - 1
  BY <1>2, <1>4, <1>6
<1>8. ASSUME NEW j \in 1 .. Len(g) PROVE g[j] = f[Len(f) - Len(g) + j]
  <2>0. i \in Nat /\ i >= 1 /\ j \in Nat /\ j >= 1 /\ i + j - 1 <= Len(h) + 1
    BY <1>2, <1>6
  <2>1. CASE i + j - 1 = Len(h) + 1
    BY <1>2, <1>4, <1>5, <1>6, <1>7, <2>1
  <2>2. CASE i + j - 1 \in 1 .. Len(h)
    <3>1. g[j] = h[i + j - 1]
      BY <1>5, <1>6, <2>2
    <3>2. h[i + j - 1] = e[old + (i + j - 1)]
      BY <1>3, <2>2
    <3>3. old + (i + j - 1) \in 1 .. Len(e)
      BY <1>2, <1>6, <2>2
    <3>4. Len(f) - Len(g) + j = old + (i + j - 1)
      BY <1>2, <1>7, <2>0
    <3>5. f[old + (i + j - 1)] = e[old + (i + j - 1)]
      BY <1>4, <3>3
    <3> QED
      BY <3>1, <3>2, <3>4, <3>5
  <2> QED
    BY <1>2, <2>0, <2>1, <2>2
<1>9. ASSUME NEW j \in 1 .. (Len(f) - Len(g)) PROVE f[j] < now - FlapWindowS
  <2>1. j \in 1 .. Len(e)
    BY <1>2, <1>6, <1>7
  <2>2. CASE j \in 1 .. old
    BY <1>3, <1>4, <2>1, <2>2
  <2>3. CASE j - old \in 1 .. (i - 1)
    <3>1. j - old \in 1 .. Len(h)
      BY <1>2, <1>6, <2>3
    <3>2. h[j - old] = e[old + (j - old)] /\ h[j - old] < now - FlapWindowS
      BY <1>3, <1>6, <2>3, <3>1
    <3>3. old + (j - old) = j
      BY <1>2, <1>6
    <3> QED
      BY <1>4, <2>1, <3>2, <3>3
  <2>4. i \in Nat /\ j \in Nat /\ j >= 1 /\ j <= old + i - 1
    BY <1>2, <1>6, <1>7
  <2> QED
    BY <1>2, <2>2, <2>3, <2>4
<1>10. Len(f) \in Nat /\ Len(g) \in Nat /\ Len(f) - Len(g) >= 0
  BY <1>2, <1>4, <1>6, <1>7
<1> QED
  BY <1>8, <1>9, <1>10, Zenon DEF f, g, e

(* The deque holds no less than the window, whatever was dropped from it.  *)
LEMMA WindowIsHeld ==
    ASSUME TypeOK, DroppedAreOld, NEW s \in ServiceKeys
    PROVE  LET f == Append(seen[s], now)
           IN  Cardinality({i \in DOMAIN f : f[i] >= now - FlapWindowS}) <= Len(Recorded(s))
<1> DEFINE f == Append(seen[s], now)
           g == Recorded(s)
           dropped == Len(f) - Len(g)
           recent == {i \in DOMAIN f : f[i] >= now - FlapWindowS}
<1>1. /\ Len(f) \in Nat /\ Len(g) \in Nat /\ dropped \in Nat
      /\ \A j \in 1 .. dropped : f[j] < now - FlapWindowS
  BY HitKeepsRecent
<1>2. f \in Seq(Times) /\ DOMAIN f = 1 .. Len(f)
  BY HitRecorded, LenProperties
<1>3. \A j \in 1 .. Len(f) : f[j] \in Nat
  BY <1>2, ElementOfSeq DEF Times
<1>4. now - FlapWindowS \in Int
  BY GateConstants DEF TypeOK, BreakerTypeOK, Times
<1> HIDE DEF f, g
<1>5. ASSUME NEW j \in recent PROVE j \in (dropped + 1) .. Len(f)
  <2>1. j \in 1 .. Len(f) /\ f[j] >= now - FlapWindowS
    BY <1>2
  <2>2. ~(j \in 1 .. dropped)
    BY <1>1, <1>3, <1>4, <2>1
  <2> QED
    BY <1>1, <2>1, <2>2
<1>6. IsFiniteSet((dropped + 1) .. Len(f)) /\ Cardinality((dropped + 1) .. Len(f)) = Len(g)
  <2>1. dropped + 1 \in Int /\ Len(f) \in Int
    BY <1>1
  <2>2. /\ IsFiniteSet((dropped + 1) .. Len(f))
        /\ Cardinality((dropped + 1) .. Len(f)) =
             IF dropped + 1 > Len(f) THEN 0 ELSE Len(f) - (dropped + 1) + 1
    <3> HIDE DEF dropped
    <3> QED
      BY <2>1, FS_Interval
  <2> QED
    BY <1>1, <2>2
<1>7. Cardinality(recent) <= Len(g)
  <2>1. recent \subseteq (dropped + 1) .. Len(f)
    BY <1>5
  <2> HIDE DEF recent
  <2> QED
    BY <1>6, <2>1, FS_Subset
<1> QED
  BY <1>7 DEF f, g

(* The flap check counts every confident detection of the window.          *)
LEMMA FlapStep ==
    ASSUME TypeOK, Known, ChangeKnown, DroppedAreOld, FlapKnown, [Next]_vars
    PROVE  DroppedAreOld' /\ FlapKnown'
<1>1. CASE /\ NotSeen /\ now' = now
           /\ pc' \in PastGate \/ change' # "none" => pc \in PastGate \/ change # "none"
  BY <1>1 DEF NotSeen, DroppedAreOld, FlapKnown
<1>2. CASE Tick
  <2>1. /\ now \in Nat /\ now' = now + 1 /\ FlapWindowS \in Nat
        /\ hits' = hits /\ seen' = seen
    BY <1>2, GateConstants DEF Tick, procVars, histVars, TypeOK, BreakerTypeOK, Times
  <2>2. DroppedAreOld'
    <3> SUFFICES ASSUME NEW s \in ServiceKeys,
                        NEW j \in 1 .. (Len(seen[s]) - Len(hits[s]))
                 PROVE  seen[s][j] < now' - FlapWindowS
      BY <2>1 DEF DroppedAreOld
    <3>1. seen[s][j] < now - FlapWindowS
      BY DEF DroppedAreOld
    <3>2. seen[s] \in Seq(Times) /\ hits[s] \in Seq(Times)
      BY DEF TypeOK, FlapTypeOK
    <3>3. Len(hits[s]) \in Nat /\ Len(seen[s]) \in Nat
      BY <3>2, LenProperties
    <3>4. j \in 1 .. Len(seen[s])
      BY <3>3
    <3>5. seen[s][j] \in Nat
      BY <3>2, <3>4, ElementOfSeq DEF Times
    <3> QED
      BY <2>1, <3>1, <3>5
  <2> QED
    BY <1>2, <2>2 DEF Tick, histVars, FlapKnown
<1>3. CASE Gate
  <2> DEFINE d == ctx.detect
  <2>1. d \in Detections /\ d.service \in ServiceKeys /\ change = "none"
    BY <1>3, IncidentConstants DEF Gate, Known, ChangeKnown, Closing, Detections
  <2>2. CASE Tracked(d)
    <3>1. /\ hits' = [hits EXCEPT ![d.service] = Recorded(d.service)]
          /\ seen' = [seen EXCEPT ![d.service] = Append(seen[d.service], now)]
          /\ now' = now
      BY <1>3, <2>2 DEF Gate, RecordHit
    <3>2. /\ hits'[d.service] = Recorded(d.service)
          /\ seen'[d.service] = Append(seen[d.service], now)
          /\ \A s \in ServiceKeys \ {d.service} : hits'[s] = hits[s] /\ seen'[s] = seen[s]
      BY <2>1, <3>1 DEF TypeOK, FlapTypeOK
    <3>3. DroppedAreOld'
      <4> SUFFICES ASSUME NEW s \in ServiceKeys
                   PROVE  LET dropped == Len(seen'[s]) - Len(hits'[s]) IN
                          /\ dropped >= 0
                          /\ \A j \in 1 .. Len(hits'[s]) : hits'[s][j] = seen'[s][dropped + j]
                          /\ \A j \in 1 .. dropped : seen'[s][j] < now - FlapWindowS
        BY <3>1 DEF DroppedAreOld
      <4>1. CASE s = d.service
        BY <2>1, <3>2, <4>1, HitKeepsRecent
      <4>2. CASE s # d.service
        BY <3>2, <4>2 DEF DroppedAreOld
      <4> QED
        BY <4>1, <4>2
    <3>4. CASE pc' = "breaker"
      <4>1. ~(Len(Recorded(d.service)) >= FlapThreshold)
        BY <1>3, <2>1, <3>4, ProceedIsTracked DEF Gate, GoTo, Escalate, Close
      <4>2. flaps' <= Len(Recorded(d.service)) /\ flaps' \in Nat
        <5>1. Append(seen[d.service], now) \in Seq(Times)
          BY <2>1, HitRecorded
        <5>2. flaps' = Cardinality({i \in DOMAIN seen'[d.service] :
                                      seen'[d.service][i] >= now - FlapWindowS})
          BY <1>3 DEF Gate
        <5> QED
          BY <2>1, <3>2, <5>1, <5>2, WindowIsHeld, CountedIsNat
      <4>3. Recorded(d.service) \in Seq(Times)
        BY <2>1, HitRecorded
      <4>4. Len(Recorded(d.service)) \in Nat /\ FlapThreshold \in Nat
        BY <4>3, LenProperties, GateConstants
      <4> QED
        BY <3>3, <4>1, <4>2, <4>4 DEF FlapKnown
    <3>5. CASE pc' = "flush"
      BY <1>3, <2>1, <3>3, <3>5 DEF Gate, FlapKnown, PastGate
    <3> QED
      BY <1>3, <3>4, <3>5 DEF Gate, GoTo, Escalate, Close
  <2>3. CASE ~Tracked(d)
    <3>1. hits' = hits /\ seen' = seen /\ now' = now
      BY <1>3, <2>3 DEF Gate, RecordHit
    <3>2. pc' = "flush" /\ change' = "none"
      BY <1>3, <2>1, <2>3, ProceedIsTracked DEF Gate, GoTo, Escalate, Close
    <3> QED
      BY <3>1, <3>2 DEF DroppedAreOld, FlapKnown, PastGate
  <2> QED
    BY <2>2, <2>3
<1>4. CASE Return
  BY <1>4 DEF Return, Forget, DroppedAreOld, FlapKnown, PastGate
<1>5. CASE Restart
  <2>1. Len(<< >>) = 0
    BY EmptySeq
  <2>2. \A s \in ServiceKeys : hits'[s] = << >> /\ seen'[s] = << >>
    BY <1>5 DEF Restart
  <2>3. DroppedAreOld'
    <3> SUFFICES ASSUME NEW s \in ServiceKeys
                 PROVE  LET dropped == Len(seen'[s]) - Len(hits'[s]) IN
                        /\ dropped >= 0
                        /\ \A j \in 1 .. Len(hits'[s]) : hits'[s][j] = seen'[s][dropped + j]
                        /\ \A j \in 1 .. dropped : seen'[s][j] < now' - FlapWindowS
      BY DEF DroppedAreOld
    <3>1. Len(hits'[s]) = 0 /\ Len(seen'[s]) = 0
      BY <2>1, <2>2
    <3> QED
      BY <3>1
  <2> QED
    BY <1>5, <2>3 DEF Restart, Forget, FlapKnown, PastGate
<1>6. CASE UNCHANGED vars
  BY <1>6 DEF vars, procVars, histVars, DroppedAreOld, FlapKnown
<1>7. ASSUME NEW n \in Namespaces, Start(n) PROVE DroppedAreOld' /\ FlapKnown'
  BY <1>1, <1>7 DEF Start, PastGate
<1>8. CASE Detect
  BY <1>1, <1>8 DEF Detect, GoTo, FailAndEscalate, CountFailure, Escalate, Conflict, Close, Raise, PastGate
<1>9. CASE AskBreaker \/ Decide \/ CheckSafety \/ Snapshot \/ DryRun \/ Execute \/ Verify \/ Rollback
  BY <1>1, <1>9 DEF AskBreaker, Decide, CheckSafety, Snapshot, DryRun, Execute, Verify, Rollback,
     PastGate
<1>10. CASE Flush \/ Killed
  BY <1>1, <1>10 DEF Flush, Killed, PastGate
<1> QED
  BY <1>2, <1>3, <1>4, <1>5, <1>6, <1>7, <1>8, <1>9, <1>10 DEF Next, Handler

-----------------------------------------------------------------------------
IInv ==
    /\ TypeOK
    /\ Known /\ ChangeKnown
    /\ Told /\ Reported /\ Written
    /\ TripKnown
    /\ DroppedAreOld /\ FlapKnown

(* Init establishes the invariant.                                         *)
LEMMA InitInv == Init => IInv
<1> SUFFICES ASSUME Init PROVE IInv
  OBVIOUS
<1>1. TypeOK
  <2>0. << >> \in Seq(Times) /\ 1 \in Times /\ 0 \in Nat
    BY EmptySeq DEF Times
  <2>1. MemoryTyped
    BY <2>0 DEF Init, BreakerInit, FlapInit, MemoryTyped, BreakerTypeOK, FlapTypeOK
  <2>2. CallTyped
    BY DEF Init, CallTyped, EmptyCtx, Answered
  <2>3. TracesTyped
    BY IncidentConstants DEF Init, TracesTyped, Answered
  <2> QED
    BY <2>1, <2>2, <2>3, TypeParts
<1>2. Known /\ ChangeKnown /\ Told /\ Reported /\ Written
  BY DEF Init, Known, ChangeKnown, Told, Reported, Written, PastGate, PastSafety, PastSnapshot,
     Closing, Flushed
<1>3. TripKnown /\ FlapKnown
  BY DEF Init, BreakerInit, TripKnown, FlapKnown, PastGate
<1>4. DroppedAreOld
  <2>1. Len(<< >>) = 0
    BY EmptySeq
  <2>2. \A s \in ServiceKeys : hits[s] = << >> /\ seen[s] = << >>
    BY DEF Init, FlapInit
  <2> SUFFICES ASSUME NEW s \in ServiceKeys
               PROVE  LET dropped == Len(seen[s]) - Len(hits[s]) IN
                      /\ dropped >= 0
                      /\ \A j \in 1 .. Len(hits[s]) : hits[s][j] = seen[s][dropped + j]
                      /\ \A j \in 1 .. dropped : seen[s][j] < now - FlapWindowS
    BY DEF DroppedAreOld
  <2>3. Len(hits[s]) = 0 /\ Len(seen[s]) = 0
    BY <2>1, <2>2
  <2> QED
    BY <2>3
<1> QED
  BY <1>1, <1>2, <1>3, <1>4 DEF IInv

(* Every step keeps it.                                                    *)
LEMMA StepInv == IInv /\ [Next]_vars => IInv'
BY TypeStep, KnownStep, ReportStep, TripStep, FlapStep DEF IInv

(* IInv is an invariant of the handler.                                    *)
THEOREM Invariance == Spec => []IInv
BY InitInv, StepInv, PTL DEF Spec

(* The handler's context and what it keeps have their types.               *)
THEOREM TypeCorrect == Spec => []TypeOK
<1>1. IInv => TypeOK
  BY DEF IInv
<1> QED
  BY <1>1, Invariance, PTL

(* The cluster is only ever changed for a confident anomaly, by an urgent  *)
(* action inside the caps, on the incident's own namespace, with a         *)
(* snapshot taken: whatever plan of however many steps the AI engine sends. *)
THEOREM ChangesAreSafe == Spec => []ChangeIsSafe
<1>1. IInv => ChangeIsSafe
  <2> SUFFICES ASSUME IInv, change # "none" PROVE ChangeIsSafe
    BY DEF ChangeIsSafe
  <2>1. GateKnown /\ SafetyKnown /\ SnapshotKnown /\ Urgent
    BY DEF IInv, ChangeKnown
  <2>2. /\ Urgent => Item.action \in UrgentActions
        /\ Item.namespace = ctx.ns
        /\ Item.action = "PATCH_MEMORY_LIMIT" => Item.memory <= MaxMemory
    BY <2>1, PassedPlan DEF SafetyKnown, Item, Urgent
  <2> QED
    BY <2>1, <2>2 DEF ChangeIsSafe, GateKnown, SnapshotKnown, Tracked
<1> QED
  BY <1>1, Invariance, PTL

(* No incident changes the cluster for a service that was confidently      *)
(* detected FlapThreshold times in the window, although the tracker's      *)
(* deque only remembers what it has not dropped.                           *)
THEOREM FlappingIsLeftAlone == Spec => []FlappingIsNotHealed
<1>1. IInv => FlappingIsNotHealed
  BY DEF IInv, FlapKnown, FlappingIsNotHealed
<1> QED
  BY <1>1, Invariance, PTL

(* A call that returns has written what it changed, and whom it told.      *)
THEOREM ReturnsAreRecorded == Spec => []UnrecordedChangeKillsProcess
<1>1. IInv => UnrecordedChangeKillsProcess
  <2> SUFFICES ASSUME IInv, pc = "returned" PROVE UnrecordedChangeKillsProcess
    BY DEF UnrecordedChangeKillsProcess
  <2>1. stored = Trail /\ Trail \in SUBSET (Evidence \cup {"escalated"})
    BY DEF IInv, Written, Trail
  <2>2. stored # NoAnswer
    BY <2>1, NoAnswerConstant
  <2>3. change # "none" => {"detect", "decide", "snapshot", "result"} \subseteq stored
    <3> SUFFICES ASSUME change # "none" PROVE {"detect", "decide", "snapshot", "result"} \subseteq stored
      OBVIOUS
    <3>1. ctx.detect # NoAnswer /\ ctx.decide # NoAnswer
      BY IncidentConstants DEF IInv, ChangeKnown, GateKnown, SafetyKnown
    <3>2. ctx.snapshot # NoAnswer
      BY NoAnswerConstant DEF IInv, ChangeKnown, SnapshotKnown
    <3>3. ctx.result # NoAnswer
      BY DEF IInv, Reported, Flushed
    <3> QED
      BY <2>1, <3>1, <3>2, <3>3 DEF Trail, Evidence
  <2>4. bundle # NoAnswer => bundle \cup {"escalated"} \subseteq stored
    BY <2>1 DEF IInv, Told, BundleOf, Trail
  <2> QED
    BY <2>2, <2>3, <2>4 DEF UnrecordedChangeKillsProcess
<1> QED
  BY <1>1, Invariance, PTL

(* Whoever finds an unconfirmed change in place has been told of it, with  *)
(* everything that is needed to undo it.                                   *)
THEOREM UnconfirmedChangesAreEscalated == Spec => []UnconfirmedChangeIsEscalated
<1>1. IInv => UnconfirmedChangeIsEscalated
  BY DEF IInv, Reported, Flushed, UnconfirmedChangeIsEscalated, ChangeUnconfirmed
<1> QED
  BY <1>1, Invariance, PTL

(* The breaker is asked long before the plan is executed; no trip can come *)
(* in between.                                                             *)
THEOREM NoChangeDuringTrip == Spec => NoChangeWhileTripped
<1> DEFINE Guarded == change = "none" /\ change' = "applied"
                        => trippedAt = None \/ now - trippedAt >= CooldownS
<1>1. IInv /\ [Next]_vars => [Guarded]_vars
  <2> SUFFICES ASSUME IInv, [Next]_vars, change = "none", change' = "applied"
               PROVE  trippedAt = None \/ now - trippedAt >= CooldownS
    OBVIOUS
  <2>1. pc \in {"execute", "rollback"}
    BY DEF Next, Handler, vars, Tick, Start, Detect, Gate, AskBreaker, Decide, CheckSafety,
       Snapshot, DryRun, Execute, Verify, Rollback, Flush, Killed, Return, Restart, Forget
  <2>2. openedAt = None
    BY <2>1 DEF IInv, TripKnown
  <2> QED
    BY <2>2 DEF IInv, TripKnown
<1> QED
  BY <1>1, Invariance, PTL DEF Spec, NoChangeWhileTripped

-----------------------------------------------------------------------------
(* Every step of the handler is a step of its contract, or none.           *)
LEMMA ContractStep ==
    ASSUME IInv, [Next]_vars
    PROVE  [Contract!Next]_(Contract!vars)
<1> USE DEF Contract!Next, Contract!vars
\* A call under way goes on, and may escalate.
<1>1. CASE /\ pc \in Calls /\ pc' \in Calls /\ change' = change
           /\ bundle' = bundle \/ (bundle = NoAnswer /\ bundle' # NoAnswer)
  BY <1>1 DEF Contract!Escalate, Calls
<1>2. CASE Tick \/ UNCHANGED vars
  BY <1>2 DEF Tick, vars
<1>3. ASSUME NEW n \in Namespaces, Start(n) PROVE [Contract!Next]_(Contract!vars)
  BY <1>3 DEF Start, Contract!Begin
<1>4. Turns /\ pc \in Calls \ {"flush"}
        => \/ bundle' = bundle
           \/ bundle = NoAnswer /\ bundle' # NoAnswer
  BY BundleIsAnswer DEF Turns, IInv, Told, Closing, Calls
<1>5. CASE Detect \/ Gate \/ AskBreaker \/ Decide \/ CheckSafety \/ Snapshot \/ DryRun \/ Verify
  <2>1. Turns /\ pc \in Calls \ {"flush"} /\ change' = change
    BY <1>5, Ways DEF IInv, Detect, Gate, AskBreaker, Decide, CheckSafety, Snapshot, DryRun,
       Verify, Conflict, Calls
  <2> QED
    BY <1>1, <1>4, <2>1 DEF Turns
<1>6. CASE Execute
  <2>1. Turns /\ pc = "execute" /\ change = "none" /\ bundle = NoAnswer
    BY <1>6, Ways DEF IInv, Execute, Told, ChangeKnown, Closing, Calls
  <2>2. CASE change' = "none"
    BY <1>1, <1>4, <2>1, <2>2 DEF Turns, Calls
  <2>3. CASE change' = "applied"
    BY <2>1, <2>3 DEF Turns, Calls, Contract!Apply
  <2> QED
    BY <1>6, <2>2, <2>3 DEF Execute
<1>7. CASE Rollback
  <2>1. /\ pc = "rollback" /\ pc' = "flush" /\ bundle = NoAnswer /\ bundle' = NoAnswer
        /\ change' = change \/ (change = "applied" /\ change' = "undone")
    BY <1>7 DEF IInv, Known, Told, Closing, Rollback, Close, Raise
  <2> QED
    BY <2>1 DEF Contract!Undo
<1>8. CASE Flush \/ Killed
  BY <1>8 DEF Flush, Killed, Calls, Contract!Finish
<1>9. CASE Return \/ Restart
  BY <1>9 DEF Return, Restart, Forget, Contract!Forget
<1> QED
  BY <1>2, <1>3, <1>5, <1>6, <1>7, <1>8, <1>9 DEF Next, Handler

(* handle_incident implements the contract watch_loop and the scenario     *)
(* runner rely on: one change at most, undone at most once, none after an  *)
(* escalation, and a return or the end of the process.                     *)
THEOREM KeepsContract == Spec => ContractKept
<1>1. Init => Contract!Init
  BY DEF Init, Contract!Init
<1>2. IInv /\ [Next]_vars => [Contract!Next]_(Contract!vars)
  BY ContractStep
<1> QED
  BY <1>1, <1>2, Invariance, PTL DEF Spec, ContractKept, Contract!Spec
=============================================================================
