------------------------------ MODULE Incident -------------------------------
(***************************************************************************)
(* Executor.handle_incident (executor/main.py) with the gates, the breaker, *)
(* the action executors, the escalation and the audit flush it calls: one  *)
(* incident after the other in one process, which an uncaught exception    *)
(* kills and the cluster restarts with empty memory.                       *)
(*                                                                         *)
(* pc names the call the handler makes next.  The AI engine, the cluster,  *)
(* the lock table and the audit store are the environment: each of their   *)
(* calls may answer as its contract allows, or raise.  "Raises" stands for *)
(* every exception handle_incident does not catch: a missing key in a      *)
(* schema, an ApiException of a read, a ClientError of DynamoDB or S3.     *)
(***************************************************************************)
EXTENDS PreDecideGate, SafetyGate, FiniteSets

CONSTANTS
    Namespaces,    \* the namespaces incidents come from
    DetectAnswers, \* detect answers the AI engine may give
    Plans,         \* decide answers the AI engine may give
    NoAnswer,      \* None: what the handler does not have yet
    MaxTime,       \* bound on the clock
    MaxIncidents   \* bound on the incidents handled

ASSUME IncidentConstants ==
    /\ DetectAnswers \subseteq Detections
    /\ NoAnswer \notin DetectAnswers /\ NoAnswer \notin Plans
    /\ MinReplicas \in Nat /\ MaxReplicas \in Nat /\ MaxMemory \in Nat
    /\ MaxTime \in Nat /\ MaxIncidents \in Nat

\* action_plan is a list, and what the contract says is a number is one
\* (models.py takes it as it comes).
ASSUME PlanConstants ==
    \A p \in Plans :
        /\ p.items \in Seq({p.items[i] : i \in DOMAIN p.items})
        /\ p.window \in Int /\ p.impact \in Int
        /\ \A i \in DOMAIN p.items :
              p.items[i].replicas \in Int /\ p.items[i].memory \in Int

VARIABLES
    pc,         \* the next call of the handler, or where the process is
    ctx,        \* IncidentContext: ns, detect, decide, snapshot, result
    verdict,    \* next_action of /v1/verify, NoAnswer before it answers
    outcome,    \* the string handle_incident is about to return
    bundle,     \* evidence in the escalation bundle, NoAnswer if none was sent
    raised,     \* an exception is on its way out of handle_incident
    change,     \* what the incident's action did to the cluster
    stored,     \* the record of the incident in the audit bucket, if there is one
    handled,    \* number of incidents started
    trippedAt,  \* history: the last trip of the breaker in this process
    seen,       \* history: confident detections of each service, none dropped
    flaps       \* history: how many of them were in the window at this one

procVars == <<failures, openedAt, hits>>
histVars == <<trippedAt, seen, flaps>>
vars == <<now, procVars, pc, ctx, verdict, outcome, bundle, raised, change,
          stored, handled, histVars>>

EmptyCtx == [ns |-> NoAnswer, detect |-> NoAnswer, decide |-> NoAnswer,
             snapshot |-> NoAnswer, result |-> NoAnswer]

Calls == {"detect", "gate", "breaker", "decide", "safety", "snapshot", "dry_run",
          "execute", "verify", "rollback", "flush"}

Answered(S) == S \cup {NoAnswer}

Evidence == {"detect", "decide", "snapshot", "result"}

\* None is none of the values it stands in for.
ASSUME NoAnswerConstant ==
    /\ NoAnswer \notin {"k8s", "git", "COMPLETED", "FAILED"}
    /\ NoAnswer \notin {"DONE", "RETRY", "ROLLBACK", "ESCALATE"}
    /\ \A S \in SUBSET (Evidence \cup {"escalated"}) : NoAnswer # S

TypeOK ==
    /\ BreakerTypeOK
    /\ FlapTypeOK
    /\ pc \in Calls \cup {"idle", "returned", "crashed"}
    /\ ctx \in [ns : Answered(Namespaces), detect : Answered(DetectAnswers),
                decide : Answered(Plans), snapshot : Answered({"k8s", "git"}),
                result : Answered({"COMPLETED", "FAILED"})]
    /\ verdict \in Answered({"DONE", "RETRY", "ROLLBACK", "ESCALATE"})
    /\ bundle \in Answered(SUBSET Evidence)
    /\ raised \in BOOLEAN
    /\ change \in {"none", "applied", "undone"}
    /\ stored \in Answered(SUBSET (Evidence \cup {"escalated"}))
    /\ handled \in 0 .. MaxIncidents
    /\ trippedAt \in Times \cup {None}
    /\ seen \in [ServiceKeys -> Seq(Times)]
    /\ flaps \in Nat

Init ==
    /\ now = 1
    /\ BreakerInit
    /\ FlapInit
    /\ pc = "idle"
    /\ ctx = EmptyCtx
    /\ verdict = NoAnswer
    /\ outcome = "none"
    /\ bundle = NoAnswer
    /\ raised = FALSE
    /\ change = "none"
    /\ stored = NoAnswer
    /\ handled = 0
    /\ trippedAt = None
    /\ seen = [s \in ServiceKeys |-> << >>]
    /\ flaps = 0

-----------------------------------------------------------------------------
(* How a step of the handler goes on.                                      *)

Item == ctx.decide.items[1]
Urgent == ctx.decide.pattern = "urgent"

\* assemble_bundle: what the logs and metrics of the bundle can show.
BundleOf(c) ==
    {e \in Evidence : /\ c[e] # NoAnswer
                      /\ e = "decide" => c.decide.items # << >>}

\* _escalate: every escalation assembles its bundle from the context.
Escalate(reason) ==
    /\ outcome' = reason
    /\ bundle' = BundleOf(ctx')
    /\ pc' = "flush"
    /\ UNCHANGED raised

\* Close the incident without telling a human.
Close(reason) ==
    /\ outcome' = reason
    /\ pc' = "flush"
    /\ UNCHANGED <<bundle, raised>>

\* except AIConflict: an answer 409, whichever of the three endpoints gave it.
\* (WORK_RULE.md:208 expects it of /v1/decide only; the code does not.)
Conflict == Close("idempotency_duplicate_denied")

\* An exception nobody catches: only the finally clause is left to run.
Raise ==
    /\ raised' = TRUE
    /\ pc' = "flush"
    /\ UNCHANGED <<outcome, bundle>>

GoTo(call) ==
    /\ pc' = call
    /\ UNCHANGED <<outcome, bundle, raised>>

\* breaker.record_failure(), which may trip it.
CountFailure ==
    /\ RecordFailure
    /\ trippedAt' = IF openedAt' # openedAt THEN now ELSE trippedAt

\* Mutant of FailAndEscalate: the failure is counted and nobody is told.
FailAndClose(reason) == CountFailure /\ Close(reason)

\* A failure that is counted, and the escalation that follows it.
FailAndEscalate(reason) == CountFailure /\ Escalate(reason)

NotCounted == UNCHANGED <<failures, openedAt, trippedAt>>
NotSeen == UNCHANGED <<hits, seen, flaps>>

-----------------------------------------------------------------------------
Tick ==
    /\ now < MaxTime
    /\ now' = now + 1
    /\ UNCHANGED <<procVars, pc, ctx, verdict, outcome, bundle, raised, change,
                   stored, handled, histVars>>

Start(n) ==
    /\ pc = "idle"
    /\ handled < MaxIncidents
    /\ handled' = handled + 1
    /\ pc' = "detect"
    /\ ctx' = [EmptyCtx EXCEPT !.ns = n]
    /\ UNCHANGED <<now, verdict, outcome, bundle, raised, change, stored>>
    /\ NotCounted /\ NotSeen

\* [1] ai.detect answers, fails with an AIError, or raises on its schema.
Detect ==
    /\ pc = "detect"
    /\ \/ /\ \E d \in DetectAnswers : ctx' = [ctx EXCEPT !.detect = d]
          /\ GoTo("gate")
          /\ NotCounted
       \/ UNCHANGED ctx /\ FailAndEscalate("ai_error")
       \/ Conflict /\ NotCounted /\ UNCHANGED ctx
       \/ Raise /\ NotCounted /\ UNCHANGED ctx
    /\ UNCHANGED <<now, verdict, change, stored, handled>> /\ NotSeen

\* [1.5] evaluate(detect, flap)
Gate ==
    /\ pc = "gate"
    /\ UNCHANGED ctx
    /\ LET d == ctx.detect
           decision == GateDecision(d)
       IN  /\ RecordHit(d)
           /\ seen' = IF Tracked(d)
                        THEN [seen EXCEPT ![d.service] = Append(@, now)] ELSE seen
           /\ flaps' = Cardinality({i \in DOMAIN seen'[d.service] :
                                      seen'[d.service][i] >= now - FlapWindowS})
           /\ \/ decision = "proceed_to_decide" /\ GoTo("breaker")
              \/ decision \in EscalatingDecisions /\ Escalate(decision)
              \/ /\ decision \notin EscalatingDecisions \cup {"proceed_to_decide"}
                 /\ Close(decision)
    /\ UNCHANGED <<now, verdict, change, stored, handled>> /\ NotCounted

\* Mutant of AskBreaker: the breaker is not asked.
AskNobody ==
    /\ pc = "breaker"
    /\ GoTo("decide")
    /\ UNCHANGED <<ctx, now, verdict, change, stored, handled>> /\ NotCounted /\ NotSeen

\* [1.6] breaker.is_open()
AskBreaker ==
    /\ pc = "breaker"
    /\ UNCHANGED ctx
    /\ \/ IsOpenFalse /\ GoTo("decide")
       \/ IsOpenTrue /\ Escalate("circuit_breaker_open")
    /\ UNCHANGED <<now, verdict, change, stored, handled, trippedAt>> /\ NotSeen

\* [2] locks.acquire(new_uuid()) and ai.decide.  A fresh key is never taken,
\* so the lock denies nobody.  A detection without context has no anomaly_context to send.
Decide ==
    /\ pc = "decide"
    /\ \/ /\ ctx.detect.service # NoContext
          /\ \E p \in Plans : ctx' = [ctx EXCEPT !.decide = p]
          /\ GoTo("safety")
          /\ NotCounted
       \/ /\ ctx.detect.service # NoContext
          /\ UNCHANGED ctx
          /\ \/ Conflict /\ NotCounted
             \/ FailAndEscalate("ai_error")
       \/ Raise /\ UNCHANGED ctx /\ NotCounted
    /\ UNCHANGED <<now, verdict, change, stored, handled>> /\ NotSeen

\* [3] safety_check(decide, tenant, namespace)
CheckSafety ==
    /\ pc = "safety"
    /\ UNCHANGED ctx
    /\ LET v == SafetyVerdict(ctx.decide, ctx.ns)
       IN  \/ v = Passed /\ GoTo("snapshot")
           \/ v = Raises /\ Raise
           \/ v \notin {Passed, Raises} /\ Escalate(v)
    /\ UNCHANGED <<now, verdict, change, stored, handled>> /\ NotCounted /\ NotSeen

\* [4] S.capture: an urgent plan reads the deployment, which may not be there.
Snapshot ==
    /\ pc = "snapshot"
    /\ \/ /\ ctx' = [ctx EXCEPT !.snapshot = IF Urgent THEN "k8s" ELSE "git"]
          /\ GoTo(IF Urgent THEN "dry_run" ELSE "execute")
       \/ Urgent /\ Raise /\ UNCHANGED ctx
    /\ UNCHANGED <<now, verdict, change, stored, handled>> /\ NotCounted /\ NotSeen

\* Mutant of DryRun: a failed dry run is escalated, and then executed.
DryRunOnly ==
    /\ pc = "dry_run"
    /\ pc' = "execute"
    /\ NotCounted
    /\ \/ UNCHANGED <<ctx, outcome, bundle>>
       \/ /\ ctx' = [ctx EXCEPT !.result = "FAILED"]
          /\ outcome' = "execute_failed"
          /\ bundle' = BundleOf(ctx')
    /\ UNCHANGED <<now, raised, verdict, change, stored, handled>> /\ NotSeen

\* UrgentExecutor.execute, the server-side dry run.
DryRun ==
    /\ pc = "dry_run"
    /\ \/ GoTo("execute") /\ UNCHANGED ctx /\ NotCounted
       \/ /\ ctx' = [ctx EXCEPT !.result = "FAILED"]
          /\ FailAndEscalate("execute_failed")
       \/ Raise /\ UNCHANGED ctx /\ NotCounted
    /\ UNCHANGED <<now, verdict, change, stored, handled>> /\ NotSeen

\* The real call.  A deferred plan is a stub that completes and changes
\* nothing.  A patch the cluster applied may still be answered with an error.
Execute ==
    /\ pc = "execute"
    /\ \/ /\ ctx' = [ctx EXCEPT !.result = "COMPLETED"]
          /\ change' = IF Urgent THEN "applied" ELSE "none"
          /\ GoTo("verify")
          /\ NotCounted
       \/ /\ Urgent
          /\ ctx' = [ctx EXCEPT !.result = "FAILED"]
          /\ change' \in {"none", "applied"}
          /\ FailAndEscalate("execute_failed")
       \/ /\ Urgent
          /\ change' \in {"none", "applied"}
          /\ Raise /\ UNCHANGED ctx /\ NotCounted
    /\ UNCHANGED <<now, verdict, stored, handled>> /\ NotSeen

\* Mutant of Verify: RETRY executes the plan again.
VerifyRetrying ==
    /\ pc = "verify"
    /\ \/ verdict' = "DONE" /\ Close("auto_resolved")
       \/ verdict' = "RETRY" /\ GoTo("execute")
    /\ UNCHANGED <<now, ctx, change, stored, handled>> /\ NotCounted /\ NotSeen

\* [5], [6] _collect_post_telemetry, ai.verify and _handle_next_action, up to
\* the rollback call.  Any next_action but the three named ones escalates.
Verify ==
    /\ pc = "verify"
    /\ UNCHANGED ctx
    /\ \/ /\ verdict' = "DONE"
          /\ RecordSuccess
          /\ Close("auto_resolved")
          /\ UNCHANGED trippedAt
       \/ verdict' = "RETRY" /\ Close("retry") /\ NotCounted
       \/ verdict' = "ROLLBACK" /\ GoTo("rollback") /\ NotCounted
       \/ verdict' = "ESCALATE" /\ FailAndEscalate("verify_escalate")
       \/ \* assemble_bundle chokes on a part of escalation_bundle that is null
          verdict' = "ESCALATE" /\ CountFailure /\ Raise
       \/ UNCHANGED verdict /\ FailAndEscalate("ai_error")
       \/ Conflict /\ UNCHANGED verdict /\ NotCounted
       \/ Raise /\ UNCHANGED verdict /\ NotCounted
    /\ UNCHANGED <<now, change, stored, handled>> /\ NotSeen

\* executor.rollback: the incident is "rolled_back" whatever its status.
Rollback ==
    /\ pc = "rollback"
    /\ \/ /\ change' \in IF Urgent THEN {"applied", "undone"} ELSE {change}
          /\ Close("rolled_back")
       \/ Urgent /\ change' \in {"applied", "undone"} /\ Raise
    /\ UNCHANGED <<now, ctx, verdict, stored, handled>> /\ NotCounted /\ NotSeen

\* AuditLogger._events at the end: an event for each thing the context holds,
\* and the one of an escalation.
Trail == {e \in Evidence : ctx[e] # NoAnswer}
           \cup IF bundle # NoAnswer THEN {"escalated"} ELSE {}

\* Mutant of Flush: an error of S3 is swallowed, as that of the webhook is.
FlushSwallowing ==
    /\ pc = "flush"
    /\ stored' \in {Trail, NoAnswer}
    /\ pc' = IF raised THEN "crashed" ELSE "returned"
    /\ raised' = FALSE
    /\ UNCHANGED <<now, ctx, verdict, outcome, bundle, change, handled>>
    /\ NotCounted /\ NotSeen

\* finally: log.flush(), the one put_object of the incident.  An exception,
\* pending or its own, ends the process; its own may come after the write.
Flush ==
    /\ pc = "flush"
    /\ \/ stored' = Trail /\ pc' = IF raised THEN "crashed" ELSE "returned"
       \/ stored' \in {Trail, NoAnswer} /\ pc' = "crashed"
    /\ raised' = FALSE
    /\ UNCHANGED <<now, ctx, verdict, outcome, bundle, change, handled>>
    /\ NotCounted /\ NotSeen

\* The process is killed in the middle of the call: out of memory, evicted.
Killed ==
    /\ pc \in Calls
    /\ pc' = "crashed"
    /\ raised' = FALSE
    /\ UNCHANGED <<now, ctx, verdict, outcome, bundle, change, stored, handled>>
    /\ NotCounted /\ NotSeen

\* What the call kept in its local variables is gone.
Forget ==
    /\ pc' = "idle"
    /\ ctx' = EmptyCtx
    /\ verdict' = NoAnswer
    /\ outcome' = "none"
    /\ bundle' = NoAnswer
    /\ change' = "none"
    /\ flaps' = 0
    /\ stored' = NoAnswer
    /\ UNCHANGED <<now, raised, handled>>

\* The caller takes the outcome and is free for the next incident.
Return ==
    /\ pc = "returned"
    /\ Forget
    /\ UNCHANGED <<failures, openedAt, hits, trippedAt, seen>>

\* The container restarts: breaker and flap tracker start from nothing.
Restart ==
    /\ pc = "crashed"
    /\ Forget
    /\ failures' = << >> /\ openedAt' = None /\ trippedAt' = None
    /\ hits' = [s \in ServiceKeys |-> << >>]
    /\ seen' = [s \in ServiceKeys |-> << >>]

Handler ==
    \/ Detect \/ Gate \/ AskBreaker \/ Decide \/ CheckSafety \/ Snapshot
    \/ DryRun \/ Execute \/ Verify \/ Rollback \/ Flush

Next == Tick \/ (\E n \in Namespaces : Start(n)) \/ Handler \/ Killed \/ Return \/ Restart

Spec == Init /\ [][Next]_vars
FairSpec == Spec /\ WF_vars(Handler)

-----------------------------------------------------------------------------
(* The cluster is only ever changed for a confident anomaly, by one urgent *)
(* action inside the caps, on the namespace the incident came from - of a  *)
(* plan the gate checks as a whole but the executor runs only the head of. *)
ChangeIsSafe ==
    change # "none" =>
        /\ ctx.detect.anomaly /\ ctx.detect.confidence >= ExecuteAt
        /\ Item.namespace = ctx.ns
        /\ Item.action \in UrgentActions
        /\ Item.action = "PATCH_MEMORY_LIMIT" => Item.memory <= MaxMemory
        /\ ctx.snapshot = "k8s"

(* No cluster change within a cooldown of the breaker's last trip, however *)
(* long the incident that makes it has been waiting on the AI engine.      *)
NoChangeWhileTripped ==
    [][change = "none" /\ change' = "applied"
         => trippedAt = None \/ now - trippedAt >= CooldownS]_vars

(* A flapping service is left alone: no incident changes the cluster when  *)
(* its service was confidently detected FlapThreshold times in the window, *)
(* counted over every detection this process has made.                     *)
FlappingIsNotHealed == change # "none" => flaps < FlapThreshold

(* The audit record of an incident is written once, at its end, so only    *)
(* the death of the process may leave a change without one: whenever the   *)
(* call returns, the bucket holds the plan, the snapshot and the result of *)
(* what it changed, and every escalation with its evidence                 *)
(* (docs/03_security_design.md:288-289).                                   *)
UnrecordedChangeKillsProcess ==
    pc = "returned" =>
        /\ stored # NoAnswer
        /\ change # "none" => {"detect", "decide", "snapshot", "result"} \subseteq stored
        /\ bundle # NoAnswer => bundle \cup {"escalated"} \subseteq stored

\* The call is over, its change in place, and the AI engine did not ask for that.
ChangeUnconfirmed ==
    /\ pc = "returned" /\ change = "applied"
    /\ verdict \notin {"DONE", "RETRY", "ROLLBACK"}
    /\ outcome # "idempotency_duplicate_denied"

(* A change the AI engine has not confirmed never stays in place silently  *)
(* (unless it answers 409 to verify): a human is told, with the plan, the  *)
(* result and the snapshot to restore in the bundle, and the breaker has   *)
(* counted the failure.                                                    *)
UnconfirmedChangeIsEscalated ==
    ChangeUnconfirmed => /\ bundle = Evidence
                         /\ failures # << >> \/ openedAt # None

(* handle_incident keeps the contract its callers rely on.                 *)
Contract == INSTANCE HandleContract
              WITH phase <- IF pc \in {"idle", "returned", "crashed"} THEN pc ELSE "running",
                   told <- bundle # NoAnswer

ContractKept == Contract!Spec

(* Every incident comes to an end: no branch of the handler is left        *)
(* without a next step.                                                    *)
IncidentEnds == pc = "detect" ~> pc \in {"returned", "crashed"}
=============================================================================
