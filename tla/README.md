# Formal model of the self-heal executor

This directory holds TLA+ modules for the executor of `tuu-ngo/TF3-Self-Heal-Agent-AWS`
(`executor/`, `forwarder/`, the telemetry scripts of team C and what these need of
`infra/`), the TLC configurations that check them on small instances, and TLAPS proofs. Paths
below are relative to the repository.

## The system

Alertmanager groups the alerts that fire and posts each group to a **forwarder**, which
turns each alert into a telemetry signal and sends it to an SQS queue. The **executor** is one
single-threaded Python process (one replica, `manifests/executor/deployment.yaml:12`). Its **watch loop** drains the
queue, groups the signals by deployment, hands each group to `handle_incident`, and acks
it; then it polls the pods of the tenant namespaces and handles what it finds there too.
`handle_incident` asks an external **AI engine** three times - `detect`, `decide`,
`verify` - and in between decides for itself whether the plan may be executed: a
**pre-decide gate** (confidence, severity, flapping), a **circuit breaker**, an
**idempotency lock** and a **safety gate** stand before the **executors** that change the
cluster. Beside this, team C's **telemetry scripts** turn raw metrics, events, logs, spans
and the executor's own windows into points of the frozen telemetry contract.

| component | state | operations | interacts with | what must be right |
|---|---|---|---|---|
| circuit breaker (`executor/circuit_breaker.py`) | failure times of the window, trip time | `is_open`, `record_failure`, `record_success` | called by the handler, in memory only | trips at the threshold, blocks for a cooldown, recovers |
| pre-decide gate (`pre_decide_gate.py`) | detection times of each service | `evaluate`, `record_and_count` | the handler | flapping services are left to humans |
| safety gate (`safety_gate.py`, `config.py`) | none | `check` | the handler, the plan of the AI engine | no action outside the allow list, the tenant, the caps |
| incident handler (`main.py`, `escalation.py`, `snapshot.py`, `executors/`) | `IncidentContext` of the current call | `handle_incident` | everything above, the AI engine, the cluster, DynamoDB, S3 | change only what is allowed; tell a human when it is not known to be right; end |
| watch loop (`main.py`) | cooldown map | `watch_loop` | the handler, both sources | no deployment healed twice in a cooldown, none forgotten |
| SQS source (`sqs_source.py`, `infra/modules/audit/main.tf`) | receipt handles; the queue's visibility, receive counts, DLQ | `drain`, `_group`, `ack` | the watch loop, SQS | at least once, no message lost, poison messages leave |
| watcher (`watcher.py`) | none; reads the container states | `collect_fault_events`, `scrape_deployment_telemetry` | the cluster, the watch loop, `verify` | what it suspects has a cause in the pod; a kill is not missed between two polls; its keys are the forwarder's |
| idempotency lock (`idempotency.py`) | DynamoDB table | `acquire` | the handler | one execution per key |
| audit logger (`audit.py`) | events of the incident | `event`, `flush` | S3 | a record of every incident |
| AI client (`ai_client.py`, `models.py`, `errors.py`) | none | `detect`, `decide`, `verify`, `_post` | the AI engine | error and retry policy |
| Kubernetes client (`k8s_client.py`) | the deployments' revisions | restart, patch, undo, reads | the cluster | dry run changes nothing, undo restores |
| forwarder (`forwarder/`) | the signals of the request still to be sent | `do_POST`, `_send_signals`, `alert_to_signal` | Alertmanager, SQS | no alert lost for a failed send, signals routable |
| telemetry scripts (`docs/Telemetry_and_Observability/TeamC_Telemetry_customer/custom_telemetry/`) | the file they overwrite | eight modes of `normalize_telemetry.py` | files of collectors and of the executor | the output rules, all or nothing, a second pass keeps what counts |

**What is hard.** Nothing here runs in parallel inside the process, but the process shares
its work with a queue, a cluster and a clock. The hard behaviours are: a message that
becomes visible again while its incident is still being handled (visibility timeout 30 s,
verify window up to 120 s); a crash between the change and the ack; deletes that fail in
part; two sources that report one fault; a change the cluster made and answered with an
error; a rollback that fails; and three pieces of memory (failures, hits, cooldowns) that
are pruned by time, reset by events and lost on a restart. The way in has its own: a send that
fails and is answered 200, a message that expires, alerts that name no pod, and two sources
that derive one key from two different names. `PROJECT.json` lists each of
them under `hazards` at its line, with the properties that cover it or the reason why none
does yet.

## Modules

    Lemmas              TLAPS: the deque, the names of objects
    Deque               the popleft loop, pure operators
    CircuitBreaker      fields and methods of the breaker
      Breaker           ... driven by the handler           implements BreakerContract
        BreakerProofs   TLAPS
        MCBreaker       TLC
      PreDecideGate     gate and flap tracker (shares the clock and the deque pruning)
    SafetyGate          the verdict on a plan, pure operators
    Incident            handle_incident = PreDecideGate + CircuitBreaker + SafetyGate
                        + executors + escalation + audit    implements HandleContract
        IncidentProofs  TLAPS
        MCIncident      TLC
    WatchLoop           watch_loop + SQS; relies on HandleContract
        WatchLoopProofs TLAPS
        MCWatchLoop     TLC
      FlapLoop          WatchLoop + the flap tracker
        MCFlapLoop      TLC
      Delivery          Alertmanager + forwarder + WatchLoop
        MCDelivery      TLC
      CompositionProofs TLAPS, of FlapLoop and of Delivery
    Naming              object names and label dictionaries
      Forwarder         alert_map.py, pure operators
      Watcher           watcher.py over the containers of pods
      TelemetryContract telemetry_contract.py, pure operators
    Collector           normalize_telemetry.py = Watcher + Forwarder + TelemetryContract
        CollectorProofs TLAPS
        MCCollector     TLC
    AIClient            _post: the retry policy, against an engine that locks keys
        AIClientProofs  TLAPS
        MCAIClient      TLC
    Rollout             k8s_client: the three urgent actions, snapshot and rollback
        RolloutProofs   TLAPS
        MCRollout       TLC

Incident takes each call of AIClient and of Rollout as one step with every way it may end;
AIClient and Rollout look inside those steps. Delivery and FlapLoop add their variables to
all of WatchLoop's; FlapLoop implements WatchLoop, Delivery does not, since it uses the places of
the queue again.

Operators named in a comment "Mutant of ..." are wrong variants of the definition after
them, kept to show that a property can fail; no specification uses them.

**CircuitBreaker, Breaker.** `failures` is `_failures`, `openedAt` is `_opened_at`
(`None` is -1). The popleft loop is `DropOld` (in `Deque`, as the gate has the same), which keeps the suffix from the first entry
not older than the cutoff. `is_open` is two actions, one for each answer, since the FALSE
answer also performs the half-open reset. `Breaker` adds the caller: an incident may fail
in `detect` before the breaker is asked (`DetectFailed`), is refused or admitted, and ends
as a success, a counted failure, or in a way the breaker is not told of (safety denial,
409, RETRY, ROLLBACK). `streak` and `trial` are history variables.

**PreDecideGate.** A detect answer is a record of the four fields the gate reads.
`GateDecision` is the decision, `RecordHit` the change of the tracker. Percentages stand
for the floats; 0.5, 0.8 and 0.7 are the constants `DiscardBelow`, `ExecuteAt`,
`HighSeverity`. `maintenance_active` is never passed by `handle_incident`.

**SafetyGate.** `SafetyVerdict` is `check`: the first reason it denies with, `Passed`, or
`Raises` when `params["namespace"]` is missing (a `KeyError`, not a `SafetyDenied`).

**Incident.** `pc` is the next call of `handle_incident`; one action per call, each with
every way the call may end: an answer, an `AIError` (counted as a failure and escalated), a
409 (`except AIConflict`, closed silently), or an exception nobody catches (`Raise`), after
which only `log.flush()` in the finally clause runs and the process dies. `flush` may itself
raise, before or after the write. `stored` is the record in the audit bucket: `Trail`, one
element for each thing the context holds and one for an escalation. A bucket is taken to be
configured. `Killed` ends the process anywhere. `ctx` is `IncidentContext`; the escalation bundle is the set of evidence in it that
`assemble_bundle` would show; of a bundle the engine sends with a part that is null it may
raise, after the failure was counted (`escalation.py:57`). `change` is what the call did to the cluster: the real call
may be answered with an error and still have been applied, as may the rollback. `trippedAt`,
`seen` and `flaps` are history variables. The idempotency key is a fresh uuid
(`main.py:86`), so the lock grants every request and appears only as an exception of
`Decide`. A deferred plan is a stub in the code and changes nothing.

**WatchLoop.** `pc` is the place in `watch_loop`. Time is relative: `left[k]` is what
remains of the cooldown of `k`, `bootLeft` what remains of the first `heal_cooldown_s` of
the host, during which `time.monotonic() - cooldown.get(key, 0.0)` is small for a
deployment that was never healed. The queue has for each message its place and its receive
count; `VisibilityEnds` may happen at any time, `Redrive` when a message was received
`MaxReceive` times, and `Expire` drops a message at the end of its retention, received or
not. `Ack(D)` deletes any subset of the messages, the full one when nothing
fails. `Crash` may happen anywhere; `Restart` begins with an empty map. `handle_incident` is
`Change` and `HandleReturns`: the handler changes the cluster at most once and then
returns or dies, which is `HandleContract`.

**FlapLoop.** `ages` holds, for each service, the ages of the hits in `FlapTracker._hits`; a
hit older than the window and a cooldown together is alike to any older one. A call of
`handle_incident` asks `detect`, which takes time, and `Track` is the `record_and_count` of
its answer when that is a confident anomaly. The cooldown is counted from the end of the
call, so two hits of one key are more than a cooldown apart.

**Forwarder, Delivery.** `AlertToSignal` is `alert_to_signal`: which alerts are passed on, how
the deployment is found in the labels or cut out of the pod's name, and what `_coerce` makes
of the value. `Delivery` puts Alertmanager in front (external: groups by namespace and
alertname, repeats while a group fires, notifies resolutions) and the webhook: `Post` takes a
group, `SendSignal` and `SendFails` are the two ways a `send_message` ends, `ForwarderDies`
leaves the rest unsent and the notification to be made again. A message of `Messages` is a
place in the queue for bodies of one key, used again when its last body is gone. `cause` and
`healedFor` are history variables. `LoopStep` is every step of WatchLoop.

**Watcher.** A container is its waiting reason or how it runs or ended, its readiness, the
exit code of its last state and its restart count; the kubelet's steps are external. It may end
out of memory (137), by a SIGKILL for another reason - a liveness probe that failed, a grace
period that was over - (137 as well), with an error (1) or completed (0). `fate` is what becomes
of a pod as a whole, from which `PhaseOf` gives its phase, `Unknown`, `Succeeded` and `Failed`
among them; `ContainerCreating` stands for every waiting reason the watcher has no fault for.
`EvidenceOf` is the body of the loop in `_inspect_pod`, `FaultEvent` the event with the first
fault found, `ScrapeOf` the telemetry `verify` is given. `suffered` is a history variable: the
pulls that failed, the SIGKILLs and the other ends. The watcher tells ends apart by their exit
code alone, so `SuspicionHasCause` promises that a suspected memory kill was a SIGKILL, not that
memory was lacking.

**TelemetryContract, Collector.** An item is its scalar fields and its labels; a time is told
apart only by how it is written, a text by whether it holds a secret. Every function of the
script that looks at the data is an operator: the map of internal signals, the five
conversions, `auto_normalize` and `validate_point`. Collector's actions are the modes of the
command, which overwrites its file; before it the file is raw telemetry, a report or a scrape
of the watcher, or a signal of the forwarder. What the command prints is left out. A value that
is no scalar is `<<"object">>`; names of signals are taken to be texts.

**AIClient.** One action for each way an attempt of `_post` may end. `Before` and `Call` are
the order in which `handle_incident` uses the three endpoints; `verify` sends the key of
`decide`. The engine is external and is what its contract says: `/v1/decide` locks the key
before it works, and refuses a locked one with 409. A request may be worked on although the
client sees a 500 or a timeout. `plans`, `errors` and `limited` are history variables.
Durations (timeouts, `Retry-After`, backoff) are not modelled.

**Rollout.** A pod template is an image, a limit (or none) and a restart stamp. A patch
changes the template at once; the deployment controller (external) gives it a revision
later, and renumbers a ReplicaSet it has already. `rollout_undo` is three steps, each of which
may fail: the deployment is read, with its revision `seen`; its ReplicaSets are listed; what was
found is patched in. Others may roll out between any two of them (`Deploy`), and the controller
may renumber. The patch is a strategic merge
(`Merge`): what it leaves out stays. Replicas, requests and labels are left out; the
snapshot is the template it was read from. `calm`, `moved` and `replaced` are history
variables: whether anybody else rolled out, whether the action changed anything, and what
the last ROLLOUT_UNDO took away. The dry run before an action and the gates are in Incident.
Since the controller renumbers, a second ROLLOUT_UNDO brings back the very template that the
first one removed (`SecondUndoRedeploys`): the executor never gets further back than one
revision, and nothing in it remembers that it has been there.

**BreakerContract, HandleContract** are the abstract specifications: what the handler may
rely on when it asks the breaker, and what the loop may rely on when it calls the handler.
Both are checked by TLC as properties of the detailed modules (`ContractKept`) and proved.

## Runs

| run | checks | bounds |
|---|---|---|
| `breaker` | types; a closed breaker is below the threshold; the deque is exactly the recent part of the failures since the last reset; it trips if and only if the threshold is reached in the window; BreakerContract | threshold, window, cooldown 3; 10 ticks; 7 failures between resets: room for failures that age out, a trip, failures while open, the reset and a second trip |
| `half_open` | violation: the failed trial does not reopen the breaker | as `breaker` |
| `incident` | types; every change is inside the gates; no change in a cooldown of the breaker; no change for a flapping service; an unconfirmed change is escalated with its evidence and counted; a change whose call returned is in the audit bucket; HandleContract; every incident ends | 3 incidents, 4 ticks; threshold 2, flap threshold 3; six detect answers (one per gate decision, and one without context), eleven plans (one per safety verdict and the good ones of one and two items) |
| `watch_loop` | types; a deleted message was handled or skipped by its own cooldown; a message comes back only for a crash or a failed delete, and dead-letters only after `MaxReceive` of them; heals of a deployment are a cooldown apart; an incident is skipped only for a recent heal | two messages of one deployment (symmetric), a second deployment seen by the poll only, 2 failing pods, 2 faults, 2 receives, cooldown 2: enough to reach the DLQ, to drain messages together and apart, and to have both sources ask in one round |
| `delivery` | types; an alert that goes on firing is handled whatever fails on its way; every message leaves the queue | one alert and its key, a body without a key, one fault. `Workloads` is empty, so that the poll cannot do what the queue should; `MaxReceive` 1 lets a single fault dead-letter a message, the hardest case for the alert |
| `unknown` | violation: an alert without a pod is dropped for the heal of another deployment | the two alerts of the request metrics, two messages |
| `flap_loop` | types; a service of one deployment is never found flapping; a lasting fault is handled | two deployments, no queue; cooldown 1, window 2, threshold 3, the ratio of the defaults 300, 600, 3 |
| `double_execute` | violation: a redelivered message changes the cluster again | one fault |
| `boot` | violation: an incident is dropped in the first cooldown of a young host | `BootLeft` = `CooldownS` |
| `ai_client` | types; one plan per call; it gives up on 500 exactly after `MaxRetries` + 1 of them; a 409 is only ever the call's own; every call ends | 2 retries, 2 answers 429 in a call, 3 keys: one incident with `detect`, `decide`, `verify` and a second |
| `rollout` | types; a completed rollback restores image and limit; an undo never reads the current revision; two ROLLOUT_UNDO in a row cancel out | 2 images (symmetric), 2 limits or none, 1 restart, 3 revisions |
| `telemetry` | types; a suspicion has a cause in its pod; a kill outlives the restart; both sources share a key; output keeps the rules; normalising twice changes no field and no label but the two marks; a window is taken whole or refused | a pod of two containers, of which one restarts once, and one of a StatefulSet; `RestartThreshold` 0, so that one restart is reported; every way to end and every fate of a pod; every format with each class of time, text and status. The pods stand still once a file is written, since the file no longer depends on them |

`telemetry` and `rollout` are the largest runs, with 123,893 and 1,008,490 distinct states.

`RollbackRestores` asks for what a rollback one revision back needs: the deployment was
settled at the snapshot and at the rollback, nobody else rolled out, and the action had
changed the template. It speaks of rollbacks that completed: that a failed one passes for
`rolled_back`, and that a foreign rollout is overwritten, no property excludes, since the code
does not.

`FlappingIsUnreachable` says that a guard the documents count on
(`docs/02_infra_design.md:96`) never fires in the loop. It is a statement about three
defaults that are set apart from each other; a shorter cooldown or a longer window breaks it.

`CHECK_DEADLOCK FALSE` is set where the bounds on the clock and on the incidents let a
model stop; `WatchLoop` and what extends it, and `Collector`, have no such bound and deadlock
is checked. In `watch_loop`
`BootLeft` is 0 for `SkippedWasJustHealed`, which is what the `boot` run then shows to be
needed.

**Fairness.** `Incident`: weak fairness of the handler's steps, since every call it makes has
a timeout or returns (the 429 retry of `_post` is assumed to end). `WatchLoop`: weak
fairness of the loop and of `HandleReturns` (calls end) and of time. `AIClient`: weak
fairness of the attempts of a call, each of which has a timeout; that the engine limits its
rate only so often is the bound `MaxLimited`, without which `_post` waits for ever
(`ai_client.py:109`). Of SQS, `WatchLoop` assumes that a visibility timeout ends, that a visible message is not passed over for ever by
`ReceiveMessage` (strong fairness, as the loop receives only from time to time) and that the
redrive policy is applied. `Delivery` adds that Alertmanager repeats what still fires
(`repeat_interval`, weak fairness) and that neither its POSTs nor `send_message` fail for
ever (strong fairness). Crashes, failures and recoveries are never assumed to happen.

## Where the code and its documents differ

- **Half-open** (`circuit_breaker.py:36` against `:9-10`): the reset forgets the failures,
  so the failed trial is one failure of a new count.
- **Double execution** (`main.py:86` against `sqs_source.py:12-13`): a fresh key never
  collides, so the lock does not cover redelivery.
- **Young host** (`main.py:236`): a key absent from the cooldown map counts as healed when
  the host booted.
- **Alerts without a pod** (`forwarder/alert_map.py:47` against
  `manifests/monitoring/prometheus-rules.yaml:3`): they all are about the deployment
  `unknown` of their namespace, and the cooldown of one hides another.

Each of these has a run. Five more were met while modelling and are part of the modules:

- A rollback that fails is reported as `rolled_back` and escalated to nobody
  (`main.py:166-168` against `docs/02_infra_design.md:121`);
  `UnconfirmedChangeIsEscalated` therefore leaves ROLLBACK out.
- The rollback does not apply the snapshot (`executors/urgent.py:42` against
  `contract - new 4/ai-api-contract.md:294`): it goes back one revision, which leaves a limit
  in place the snapshot did not have.
- The retry after a 500 carries the key its first attempt has locked; the 409 it is answered
  closes the incident (`ai_client.py:117`, `main.py:143-145` against
  `docs/02_infra_design.md:184`). `ConflictIsSelfInflicted` shows that a 409 never means
  anything else.
- The flap limit cannot fire in the loop, see above.
- The watcher reads exit codes and counts, never a reason (`watcher.py:77`, `:83`): a container
  its liveness probe had killed is reported as `OOM_KILL`, one that completes and is restarted
  as `CRASH_LOOP`. The script then calls the first a `pod_oom_event`, which the telemetry
  contract keeps for memory (`contract - new 4/telemetry-contract.md:338`; `docs/06_runbook_library.md:45`
  has it as the code does).

In the telemetry scripts `_base_labels` (`telemetry_contract.py:396-406`) never reads its
aliases `k8s_namespace`, `k8s_deployment` and `pod_name`; a time in microseconds ends in an
uncaught `ValueError`; an OTLP export whose times are strings, or which has a failed span
with an empty status message, is refused as a whole; a scrape with a container in
`ContainerCreating` or a pod in phase `Succeeded` or `Unknown` (`watcher.py:109`) cannot be
normalised; an internal signal whose value is an object ends in an uncaught `TypeError`
(`telemetry_contract.py:352`); and a second pass overwrites `cdo_source_mode` and
`cdo_original_signal` (`:97-98`), so the name the watcher gave a signal is lost.
`HighContainerMemory` sends a ratio, rounded to an integer, where `alert_map.py:13` says bytes.

A 409 closes the incident whichever endpoint sends it, so one from `/v1/verify` leaves a
change in place and nobody is told; `WORK_RULE.md:208` says the engine locks `/v1/decide`
only, and `UnconfirmedChangeIsEscalated` takes it at its word.

## Proofs

`BreakerProofs` proves, for every `Threshold`, `WindowS`, `CooldownS` and every bound:

- `TypeCorrect`, `ClosedIsBelowThreshold`, `DequeIsExact` (invariants),
- `TripsExactlyAtThreshold` (action property),
- `KeepsContract` (refinement of `BreakerContract`).

Assumed are `BreakerConstants` and `BoundConstants`, which TLC evaluates, and that the
clock does not run backwards (`Tick` is the only action that changes it). The inductive
invariant `IInv` is the type invariant with `ClosedBelowThreshold`, `DequeIsRecentStreak`,
the order of the times, and the relation of the trip time to the clock. The deque statement
is needed because `DropOld` is defined by the first entry it keeps: that an entry was
dropped for good is known only relative to the whole streak. `DropOldProperties`
characterises `DropOld` once (least-number principle on indices), `CountFailureStep` says
what a counted failure does to deque and streak, and the step lemma has one case per kind
of action: untouched, cleared, counted. The contract then follows step by step, since each
action of `Breaker` is one of the contract or a stutter.

`IncidentProofs` proves, for every set of answers and plans, every threshold, window and
cooldown, from `IncidentConstants`, `PlanConstants`, `NoAnswerConstant` and the breaker's and
the gate's assumptions:

- `TypeCorrect`, `ChangesAreSafe`, `FlappingIsLeftAlone`, `ReturnsAreRecorded`,
  `UnconfirmedChangesAreEscalated` (invariants),
- `NoChangeDuringTrip` (action property),
- `KeepsContract` (refinement of `HandleContract`),
- `GateIsExact`: the safety gate passes a plan if and only if `SafePlan`, which states the
  checks of `safety_gate.py` item by item and in no order, holds of it. The code stops at the
  first item that fails a check, and the least such index is what the proof works with.

None of the properties is inductive, since each speaks of the end of a call that depends on
what was checked at its beginning. `Known` carries it along: at every `pc` it says what the
calls before it have established (past the gate a confident anomaly, past the safety gate a
plan that passed it, past the snapshot the kind of snapshot). `ChangeKnown`, `Told`,
`Reported` and `Written` carry it past the end of the call to the flush and the return.
`TripKnown` relates the history of the last trip to the breaker: between the breaker's
question and the change there is no step that trips it. `DroppedAreOld` is the invariant of
the flap tracker: its deque is what is left of the history when a prefix of old hits is
dropped, so the count in the window is exact. The step lemmas have one case per action, and
`HandleContract` follows step by step.

`WatchLoopProofs` proves, for every set of deployments and messages, every cooldown and
every number of faults, receives and pods, from `LoopConstants`:

- `TypeCorrect`, `NoMessageIsLost`, `RedeliveryIsAFault` (invariants),
- `DoubleExecuteNeedsFault` (invariant): the `double_execute` run needs a fault to violate
  `NoDoubleExecute`, and so does every behaviour; a message has at most one change more than
  there were faults,
- `HealsKeepTheirDistance`, and `SkippedOnOldHost` under `BootLeft = 0` (action properties).

The inductive invariant says what the receipt handles in `batch` are worth: each message is
under its own key, the batch is empty whenever the loop receives or polls, what is about to
be deleted was served, and every receive but the one still held was paid for by a fault
(`ReceivesAccounted`). `CooldownKept` states that `left` and `quiet` add up to the cooldown,
from which both action properties follow; that they may add up to more on a young host is
the `boot` finding.

`RolloutProofs` proves `TypeCorrect`, `RollbackIsRestoring`, `UndoIsReadingAnother` and
`SecondUndoIsRedeploying`. While an action is verified,
the snapshot is either the current revision, not yet superseded, or exactly the revision
`_previous_replicaset` would choose (`SnapshotAtHand`); this needs that the deployment's
revision is the newest (`CurrentIsNewest`), and that in a calm incident nothing comes between
the two reads (`SeenIsCurrent`). In any other, the revision that was read is not ahead of the
deployment's and each template has one revision (`TemplatesDiffer`), which is all that
`UndoIsReadingAnother` takes. The template that an undo removed is likewise
the current revision until the controller has seen the undo, and the one before it from then
on (`ReplacedAtHand`), so that the next undo reads it (`UndoReads`).

`AIClientProofs` proves `TypeCorrect`, `AtMostOnePlan`, `QuotaIsKept` and
`ConflictsAreSelfInflicted`. A plan implies a lock on the call's key, while `_post` loops
`attempt` is the number of 500 answers, and a locked key is one that was used.

`CompositionProofs` is about the two compositions of the loop.

- Of `FlapLoop`: `FlapLoopIsLoop` (it implements `WatchLoop`, so what is proved there holds
  here), `FlapTypeCorrect`, and `FlappingNeedsSharedService` under `OneKeyEach` (no two
  deployments share a service) and `WindowIsCovered`
  (`FlapWindowS <= (FlapThreshold - 1) * CooldownS`). The last adds to the invariant of
  `WatchLoopProofs` that the hits of a service are pairwise more than a cooldown per step
  apart (`Spread`), and that the last one and what remains of the cooldown make a whole
  cooldown (`Rested`).
- Of `Delivery`, for every set of alerts and keys: `DeliveryTypeCorrect`, and
  `DeliveryKeepsTheLoop`, by which `DeletedWasServed`, `RedeliveryNeedsFault` and
  `HealsAreSpaced` hold of a queue that is filled for ever. `Delivery` is no refinement of
  `WatchLoop`, so the loop's invariant is shown again to survive `SendSignal`: the place that
  is used again is in no batch (`Free`). `CauseIsKnown` follows a message from the alert it
  was made of to the batch.
- `RightNamesSkipTheirOwn`: `SkippedForOwnDeployment`, which the `unknown` run violates, holds
  when the labels of every alert that is passed on name its deployment (`NamedRight`) and
  `BootLeft = 0`. So the naming is all that is wrong. `PodAlertsSkipTheirOwn` derives
  `NamedRight` for alerts of pods a Deployment owns; the alert of the `delivery` run is one,
  the alerts of the `unknown` run carry no pod. `HealedItself` is the invariant: the keys this
  process still cools down are those it has healed, and it has healed each for itself.

`CollectorProofs` proves all the safety properties of the `telemetry` run, for any number of
pods, containers, restarts and input files and for windows of any length:

- `CollectorTypes`, `SuspicionsHaveCauses`, `OutputRules` (invariants),
- `OomOutlives`, `RenormalizingIsIdempotent`, `WindowsAreWhole` (action properties),
- `SourcesAgreeOnKeys`, under `NamedByControllers`: a pod owned by a ReplicaSet is named by
  one segment more than it, and the ReplicaSet by one more than its deployment, which has a
  name.

For the pods the inductive invariant is `WInv`: a status is one the kubelet can bring a
container to, and whatever it shows - the exit code of the last end, a reason to wait - is
accounted for in `suffered` (`Accounted`). What an event reports is an element of what
`EvidenceOf` gives for some container, which is shown once for the functions that concatenate
(`FlattenElements`, `ConcatElements`). For the files it is `FileInv`: a file the command wrote
is a window of ruled points. `RenormalPoint` shows that such a point is in the image of its
own normalisation, and `CollectedInv` that a report or a scrape is still a window of the signals
the watcher can name. The map of internal signals tells those it has a row for apart
(`SignalIsTold`); the rest are the phases and reasons that make a scrape `Unmapped`.
A window is normalised point by point, so these are statements about each position of a
sequence; where an induction along a sequence is needed it is the least index that fails
(`LeastNat`).

Assumed are the constants of `Watcher` (`NamesAreGiven`: every pod has a name, and its
owner's name is a sequence of segments) and of `Collector` (`FileKinds`: a file the command reads holds a dict or
a list), which TLC evaluates. `CollectorProofs` and `CompositionProofs` declare `Segments`, the
set the suffixes of a generated name are drawn from, and assume nothing of it.

`Lemmas` holds what several of these need: a set of naturals has a least element, the entries
of a deque from the first one that is recent enough are all recent enough, and cutting its
suffixes off a pod's name leaves the deployment's.

Only model-checked: all liveness (`IncidentEnds`, `EveryMessageSettles`, `AlertIsHandled`,
`FaultIsHandled`, `CallEnds`), which is out of the prover's reach. Every invariant and action
property of a passing run is also proved. The behaviour of SQS, of Alertmanager, of the kubelet
and the deployment controller and of the AI engine is assumed.

## Not modelled

The mock AI engine, the scenario runner and the tests are test doubles; Terraform and
manifests are configuration, of which the queue's settings, Alertmanager's route, the labels
of the rules and the single replica are used. The wording of audit events and of the bundle,
the webhook to the on-call channel (its failure is swallowed), the pods' logs, the lock's
refusal (no caller repeats a key) and the development mode without AWS or a cluster are left
out. How old the events of a poll are when the last of them is handled depends on the
durations of the calls, which have no bound in the code (429).

## Plan

Done: the breaker, the handler with its gates and its audit record, the watch loop with its
queue, its flap tracker and the way of an alert into it, the watcher, the telemetry scripts,
the AI client, the rollout of a deployment, and proofs of every safety property that is checked.
Left, in this order:

1. The composition of `Incident` with `Rollout`, so that the snapshot of `Incident` is the
   one a rollback is held against.
2. `Delivery` with two alerts of one group that share a request, one of which cannot be sent.
3. A contract of the queue with its loop, at least once, that `WatchLoop` implements.
