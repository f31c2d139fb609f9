------------------------------- MODULE Rollout -------------------------------
(***************************************************************************)
(* One deployment under the urgent executor: the snapshot, the three       *)
(* urgent actions and the rollback, as executor/k8s_client.py carries them *)
(* out on the Kubernetes API, next to whoever else rolls the deployment    *)
(* out.  Gates, dry run and verdicts are Incident's.                       *)
(*                                                                         *)
(* Kubernetes is external: a patch changes the pod template at once, the   *)
(* deployment controller gives the template a revision some time later.    *)
(* A template is reduced to what the actions and the snapshot tell apart.  *)
(***************************************************************************)
EXTENDS Integers

CONSTANTS
    Images,        \* container images
    Memories,      \* memory limits
    MaxStamp,      \* bound on the restarts
    MaxRevision    \* bound on the revisions

ASSUME RolloutConstants ==
    /\ Memories \subseteq Nat \ {0}
    /\ MaxStamp \in Nat /\ MaxRevision \in Nat \ {0}

VARIABLES
    template,    \* the deployment's pod template
    sets,        \* the template of each ReplicaSet, by revision
    revision,    \* the deployment's annotation deployment.kubernetes.io/revision
    pc,          \* where the executor is with the current incident
    purpose,     \* what rollout_undo is running for
    seen,        \* cur_rev: the revision rollout_undo has read
    target,      \* the template rollout_undo has read
    snapshot,    \* RollbackSnapshot.k8s_state
    status,      \* status of the last call
    calm,        \* history: settled at snapshot and rollback, nobody else rolled out
    moved,       \* history: the action had changed the template
    replaced     \* history: the template a calm ROLLOUT_UNDO has replaced, if
                 \* nothing has changed the deployment since

cluster == <<template, sets, revision>>
executor == <<pc, purpose, seen, target, snapshot, status>>
histories == <<calm, moved, replaced>>
vars == <<cluster, executor, histories>>

\* An absent field of a template.
Unset == 0

Templates == [image : Images, memory : Memories \cup {Unset}, restartedAt : 0 .. MaxStamp]

Phases == {"idle", "execute", "list", "undo", "verify", "rolled_back"}

TypeOK ==
    /\ template \in Templates
    /\ DOMAIN sets \subseteq 1 .. MaxRevision
    /\ \A r \in DOMAIN sets : sets[r] \in Templates
    /\ revision \in DOMAIN sets
    /\ pc \in Phases
    /\ purpose \in {"action", "rollback"}
    /\ seen \in 1 .. MaxRevision
    /\ target \in Templates
    /\ snapshot \in Templates
    /\ status \in {"none", "COMPLETED", "FAILED"}
    /\ calm \in BOOLEAN /\ moved \in BOOLEAN
    /\ replaced \subseteq Templates

Init ==
    /\ template \in {t \in Templates : t.restartedAt = Unset}
    /\ sets = [r \in {1} |-> template]
    /\ revision = 1
    /\ pc = "idle"
    /\ purpose = "action"
    /\ seen = revision
    /\ target = template
    /\ snapshot = template
    /\ status = "none"
    /\ calm = FALSE /\ moved = FALSE
    /\ replaced = {}

-----------------------------------------------------------------------------
(* The cluster.                                                            *)

Newest == CHOOSE r \in DOMAIN sets : \A q \in DOMAIN sets : q <= r

\* The controller has seen the template.
Settled == sets[revision] = template

\* A template gets the next revision; a ReplicaSet that has it already is
\* renumbered.
Reconcile ==
    /\ ~Settled
    /\ Newest < MaxRevision
    /\ revision' = Newest + 1
    /\ sets' = [r \in {q \in DOMAIN sets : sets[q] # template} \cup {Newest + 1} |->
                  IF r = Newest + 1 THEN template ELSE sets[r]]
    /\ UNCHANGED <<template, executor, histories>>

\* Somebody else rolls out another image or limit.
Deploy(t) ==
    /\ t.restartedAt = template.restartedAt
    /\ t # template
    /\ template' = t
    /\ calm' = FALSE
    /\ replaced' = {}
    /\ UNCHANGED <<sets, revision, executor, moved>>

-----------------------------------------------------------------------------
(* The executor.                                                           *)

\* S.capture
Capture ==
    /\ pc \in {"idle", "rolled_back"}
    /\ pc' = "execute"
    /\ snapshot' = template
    /\ status' = "none"
    /\ calm' = Settled
    /\ moved' = FALSE
    /\ UNCHANGED <<cluster, purpose, seen, target, replaced>>

\* Strategic merge: a field the patch leaves out stays as it is.
Merge(current, patch) ==
    [image |-> patch.image,
     memory |-> IF patch.memory = Unset THEN current.memory ELSE patch.memory,
     restartedAt |-> IF patch.restartedAt = Unset THEN current.restartedAt
                                                  ELSE patch.restartedAt]

\* _patch_deployment: the deployment becomes t; the API may answer a change it
\* has made with an error, and refuse one.
Patch(t, done, failed) ==
    /\ \/ template' = t /\ status' = "COMPLETED" /\ pc' = done
       \/ template' \in {t, template} /\ status' = "FAILED" /\ pc' = failed
    /\ replaced' = IF pc = "undo" /\ purpose = "action" /\ calm /\ status' = "COMPLETED"
                     THEN {template} ELSE {}
    /\ UNCHANGED <<sets, revision, seen, target, snapshot, calm, moved>>

\* restart_deployment
RestartDeployment ==
    /\ pc = "execute"
    /\ template.restartedAt < MaxStamp
    /\ Patch([template EXCEPT !.restartedAt = @ + 1], "verify", "idle")
    /\ UNCHANGED purpose

\* Mutant of PatchMemoryLimit: the limit of the plan is taken as an increment.
PatchMemoryLimitAdded(m) ==
    /\ pc = "execute"
    /\ Patch([template EXCEPT !.memory = @ + m], "verify", "idle")
    /\ UNCHANGED purpose

\* patch_memory_limit
PatchMemoryLimit(m) ==
    /\ pc = "execute"
    /\ Patch([template EXCEPT !.memory = m], "verify", "idle")
    /\ UNCHANGED purpose

\* Where an undo that failed leaves the incident.
UndoFailed(why) == IF why = "action" THEN "idle" ELSE "rolled_back"

\* rollout_undo, first: read the deployment and its revision.
ReadDeployment(why) ==
    /\ purpose' = why
    /\ \/ pc' = "list" /\ seen' = revision /\ UNCHANGED status
       \/ pc' = UndoFailed(why) /\ status' = "FAILED" /\ UNCHANGED seen

UndoAction ==
    /\ pc = "execute"
    /\ ReadDeployment("action")
    /\ UNCHANGED <<cluster, target, snapshot, histories>>

\* /v1/verify asked for ROLLBACK: UrgentExecutor.rollback.
UndoForRollback ==
    /\ pc = "verify"
    /\ ReadDeployment("rollback")
    /\ calm' = (calm /\ Settled)
    /\ moved' = (template # snapshot)
    /\ UNCHANGED <<cluster, target, snapshot, replaced>>

\* Mutant of Previous: the current revision is its own predecessor.
PreviousOrSame(q) == q <= seen

Previous(q) == q < seen

PreviousRevisions == {q \in DOMAIN sets : Previous(q)}

\* Mutant of Listed: any older ReplicaSet will do.
ListedAny == {sets[p] : p \in PreviousRevisions}

\* _previous_replicaset: the newest ReplicaSet older than the revision read;
\* others may have rolled out, and the controller renumbered, in between.
Listed == {sets[p] : p \in {q \in PreviousRevisions : \A r \in PreviousRevisions : r <= q}}

\* rollout_undo, second: list the ReplicaSets.
ReadPrevious ==
    /\ pc = "list"
    /\ \/ target' \in Listed /\ pc' = "undo" /\ UNCHANGED status
       \/ \* there is none, or the read fails
          pc' = UndoFailed(purpose) /\ status' = "FAILED" /\ UNCHANGED target
    /\ UNCHANGED <<cluster, purpose, seen, snapshot, histories>>

\* rollout_undo, third: patch the template that was read.
PatchUndo ==
    /\ pc = "undo"
    /\ UNCHANGED purpose
    /\ Patch(Merge(template, target),
             IF purpose = "action" THEN "verify" ELSE "rolled_back", UndoFailed(purpose))

\* Any other verdict of /v1/verify.
Close ==
    /\ pc = "verify"
    /\ pc' = "idle"
    /\ UNCHANGED <<cluster, purpose, seen, target, snapshot, status, histories>>

Next ==
    \/ Reconcile
    \/ \E t \in Templates : Deploy(t)
    \/ Capture
    \/ RestartDeployment
    \/ \E m \in Memories : PatchMemoryLimit(m)
    \/ UndoAction
    \/ UndoForRollback
    \/ ReadPrevious
    \/ PatchUndo
    \/ Close

Spec == Init /\ [][Next]_vars

-----------------------------------------------------------------------------
RolledBack == pc = "rolled_back" /\ status = "COMPLETED"

(* rollout_undo stands in for the snapshot: a rollback that completed has  *)
(* put back the image and the limit of the snapshot - when the action had  *)
(* changed the template, the controller had seen it, nobody else rolled    *)
(* out, and the snapshot had a limit to put back.                          *)
RollbackRestores ==
    RolledBack /\ calm /\ moved =>
        /\ template.image = snapshot.image
        /\ snapshot.memory # Unset => template.memory = snapshot.memory

(* Whatever is rolled out between the two reads of rollout_undo, and       *)
(* however the controller renumbers: what it reads is never the template   *)
(* of the revision the deployment has by then - an undo is no redeploying  *)
(* of the current revision.                                                *)
UndoReadsAnother ==
    [][pc = "list" /\ pc' = "undo" => target' # sets[revision]]_vars

(* The controller renumbers what is rolled back to, so the revision that   *)
(* was undone is the previous one from then on: when the next incident of  *)
(* the deployment is answered with ROLLOUT_UNDO again, the executor brings *)
(* back what the first one took away - the bad deploy of runbook R3 - and  *)
(* never reaches a revision further back.                                  *)
SecondUndoRedeploys ==
    [][pc = "undo" /\ purpose = "action" /\ calm /\ status' = "COMPLETED" =>
          \A t \in replaced : /\ template'.image = t.image
                             /\ t.memory # Unset => template'.memory = t.memory]_vars
=============================================================================
