--------------------------- MODULE RolloutProofs -----------------------------
(***************************************************************************)
(* Rollout, proved: the types, and that a rollback which completed has put *)
(* back what the snapshot says, for every set of images and limits and     *)
(* however many revisions there are.                                       *)
(***************************************************************************)
EXTENDS Rollout, TLAPS

(* The controller numbers upwards: nothing is newer than the deployment.   *)
CurrentIsNewest == \A q \in DOMAIN sets : q <= revision

(* Each template has one revision.                                         *)
TemplatesDiffer == \A p, q \in DOMAIN sets : sets[p] = sets[q] => p = q

(* The incident's action is not through.                                   *)
Acting == pc = "execute" \/ (pc \in {"list", "undo"} /\ purpose = "action")

(* A calm incident still finds the template it has captured, and the       *)
(* controller has seen it.                                                 *)
StartsFromSnapshot == calm /\ Acting => template = snapshot /\ Settled

(* The deployment's revision does not fall behind the one that was read;   *)
(* nothing has come between in a calm incident.                            *)
SeenIsCurrent ==
    pc = "list" => /\ seen <= revision
                   /\ calm => Settled /\ seen = revision

(* p is the revision before the current one.                               *)
IsPrevious(p) == p < revision /\ \A q \in DOMAIN sets : q < revision => q <= p

(* While the action is verified the snapshot is the current revision, or   *)
(* the one that rollout_undo goes back to.                                 *)
SnapshotAtHand ==
    calm /\ pc = "verify" =>
        \/ sets[revision] = snapshot
        \/ Settled /\ \E p \in DOMAIN sets : IsPrevious(p) /\ sets[p] = snapshot

(* A calm rollback of a real change finds the snapshot in the revision     *)
(* before the current one, and has read it in the end.                     *)
UndoneToSnapshot ==
    calm /\ moved /\ purpose = "rollback" =>
        /\ pc = "list" => \E p \in DOMAIN sets : IsPrevious(p) /\ sets[p] = snapshot
        /\ pc = "undo" => target = snapshot

(* A calm ROLLOUT_UNDO has read the revision before the current one.       *)
UndoReads ==
    calm /\ pc = "undo" /\ purpose = "action" =>
        \E p \in DOMAIN sets : IsPrevious(p) /\ target = sets[p]

(* An incident whose action is not through has no result yet.              *)
NoResultYet == Acting => status = "none"

(* What a ROLLOUT_UNDO has replaced is still the current revision, or is   *)
(* the one before it.                                                      *)
ReplacedAtHand ==
    \A t \in replaced :
        \E p \in DOMAIN sets :
            /\ IsPrevious(p)
            /\ \/ sets[revision] = t /\ template = Merge(t, sets[p])
               \/ Settled /\ sets[p] = t

IInv ==
    /\ TypeOK
    /\ CurrentIsNewest
    /\ TemplatesDiffer
    /\ SeenIsCurrent
    /\ UndoReads
    /\ NoResultYet
    /\ ReplacedAtHand
    /\ StartsFromSnapshot
    /\ SnapshotAtHand
    /\ UndoneToSnapshot
    /\ RollbackRestores

-----------------------------------------------------------------------------
(* The newest ReplicaSet is the deployment's current one.                  *)
LEMMA NewestIsCurrent ==
    ASSUME TypeOK, CurrentIsNewest
    PROVE  Newest = revision
<1>1. revision \in DOMAIN sets /\ \A q \in DOMAIN sets : q <= revision
  BY DEF TypeOK, CurrentIsNewest
<1>2. Newest \in DOMAIN sets /\ \A q \in DOMAIN sets : q <= Newest
  BY <1>1 DEF Newest
<1>3. DOMAIN sets \subseteq Int
  BY RolloutConstants DEF TypeOK
<1> QED
  BY <1>1, <1>2, <1>3

(* When nothing has come between its reads, rollout_undo reads the         *)
(* template of the revision before the current one.                        *)
LEMMA ReadsThePrevious ==
    ASSUME TypeOK, seen = revision, ReadPrevious, pc' = "undo"
    PROVE  \E p \in DOMAIN sets : IsPrevious(p) /\ target' = sets[p]
<1>1. target' \in Listed
  BY DEF ReadPrevious, UndoFailed
<1> QED
  BY <1>1 DEF Listed, PreviousRevisions, Previous, IsPrevious

(* The merge of two templates is a template.                               *)
LEMMA MergeType ==
    ASSUME NEW t \in Templates, NEW u \in Templates
    PROVE  Merge(t, u) \in Templates
BY DEF Merge, Templates

(* A template that has a limit is put back whole by the merge, its stamp   *)
(* aside; without a limit the image is.                                    *)
LEMMA MergeRestores ==
    ASSUME NEW t \in Templates, NEW u \in Templates
    PROVE  /\ Merge(t, u).image = u.image
           /\ u.memory # Unset => Merge(t, u).memory = u.memory
BY DEF Merge, Templates

(* There is one previous revision.                                         *)
LEMMA OnePrevious ==
    ASSUME TypeOK, NEW p \in DOMAIN sets, NEW q \in DOMAIN sets,
           IsPrevious(p), IsPrevious(q)
    PROVE  p = q
<1>1. p \in Int /\ q \in Int
  BY RolloutConstants DEF TypeOK
<1> QED
  BY <1>1 DEF IsPrevious

(* A step that leaves the cluster alone keeps what is at hand, and an      *)
(* incident that is not between the two halves of its undo reads nothing.  *)
LEMMA ClusterKept ==
    ASSUME ReplacedAtHand, UNCHANGED <<template, sets, revision, replaced>>
    PROVE  ReplacedAtHand'
BY DEF ReplacedAtHand, IsPrevious, Settled

(* Init establishes the invariant.                                         *)
LEMMA InitInv == Init => IInv
<1> SUFFICES ASSUME Init PROVE IInv
  OBVIOUS
<1>1. TypeOK
  <2>1. template \in Templates /\ revision \in DOMAIN sets
    BY DEF Init
  <2>2. DOMAIN sets \subseteq 1 .. MaxRevision
    BY RolloutConstants DEF Init
  <2>3. \A r \in DOMAIN sets : sets[r] \in Templates
    BY <2>1 DEF Init
  <2> QED
    BY <2>1, <2>2, <2>3 DEF Init, TypeOK, Phases
<1>2. CurrentIsNewest
  BY DEF Init, CurrentIsNewest
<1>3. TemplatesDiffer
  BY DEF Init, TemplatesDiffer
<1> QED
  BY <1>1, <1>2, <1>3 DEF Init, IInv, Acting, SeenIsCurrent, StartsFromSnapshot, SnapshotAtHand, UndoneToSnapshot,
                    RollbackRestores, RolledBack, UndoReads, ReplacedAtHand, NoResultYet

(* Every step keeps it.                                                    *)
LEMMA StepInv == IInv /\ [Next]_vars => IInv'
<1> SUFFICES ASSUME IInv, [Next]_vars PROVE IInv'
  OBVIOUS
<1> USE DEF IInv
<1>1. CASE Reconcile
  <2>1. Newest = revision
    BY NewestIsCurrent
  <2>2. /\ revision' = revision + 1
        /\ revision < MaxRevision
        /\ sets[revision] # template
        /\ DOMAIN sets' = {q \in DOMAIN sets : sets[q] # template} \cup {revision + 1}
        /\ sets'[revision'] = template
        /\ \A q \in DOMAIN sets : sets[q] # template /\ q # revision + 1 => sets'[q] = sets[q]
        /\ UNCHANGED <<template, pc, purpose, seen, target, snapshot, status, calm, moved,
                       replaced>>
    BY <1>1, <2>1 DEF Reconcile, Settled, executor, histories
  <2>3. revision \in 1 .. MaxRevision /\ \A q \in DOMAIN sets : q \in 1 .. revision
    BY RolloutConstants DEF TypeOK, CurrentIsNewest
  <2>0. \E old \in DOMAIN sets' : IsPrevious(old)' /\ sets'[old] = sets[revision]
    <3>1. PICK old \in DOMAIN sets : old = revision
      BY DEF TypeOK
    <3>2. old \in DOMAIN sets' /\ sets'[old] = sets[revision]
      BY <2>2, <2>3, <3>1
    <3>3. \A q \in DOMAIN sets' : q < revision' => q <= old
      BY <2>2, <2>3, <3>1, RolloutConstants
    <3>4. IsPrevious(old)'
      BY <2>2, <2>3, <3>1, <3>2, <3>3 DEF IsPrevious
    <3> QED
      BY <3>2, <3>4
  <2>4. TypeOK'
    <3>1. DOMAIN sets' \subseteq 1 .. MaxRevision
      BY <2>2, <2>3, RolloutConstants
    <3>2. \A r \in DOMAIN sets' : sets'[r] \in Templates
      BY <2>2, <2>3, RolloutConstants DEF TypeOK
    <3>3. revision' \in DOMAIN sets'
      BY <2>2
    <3> QED
      BY <2>2, <3>1, <3>2, <3>3 DEF TypeOK
  <2>5. CurrentIsNewest'
    BY <2>2, <2>3, RolloutConstants DEF CurrentIsNewest
  <2>6. StartsFromSnapshot' /\ SeenIsCurrent'
    BY <2>2, <2>3 DEF StartsFromSnapshot, Acting, SeenIsCurrent, Settled, TypeOK
  <2>10. TemplatesDiffer'
    BY <2>2, <2>3 DEF TemplatesDiffer
  <2>11. UndoneToSnapshot'
    <3>1. ~ (calm /\ pc = "list")
      BY <2>2 DEF SeenIsCurrent, Settled
    <3> QED
      BY <2>2, <3>1 DEF UndoneToSnapshot
  <2>7. SnapshotAtHand'
    <3> SUFFICES ASSUME calm, pc = "verify"
                 PROVE  Settled' /\ \E p \in DOMAIN sets' : IsPrevious(p)' /\ sets'[p] = snapshot
      BY <2>2 DEF SnapshotAtHand
    <3>1. sets[revision] = snapshot
      BY <2>2 DEF SnapshotAtHand, Settled
    <3> QED
      BY <2>0, <2>2, <3>1 DEF Settled
  <2>8. UndoReads'
    BY <2>2 DEF UndoReads, StartsFromSnapshot, Acting, Settled
  <2>9. ReplacedAtHand'
    <3> SUFFICES ASSUME NEW t \in replaced
                 PROVE  Settled' /\ \E p \in DOMAIN sets' : IsPrevious(p)' /\ sets'[p] = t
      BY <2>2 DEF ReplacedAtHand
    <3>1. sets[revision] = t
      BY <2>2 DEF ReplacedAtHand, Settled
    <3> QED
      BY <2>0, <2>2, <3>1 DEF Settled
  <2> QED
    BY <2>2, <2>4, <2>5, <2>6, <2>7, <2>8, <2>9, <2>10, <2>11
    DEF RollbackRestores, RolledBack, NoResultYet, Acting
<1>2. ASSUME NEW t \in Templates, Deploy(t) PROVE IInv'
  BY <1>2 DEF Deploy, executor, TypeOK, CurrentIsNewest, TemplatesDiffer, SeenIsCurrent,
              StartsFromSnapshot, Acting, SnapshotAtHand, UndoneToSnapshot, RollbackRestores,
              UndoReads, NoResultYet, ReplacedAtHand
<1>3. CASE Capture
  <2>1. TypeOK' /\ CurrentIsNewest' /\ TemplatesDiffer'
    BY <1>3 DEF Capture, cluster, TypeOK, CurrentIsNewest, TemplatesDiffer, Phases, Settled
  <2>2. StartsFromSnapshot' /\ SeenIsCurrent'
    BY <1>3 DEF Capture, cluster, StartsFromSnapshot, SeenIsCurrent, Settled
  <2>3. ReplacedAtHand'
    BY <1>3, ClusterKept DEF Capture, cluster
  <2> QED
    BY <1>3, <2>1, <2>2, <2>3 DEF Capture, SnapshotAtHand, UndoneToSnapshot, RollbackRestores,
                                  RolledBack, UndoReads, NoResultYet, Acting
<1>4. ASSUME NEW t \in Templates, pc = "execute", Patch(t, "verify", "idle"),
             UNCHANGED purpose
      PROVE  IInv'
  <2>1. /\ UNCHANGED <<sets, revision, seen, target, snapshot, calm, moved, purpose>>
        /\ template' \in Templates
        /\ status' \in {"COMPLETED", "FAILED"}
        /\ pc' \in {"verify", "idle"}
        /\ replaced' = {}
    BY <1>4 DEF Patch, TypeOK
  <2>2. TypeOK' /\ CurrentIsNewest' /\ TemplatesDiffer'
    BY <2>1 DEF TypeOK, CurrentIsNewest, TemplatesDiffer, Phases
  <2>3. SnapshotAtHand'
    BY <1>4, <2>1 DEF SnapshotAtHand, StartsFromSnapshot, Acting, Settled
  <2> QED
    BY <2>1, <2>2, <2>3
    DEF StartsFromSnapshot, Acting, SeenIsCurrent, UndoneToSnapshot, RollbackRestores,
        RolledBack, UndoReads, NoResultYet, ReplacedAtHand
<1>5. CASE RestartDeployment
  <2>1. [template EXCEPT !.restartedAt = @ + 1] \in Templates
    BY <1>5, RolloutConstants DEF RestartDeployment, TypeOK, Templates
  <2> QED
    BY <1>4, <1>5, <2>1 DEF RestartDeployment
<1>6. ASSUME NEW m \in Memories, PatchMemoryLimit(m) PROVE IInv'
  <2>1. [template EXCEPT !.memory = m] \in Templates
    BY DEF TypeOK, Templates
  <2> QED
    BY <1>4, <1>6, <2>1 DEF PatchMemoryLimit
<1>7. CASE UndoAction
  <2>1. /\ pc = "execute" /\ pc' \in {"list", "idle"} /\ purpose' = "action"
        /\ pc' = "list" => seen' = revision /\ status' = status
        /\ seen' \in {seen, revision} /\ status' \in {status, "FAILED"}
        /\ UNCHANGED <<template, sets, revision, target, snapshot, calm, moved, replaced>>
    BY <1>7 DEF UndoAction, ReadDeployment, UndoFailed, cluster, histories
  <2>2. TypeOK' /\ CurrentIsNewest' /\ TemplatesDiffer'
    BY <2>1 DEF TypeOK, CurrentIsNewest, TemplatesDiffer, Phases
  <2>3. StartsFromSnapshot' /\ SeenIsCurrent'
    <3>1. Acting
      BY <2>1 DEF Acting
    <3>2. revision <= revision
      BY DEF TypeOK
    <3> QED
      BY <2>1, <3>1, <3>2 DEF StartsFromSnapshot, SeenIsCurrent, Settled
  <2>4. ReplacedAtHand'
    BY <2>1, ClusterKept
  <2> QED
    BY <2>1, <2>2, <2>3, <2>4
    DEF SnapshotAtHand, UndoneToSnapshot, RollbackRestores, RolledBack, UndoReads,
        NoResultYet, Acting
<1>8. CASE UndoForRollback
  <2>1. /\ pc = "verify" /\ purpose' = "rollback"
        /\ \/ pc' = "list" /\ seen' = revision /\ status' = status
           \/ pc' = "rolled_back" /\ seen' = seen /\ status' = "FAILED"
        /\ calm' = (calm /\ Settled) /\ moved' = (template # snapshot)
        /\ UNCHANGED <<template, sets, revision, target, snapshot, replaced>>
    BY <1>8 DEF UndoForRollback, ReadDeployment, UndoFailed, cluster
  <2>2. TypeOK' /\ CurrentIsNewest' /\ TemplatesDiffer'
    BY <2>1 DEF TypeOK, CurrentIsNewest, TemplatesDiffer, Phases, Settled
  <2>3. ReplacedAtHand'
    BY <2>1, ClusterKept
  <2>4. SeenIsCurrent'
    <3>1. revision <= revision
      BY DEF TypeOK
    <3> QED
      BY <2>1, <3>1 DEF SeenIsCurrent, Settled
  <2>5. UndoneToSnapshot'
    <3> SUFFICES ASSUME calm, Settled, template # snapshot
                 PROVE  \E p \in DOMAIN sets : IsPrevious(p) /\ sets[p] = snapshot
      BY <2>1 DEF UndoneToSnapshot, IsPrevious
    <3> QED
      BY <2>1 DEF SnapshotAtHand, Settled
  <2> QED
    BY <2>1, <2>2, <2>3, <2>4, <2>5
    DEF StartsFromSnapshot, Acting, SnapshotAtHand, RollbackRestores, RolledBack, UndoReads,
        NoResultYet
<1>9. CASE ReadPrevious
  <2>1. /\ pc = "list"
        /\ UNCHANGED <<template, sets, revision, purpose, seen, snapshot, calm, moved, replaced>>
        /\ \/ target' \in Listed /\ pc' = "undo" /\ status' = status
           \/ /\ target' = target /\ status' = "FAILED"
              /\ pc' = IF purpose = "action" THEN "idle" ELSE "rolled_back"
    BY <1>9 DEF ReadPrevious, UndoFailed, cluster, histories
  <2>2. TypeOK' /\ CurrentIsNewest' /\ TemplatesDiffer'
    <3>1. target' \in Templates
      BY <2>1 DEF Listed, PreviousRevisions, TypeOK
    <3> QED
      BY <2>1, <3>1 DEF TypeOK, CurrentIsNewest, TemplatesDiffer, Phases
  <2>3. ReplacedAtHand'
    BY <2>1, ClusterKept
  <2>4. StartsFromSnapshot' /\ SeenIsCurrent' /\ SnapshotAtHand' /\ NoResultYet'
    BY <2>1 DEF StartsFromSnapshot, SeenIsCurrent, SnapshotAtHand, NoResultYet, Acting, Settled
  <2>5. calm /\ pc' = "undo" =>
            \E p \in DOMAIN sets : IsPrevious(p) /\ target' = sets[p]
    BY <1>9, ReadsThePrevious DEF SeenIsCurrent, ReadPrevious
  <2>6. UndoReads'
    BY <2>1, <2>5 DEF UndoReads, IsPrevious
  <2>7. UndoneToSnapshot'
    <3> SUFFICES ASSUME calm, moved, purpose = "rollback", pc' = "undo"
                 PROVE  target' = snapshot
      BY <2>1 DEF UndoneToSnapshot
    <3>1. \E p \in DOMAIN sets : IsPrevious(p) /\ sets[p] = snapshot
      BY <2>1 DEF UndoneToSnapshot
    <3> QED
      BY <2>5, <3>1, OnePrevious
  <2>8. RollbackRestores'
    BY <2>1 DEF RollbackRestores, RolledBack
  <2> QED
    BY <2>2, <2>3, <2>4, <2>6, <2>7, <2>8
<1>10. CASE PatchUndo
  <2>1. Merge(template, target) \in Templates
    BY MergeType DEF TypeOK
  <2>2. /\ pc = "undo"
        /\ UNCHANGED <<sets, revision, seen, target, snapshot, calm, moved, purpose>>
        /\ \/ template' = Merge(template, target) /\ status' = "COMPLETED"
              /\ pc' = IF purpose = "action" THEN "verify" ELSE "rolled_back"
           \/ template' \in {Merge(template, target), template} /\ status' = "FAILED"
              /\ pc' = IF purpose = "action" THEN "idle" ELSE "rolled_back"
        /\ replaced' = IF purpose = "action" /\ calm /\ status' = "COMPLETED"
                         THEN {template} ELSE {}
    BY <1>10 DEF PatchUndo, Patch, UndoFailed
  <2>3. TypeOK' /\ CurrentIsNewest' /\ TemplatesDiffer'
    BY <2>1, <2>2 DEF TypeOK, CurrentIsNewest, TemplatesDiffer, Phases
  <2>4. SnapshotAtHand'
    BY <2>2 DEF SnapshotAtHand, StartsFromSnapshot, Acting, Settled
  <2>5. RollbackRestores'
    <3> SUFFICES ASSUME pc' = "rolled_back", status' = "COMPLETED", calm, moved
                 PROVE  /\ template'.image = snapshot.image
                        /\ snapshot.memory # Unset => template'.memory = snapshot.memory
      BY <2>2 DEF RollbackRestores, RolledBack
    <3>1. purpose = "rollback"
      BY <2>2 DEF TypeOK
    <3>2. target = snapshot
      BY <2>2, <3>1 DEF UndoneToSnapshot
    <3>3. template' = Merge(template, snapshot)
      BY <2>2, <3>2
    <3> QED
      BY <3>3, MergeRestores DEF TypeOK
  <2>6. ReplacedAtHand'
    <3> SUFFICES ASSUME purpose = "action", calm, template' = Merge(template, target)
                 PROVE  \E p \in DOMAIN sets : /\ IsPrevious(p) /\ sets[revision] = template
                                               /\ template' = Merge(template, sets[p])
      BY <2>2 DEF ReplacedAtHand, IsPrevious
    <3> QED
      BY <2>2 DEF UndoReads, StartsFromSnapshot, Acting, Settled
  <2> QED
    BY <2>2, <2>3, <2>4, <2>5, <2>6
    DEF StartsFromSnapshot, Acting, SeenIsCurrent, UndoneToSnapshot, UndoReads, NoResultYet
<1>11. CASE Close
  BY <1>11 DEF Close, cluster, histories, TypeOK, CurrentIsNewest, TemplatesDiffer, Phases,
               SeenIsCurrent, StartsFromSnapshot, Acting, SnapshotAtHand, UndoneToSnapshot,
               RollbackRestores, RolledBack, UndoReads, NoResultYet, ReplacedAtHand,
               IsPrevious, Settled
<1>12. CASE UNCHANGED vars
  BY <1>12 DEF vars, cluster, executor, histories, TypeOK, CurrentIsNewest, TemplatesDiffer,
               SeenIsCurrent, StartsFromSnapshot, Acting, Settled, SnapshotAtHand, IsPrevious,
               UndoneToSnapshot, RollbackRestores, RolledBack, UndoReads, NoResultYet,
               ReplacedAtHand
<1> QED
  BY <1>1, <1>2, <1>3, <1>5, <1>6, <1>7, <1>8, <1>9, <1>10, <1>11, <1>12 DEF Next

(* IInv is an invariant.                                                   *)
THEOREM Invariant == Spec => []IInv
BY InitInv, StepInv, PTL DEF Spec

(* The variables keep their types.                                         *)
THEOREM TypeCorrect == Spec => []TypeOK
<1>1. IInv => TypeOK
  BY DEF IInv
<1> QED
  BY Invariant, <1>1, PTL

(* A rollback that completed has put back the snapshot's image, and its    *)
(* limit if it had one: the executor's rollout_undo against snapshot.py.   *)
THEOREM RollbackIsRestoring == Spec => []RollbackRestores
<1>1. IInv => RollbackRestores
  BY DEF IInv
<1> QED
  BY Invariant, <1>1, PTL

(* What rollout_undo reads is never the current revision's template,       *)
(* whatever has been rolled out between its two reads.                     *)
THEOREM UndoIsReadingAnother == Spec => UndoReadsAnother
<1>1. IInv /\ [Next]_vars => [pc = "list" /\ pc' = "undo" => target' # sets[revision]]_vars
  <2> SUFFICES ASSUME IInv, [Next]_vars, pc = "list", pc' = "undo"
               PROVE  target' # sets[revision]
    OBVIOUS
  <2> USE DEF IInv
  <2>1. ReadPrevious
    BY DEF Next, Reconcile, Deploy, Capture, RestartDeployment, PatchMemoryLimit, UndoAction,
           UndoForRollback, PatchUndo, Close, executor, vars
  <2>2. PICK p \in DOMAIN sets : p < seen /\ target' = sets[p]
    BY <2>1 DEF ReadPrevious, UndoFailed, Listed, PreviousRevisions, Previous
  <2>3. p # revision
    BY <2>2 DEF SeenIsCurrent, TypeOK
  <2> QED
    BY <2>2, <2>3 DEF TemplatesDiffer, TypeOK
<1> QED
  BY <1>1, Invariant, PTL DEF Spec, UndoReadsAnother

(* Two ROLLOUT_UNDO in a row cancel out: the second one deploys again what *)
(* the first has taken away, however many revisions there are.             *)
THEOREM SecondUndoIsRedeploying == Spec => SecondUndoRedeploys
<1> DEFINE Redone == pc = "undo" /\ purpose = "action" /\ calm /\ status' = "COMPLETED" =>
              \A t \in replaced : /\ template'.image = t.image
                                 /\ t.memory # Unset => template'.memory = t.memory
<1>1. IInv /\ [Next]_vars => [Redone]_vars
  <2> SUFFICES ASSUME IInv, [Next]_vars, pc = "undo", purpose = "action", calm,
                      status' = "COMPLETED", vars' # vars, NEW t \in replaced
               PROVE  /\ template'.image = t.image
                      /\ t.memory # Unset => template'.memory = t.memory
    OBVIOUS
  <2> USE DEF IInv
  <2>1. status # "COMPLETED"
    BY DEF NoResultYet, Acting
  <2>2. PatchUndo
    BY <2>1 DEF Next, Reconcile, Deploy, Capture, RestartDeployment, PatchMemoryLimit,
                UndoAction, UndoForRollback, ReadPrevious, Close, executor
  <2>3. template' = Merge(template, target)
    BY <2>2 DEF PatchUndo, Patch
  <2>4. PICK p \in DOMAIN sets : IsPrevious(p) /\ target = sets[p]
    BY DEF UndoReads
  <2>5. /\ template = sets[revision]
        /\ \/ sets[revision] = t /\ template = Merge(t, sets[p])
           \/ sets[p] = t
    BY <2>4, OnePrevious DEF ReplacedAtHand, StartsFromSnapshot, Acting, Settled
  <2>6. t \in Templates /\ template \in Templates /\ target \in Templates
    BY DEF TypeOK
  <2> QED
    BY <2>3, <2>4, <2>5, <2>6, MergeRestores
<1> QED
  BY <1>1, Invariant, PTL DEF Spec, SecondUndoRedeploys
=============================================================================
