-------------------------- MODULE AIClientProofs -----------------------------
(***************************************************************************)
(* AIClient, proved: one plan for a call, the quota of retries and whose   *)
(* lock a 409 is about, for every number of retries, 429 answers and calls. *)
(***************************************************************************)
EXTENDS AIClient, TLAPS

(* The engine has only seen keys that were drawn: a new one is not locked. *)
LocksAreDrawn == locked \subseteq 1 .. drawn

(* A request carries a key that was drawn, verify that of decide's answer. *)
KeyIsDrawn == pc = "post" \/ outcome = "answer" => key \in 1 .. drawn

(* Whoever has a plan has locked the key it was asked with.                *)
PlanHoldsTheLock ==
    /\ plans \in {0, 1}
    /\ plans = 1 => path = "decide" /\ key \in locked

(* While _post loops, attempt is the number of 500 answers.                *)
AttemptsAreErrors == pc = "post" => errors = attempt /\ outcome = "none"

(* Only the call under way, by an attempt answered 500, can have locked    *)
(* the key it sends with decide.                                           *)
LockIsItsOwn == pc = "post" /\ path = "decide" /\ key \in locked => errors > 0

IInv ==
    /\ TypeOK
    /\ LocksAreDrawn
    /\ KeyIsDrawn
    /\ PlanHoldsTheLock
    /\ AttemptsAreErrors
    /\ GivesUpAfterRetries
    /\ LockIsItsOwn
    /\ ConflictIsSelfInflicted

-----------------------------------------------------------------------------
(* A request of a call that already has a plan is refused, so working on   *)
(* one adds at most the first; the key stays locked.                       *)
LEMMA WorkedOnKeeps ==
    ASSUME IInv, MayBeWorkedOn, key \in 1 .. drawn, UNCHANGED <<path, key, drawn>>
    PROVE  /\ plans' \in Nat /\ locked' \subseteq 1 .. MaxKeys
           /\ LocksAreDrawn' /\ PlanHoldsTheLock'
<1>1. CASE NotWorkedOn
  BY <1>1 DEF NotWorkedOn, IInv, TypeOK, LocksAreDrawn, PlanHoldsTheLock
<1>2. ASSUME NEW planned \in BOOLEAN, WorkedOn(planned)
      PROVE  /\ plans' \in Nat /\ locked' \subseteq 1 .. MaxKeys
             /\ LocksAreDrawn' /\ PlanHoldsTheLock'
  <2>1. key \in 1 .. MaxKeys
    BY ClientConstants DEF IInv, TypeOK
  <2>2. CASE path = "decide"
    <3>1. plans = 0
      BY <1>2, <2>2 DEF WorkedOn, Refused, IInv, PlanHoldsTheLock
    <3> QED
      BY <1>2, <2>1, <2>2, <3>1 DEF WorkedOn, IInv, TypeOK, LocksAreDrawn, PlanHoldsTheLock
  <2>3. CASE path # "decide"
    BY <1>2, <2>3 DEF WorkedOn, IInv, TypeOK, LocksAreDrawn, PlanHoldsTheLock
  <2> QED
    BY <2>2, <2>3
<1> QED
  BY <1>1, <1>2 DEF MayBeWorkedOn

(* Init establishes the invariant.                                         *)
LEMMA InitInv == Init => IInv
BY ClientConstants DEF Init, IInv, TypeOK, LocksAreDrawn, KeyIsDrawn, PlanHoldsTheLock,
       AttemptsAreErrors, GivesUpAfterRetries, LockIsItsOwn, ConflictIsSelfInflicted, Paths, Errors

(* Every step keeps it.                                                    *)
LEMMA StepInv == IInv /\ [Next]_vars => IInv'
<1> SUFFICES ASSUME IInv, [Next]_vars PROVE IInv'
  OBVIOUS
<1> USE ClientConstants DEF IInv
<1>1. ASSUME NEW p \in Paths, Call(p) PROVE IInv'
  BY <1>1 DEF Call, TypeOK, Errors, LocksAreDrawn, KeyIsDrawn, PlanHoldsTheLock,
              AttemptsAreErrors, GivesUpAfterRetries, LockIsItsOwn, ConflictIsSelfInflicted
<1>2. WorkedOn(TRUE) => MayBeWorkedOn
  BY DEF MayBeWorkedOn
<1>3. NotWorkedOn => MayBeWorkedOn
  BY DEF MayBeWorkedOn
\* Every way a call ends but the one that follows the last 500 and a conflict.
<1>4. ASSUME NEW o \in (Errors \ {"AIInternalError", "AIConflict"}) \cup {"answer", "exception"},
             pc = "post", MayBeWorkedOn, End(o)
      PROVE  IInv'
  <2>1. TypeOK' /\ LocksAreDrawn' /\ PlanHoldsTheLock'
    BY <1>4, WorkedOnKeeps DEF End, KeyIsDrawn, TypeOK
  <2>2. KeyIsDrawn' /\ AttemptsAreErrors'
    BY <1>4 DEF End, KeyIsDrawn, AttemptsAreErrors
  <2>3. GivesUpAfterRetries'
    BY <1>4 DEF End, TypeOK, AttemptsAreErrors, GivesUpAfterRetries
  <2>4. LockIsItsOwn' /\ ConflictIsSelfInflicted'
    BY <1>4 DEF End, LockIsItsOwn, ConflictIsSelfInflicted
  <2> QED
    BY <2>1, <2>2, <2>3, <2>4
<1>5. CASE Answered
  BY <1>2, <1>4, <1>5 DEF Answered
<1>6. CASE Rejected
  BY <1>3, <1>4, <1>6 DEF Rejected, Rejections, Errors
<1>7. CASE Conflict
  <2>1. TypeOK' /\ LocksAreDrawn' /\ PlanHoldsTheLock'
    BY <1>3, <1>7, WorkedOnKeeps DEF Conflict, End, KeyIsDrawn, TypeOK, Errors
  <2>2. KeyIsDrawn' /\ AttemptsAreErrors' /\ GivesUpAfterRetries'
    BY <1>7 DEF Conflict, End, KeyIsDrawn, TypeOK, AttemptsAreErrors, GivesUpAfterRetries
  <2>3. LockIsItsOwn' /\ ConflictIsSelfInflicted'
    BY <1>7 DEF Conflict, Refused, NotWorkedOn, End, LockIsItsOwn, ConflictIsSelfInflicted
  <2> QED
    BY <2>1, <2>2, <2>3
<1>8. CASE Unavailable
  BY <1>4, <1>8 DEF Unavailable, Errors
<1>9. CASE Unreadable
  BY <1>4, <1>9 DEF Unreadable
<1>10. CASE RateLimited
  BY <1>10 DEF RateLimited, NotWorkedOn, TypeOK, LocksAreDrawn, KeyIsDrawn, PlanHoldsTheLock,
              AttemptsAreErrors, GivesUpAfterRetries, LockIsItsOwn, ConflictIsSelfInflicted
<1>11. CASE Failed
  <2>1. plans' \in Nat /\ locked' \subseteq 1 .. MaxKeys /\ LocksAreDrawn' /\ PlanHoldsTheLock'
    BY <1>11, WorkedOnKeeps DEF Failed, KeyIsDrawn
  <2>2. TypeOK'
    BY <1>11, <2>1 DEF Failed, TypeOK, Errors
  <2>3. KeyIsDrawn' /\ AttemptsAreErrors'
    BY <1>11 DEF Failed, TypeOK, KeyIsDrawn, AttemptsAreErrors
  <2>4. GivesUpAfterRetries'
    BY <1>11 DEF Failed, TypeOK, AttemptsAreErrors, GivesUpAfterRetries
  <2>5. LockIsItsOwn' /\ ConflictIsSelfInflicted'
    BY <1>11 DEF Failed, TypeOK, AttemptsAreErrors, LockIsItsOwn, ConflictIsSelfInflicted
  <2> QED
    BY <2>1, <2>2, <2>3, <2>4, <2>5
<1>12. CASE Return
  BY <1>12 DEF Return, TypeOK, LocksAreDrawn, KeyIsDrawn, PlanHoldsTheLock, AttemptsAreErrors,
               GivesUpAfterRetries, LockIsItsOwn, ConflictIsSelfInflicted
<1>13. CASE UNCHANGED vars
  BY <1>13 DEF vars, TypeOK, LocksAreDrawn, KeyIsDrawn, PlanHoldsTheLock, AttemptsAreErrors,
               GivesUpAfterRetries, LockIsItsOwn, ConflictIsSelfInflicted
<1> QED
  BY <1>1, <1>5, <1>6, <1>7, <1>8, <1>9, <1>10, <1>11, <1>12, <1>13 DEF Next, Post

(* IInv is an invariant.                                                   *)
THEOREM Invariant == Spec => []IInv
BY InitInv, StepInv, PTL DEF Spec

(* The variables of _post keep their types.                                *)
THEOREM TypeCorrect == Spec => []TypeOK
<1>1. IInv => TypeOK
  BY DEF IInv
<1> QED
  BY Invariant, <1>1, PTL

(* _post sends one idempotency key with every attempt, so the engine never *)
(* makes a second plan for a call.                                         *)
THEOREM AtMostOnePlan == Spec => []OnePlanPerCall
<1>1. IInv => OnePlanPerCall
  BY DEF IInv, PlanHoldsTheLock, OnePlanPerCall
<1> QED
  BY Invariant, <1>1, PTL

(* _post raises AIInternalError after http_500_max_retries + 1 answers     *)
(* 500, and never before.                                                  *)
THEOREM QuotaIsKept == Spec => []GivesUpAfterRetries
<1>1. IInv => GivesUpAfterRetries
  BY DEF IInv
<1> QED
  BY Invariant, <1>1, PTL

(* The 409 that handle_incident closes an incident for is never another's: *)
(* the engine has seen an earlier attempt of the very call.                *)
THEOREM ConflictsAreSelfInflicted == Spec => []ConflictIsSelfInflicted
<1>1. IInv => ConflictIsSelfInflicted
  BY DEF IInv
<1> QED
  BY Invariant, <1>1, PTL
=============================================================================
