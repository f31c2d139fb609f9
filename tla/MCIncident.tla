----------------------------- MODULE MCIncident ------------------------------
(***************************************************************************)
(* Incident for TLC.  The answers are one of each kind the handler tells   *)
(* apart: the detections cover every decision of the pre-decide gate, the  *)
(* plans cover every verdict of the safety gate, and the good ones include *)
(* a plan of two steps.  Two incidents trip the breaker and three make a   *)
(* service flap.                                                           *)
(***************************************************************************)
EXTENDS Incident

CONSTANTS TenantA, TenantB, Api

MCNamespaces == {TenantA}
MCServices == {Api}

Detection(a, c, s, k) == [anomaly |-> a, confidence |-> c, severity |-> s, service |-> k]

MCDetectAnswers ==
    { Detection(FALSE, 90, 90, Api),
      Detection(TRUE, 49, 90, Api),
      Detection(TRUE, 50, 70, Api),
      Detection(TRUE, 79, 69, Api),
      Detection(TRUE, 80, 10, Api),
      Detection(TRUE, 95, 90, NoContext) }

Act(a, n) == [action |-> a, namespace |-> n, replicas |-> Missing, memory |-> Missing]

Patch(n, mb) == [Act("PATCH_MEMORY_LIMIT", n) EXCEPT !.memory = mb]
Scale(n, r) == [Act("SCALE_REPLICAS", n) EXCEPT !.replicas = r]

Plan(pattern, items, allowed) ==
    [pattern |-> pattern, items |-> items, allowed |-> allowed, window |-> 120, impact |-> 25]

Restart1 == Plan("urgent", << Act("RESTART_DEPLOYMENT", TenantA) >>, {TenantA})

MCPlans ==
    { Restart1,
      Plan("urgent", << Patch(TenantA, 4), Act("ROLLOUT_UNDO", TenantA) >>, {TenantA}),
      Plan("deferred", << Scale(TenantA, 2) >>, {TenantA}),
      Plan("urgent", << Act("RESTART_DEPLOYMENT", TenantB) >>, {TenantB}),
      Plan("urgent", << Act("RESTART_DEPLOYMENT", TenantA), Act("DELETE_NAMESPACE", TenantA) >>,
           {TenantA}),
      Plan("urgent", << Patch(TenantA, 5) >>, {TenantA}),
      Plan("deferred", << Scale(TenantA, 0) >>, {TenantA}),
      Plan("urgent", << Scale(TenantA, 2) >>, {TenantA}),
      Plan("urgent", << Act("RESTART_DEPLOYMENT", Missing) >>, {TenantA}),
      Plan("urgent", << >>, {TenantA}),
      [Restart1 EXCEPT !.window = 0] }
=============================================================================
