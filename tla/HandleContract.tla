--------------------------- MODULE HandleContract ----------------------------
(***************************************************************************)
(* What a caller of Executor.handle_incident may count on, whatever the AI *)
(* engine, the cluster and the audit store answer: a call changes the      *)
(* cluster at most once, undoes only its own change and at most once, and  *)
(* changes nothing once it has escalated to a human; it then returns, or   *)
(* raises and takes the process with it, possibly with its change in place. *)
(***************************************************************************)
VARIABLES
    phase,     \* "idle", "running", "returned" or "crashed"
    change,    \* "none", "applied" or "undone": the cluster, by this call
    told       \* the call has escalated

vars == <<phase, change, told>>

Init == phase = "idle" /\ change = "none" /\ told = FALSE

Begin ==
    /\ phase = "idle"
    /\ phase' = "running"
    /\ UNCHANGED <<change, told>>

\* The answer of the cluster may be lost, so a call may escalate its own change.
Apply ==
    /\ phase = "running"
    /\ change = "none" /\ ~told
    /\ change' = "applied"
    /\ told' \in BOOLEAN
    /\ UNCHANGED phase

Undo ==
    /\ phase = "running"
    /\ change = "applied" /\ ~told
    /\ change' = "undone"
    /\ UNCHANGED <<phase, told>>

Escalate ==
    /\ phase = "running"
    /\ ~told
    /\ told' = TRUE
    /\ UNCHANGED <<phase, change>>

Finish ==
    /\ phase = "running"
    /\ phase' \in {"returned", "crashed"}
    /\ UNCHANGED <<change, told>>

\* The caller is ready for its next incident.
Forget ==
    /\ phase \in {"returned", "crashed"}
    /\ phase' = "idle"
    /\ change' = "none"
    /\ told' = FALSE

Next == Begin \/ Apply \/ Undo \/ Escalate \/ Finish \/ Forget

Spec == Init /\ [][Next]_vars
=============================================================================
