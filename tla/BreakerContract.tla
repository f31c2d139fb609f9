--------------------------- MODULE BreakerContract --------------------------
(***************************************************************************)
(* What the executor's incident loop may rely on when it asks the breaker, *)
(* with no list of failures: a trip blocks every incident for a full       *)
(* cooldown, the first incident asked after it is let through, and no      *)
(* second trip can prolong a block that has not been lifted yet.           *)
(***************************************************************************)
EXTENDS Integers

CONSTANT CooldownS

VARIABLES
    now,
    blockedUntil,   \* incidents are refused before this time; 0: not blocked
    incident        \* "none", "healing" or "refused"

vars == <<now, blockedUntil, incident>>

Init ==
    /\ now \in Nat \ {0}
    /\ blockedUntil = 0
    /\ incident = "none"

Admit ==
    /\ incident = "none"
    /\ now >= blockedUntil
    /\ incident' = "healing"
    /\ blockedUntil' = 0
    /\ UNCHANGED now

Refuse ==
    /\ incident = "none"
    /\ now < blockedUntil
    /\ incident' = "refused"
    /\ UNCHANGED <<now, blockedUntil>>

\* A failure, before or after admission, may trip a breaker that does not block.
Fail ==
    /\ incident \in {"none", "healing"}
    /\ incident' = "none"
    /\ \/ UNCHANGED blockedUntil
       \/ blockedUntil = 0 /\ blockedUntil' = now + CooldownS
    /\ UNCHANGED now

\* Any other end of an incident leaves the block as it is.
Close ==
    /\ incident # "none"
    /\ incident' = "none"
    /\ UNCHANGED <<now, blockedUntil>>

Tick ==
    /\ now' = now + 1
    /\ UNCHANGED <<blockedUntil, incident>>

Next == Admit \/ Refuse \/ Fail \/ Close \/ Tick

Spec == Init /\ [][Next]_vars
=============================================================================
