----------------------------- MODULE MCFlapLoop ------------------------------
(***************************************************************************)
(* FlapLoop for TLC: no queue is configured, the poll finds the faults of  *)
(* two deployments, each a service of its own.  The cooldown and the       *)
(* window are in the ratio of the defaults, 300 s to 600 s.                *)
(***************************************************************************)
EXTENDS FlapLoop

CONSTANTS Api, Worker

MCDeployments == {Api, Worker}
MCServiceKey == [k \in MCDeployments |-> k]
MCKeyOf == [m \in {} |-> Api]
=============================================================================
