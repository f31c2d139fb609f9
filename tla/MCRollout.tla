----------------------------- MODULE MCRollout ------------------------------
(***************************************************************************)
(* Rollout for TLC: two images, alike, two limits and three revisions      *)
(* leave room for a deployment without a limit, for a patch that changes   *)
(* nothing, for a ReplicaSet that is used again - a ROLLOUT_UNDO in the    *)
(* second revision and its rollback - and for a rollback of each action.   *)
(***************************************************************************)
EXTENDS Rollout, TLC

MCSymmetry == Permutations(Images)
=============================================================================
