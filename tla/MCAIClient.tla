---------------------------- MODULE MCAIClient ------------------------------
(***************************************************************************)
(* AIClient for TLC: the two retries of the configuration, two 429 in any  *)
(* call, and keys for an incident that is decided and a second one.        *)
(***************************************************************************)
EXTENDS AIClient
=============================================================================
