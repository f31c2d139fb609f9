------------------------------ MODULE MCBreaker ------------------------------
(***************************************************************************)
(* Breaker for TLC.  A window and a cooldown of 3 ticks leave room,     *)
(* in 10 ticks, for failures that age out of the window, for a trip, for    *)
(* failures that arrive while the breaker is open, and for a second trip   *)
(* after the half-open reset.                                              *)
(***************************************************************************)
EXTENDS Breaker
=============================================================================
