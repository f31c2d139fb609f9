--------------------------- MODULE CircuitBreaker ---------------------------
(***************************************************************************)
(* The circuit breaker of the executor (executor/circuit_breaker.py): its  *)
(* two fields and its three methods.  A method is an action on the fields; *)
(* the modules that extend this one say who calls it, and when.            *)
(*                                                                         *)
(* The clock is the time.time() that every method reads when its caller    *)
(* passes no time.  It is assumed not to run backwards.                    *)
(***************************************************************************)
EXTENDS Deque

CONSTANTS
    Threshold,    \* circuit_fail_threshold: failures that trip the breaker
    WindowS,      \* circuit_window_s: how long a failure counts
    CooldownS     \* circuit_cooldown_s: how long a tripped breaker blocks

ASSUME BreakerConstants ==
    /\ Threshold \in Nat \ {0}
    /\ WindowS \in Nat
    /\ CooldownS \in Nat \ {0}

VARIABLES
    now,          \* the wall clock, in the unit of WindowS and CooldownS
    failures,     \* _failures, oldest first
    openedAt      \* _opened_at

breakerVars == <<failures, openedAt>>

\* Python's None for _opened_at: no time, so no natural number.
None == -1

BreakerTypeOK ==
    /\ now \in Times
    /\ failures \in Seq(Times)
    /\ openedAt \in Times \cup {None}

BreakerInit ==
    /\ failures = << >>
    /\ openedAt = None

-----------------------------------------------------------------------------
CooledDown == now - openedAt >= CooldownS

\* Mutant of IsOpenFalse: going half-open keeps the failures.
IsOpenFalseKeeping ==
    \/ openedAt = None /\ UNCHANGED breakerVars
    \/ openedAt # None /\ CooledDown /\ openedAt' = None /\ UNCHANGED failures

(* is_open() returning FALSE.  A breaker whose cooldown is over goes       *)
(* half-open: it forgets the trip and every failure.                       *)
IsOpenFalse ==
    \/ /\ openedAt = None
       /\ UNCHANGED breakerVars
    \/ /\ openedAt # None
       /\ CooledDown
       /\ openedAt' = None
       /\ failures' = << >>

(* is_open() returning TRUE.                                               *)
IsOpenTrue ==
    /\ openedAt # None
    /\ ~CooledDown
    /\ UNCHANGED breakerVars

\* Mutant of RecordFailure: the cutoff is appended instead of the time.
RecordFailureAtCutoff ==
    /\ failures' = DropOld(Append(failures, now - WindowS), now - WindowS)
    /\ openedAt' = IF openedAt = None /\ Len(failures') >= Threshold
                     THEN now
                     ELSE openedAt

\* Mutant of RecordFailure: a failure of an open breaker restarts the cooldown.
RecordFailureRetripping ==
    /\ failures' = DropOld(Append(failures, now), now - WindowS)
    /\ openedAt' = IF Len(failures') >= Threshold THEN now ELSE openedAt

(* record_failure(): append, drop what left the window, trip if closed.    *)
RecordFailure ==
    /\ failures' = DropOld(Append(failures, now), now - WindowS)
    /\ openedAt' = IF openedAt = None /\ Len(failures') >= Threshold
                     THEN now
                     ELSE openedAt

(* record_success(): forget the failures; the trip time is left alone.     *)
RecordSuccess ==
    /\ failures' = << >>
    /\ UNCHANGED openedAt
=============================================================================
