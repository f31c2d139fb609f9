------------------------------- MODULE Breaker -------------------------------
(***************************************************************************)
(* The circuit breaker driven by Executor.handle_incident (main.py): one   *)
(* incident at a time, which may fail in /v1/detect before the breaker is  *)
(* asked, is refused or admitted by is_open, and then succeeds, fails or   *)
(* ends in a way the breaker is not told of.                               *)
(***************************************************************************)
EXTENDS CircuitBreaker

CONSTANTS
    MaxTime,      \* bound on the clock
    MaxStreak     \* bound on the failures between two resets

ASSUME BoundConstants == MaxTime \in Nat /\ MaxStreak \in Nat

VARIABLES
    incident,     \* where the current incident stands with the breaker
    streak,       \* history: every failure since the last reset, none dropped
    trial         \* history: the current incident was let through half-open

vars == <<now, failures, openedAt, incident, streak, trial>>

Incidents == {"none", "healing", "refused"}

TypeOK ==
    /\ BreakerTypeOK
    /\ incident \in Incidents
    /\ streak \in Seq(Times)
    /\ trial \in BOOLEAN

Init ==
    /\ now = 1
    /\ BreakerInit
    /\ incident = "none"
    /\ streak = << >>
    /\ trial = FALSE

-----------------------------------------------------------------------------
Tick ==
    /\ now < MaxTime
    /\ now' = now + 1
    /\ UNCHANGED <<failures, openedAt, incident, streak, trial>>

\* main.py:80 with is_open() false: the incident goes on to /v1/decide.
Admit ==
    /\ incident = "none"
    /\ IsOpenFalse
    /\ incident' = "healing"
    /\ trial' = (openedAt # None)
    /\ streak' = IF openedAt # None THEN << >> ELSE streak
    /\ UNCHANGED now

\* main.py:80-83 with is_open() true: escalate as circuit_breaker_open.
Refuse ==
    /\ incident = "none"
    /\ IsOpenTrue
    /\ incident' = "refused"
    /\ UNCHANGED <<now, streak, trial>>

\* The refused incident has been escalated.
Escalated ==
    /\ incident = "refused"
    /\ incident' = "none"
    /\ UNCHANGED <<now, failures, openedAt, streak, trial>>

CountFailure ==
    /\ Len(streak) < MaxStreak
    /\ RecordFailure
    /\ streak' = Append(streak, now)
    /\ incident' = "none"
    /\ UNCHANGED now

\* An AIError of /v1/detect reaches record_failure without an is_open call.
DetectFailed ==
    /\ incident = "none"
    /\ CountFailure
    /\ UNCHANGED trial

\* execute failed, verify said ESCALATE, or /v1/decide or /v1/verify failed.
HealFailed ==
    /\ incident = "healing"
    /\ CountFailure
    /\ trial' = FALSE

\* verify said DONE.
HealSucceeded ==
    /\ incident = "healing"
    /\ RecordSuccess
    /\ incident' = "none"
    /\ streak' = << >>
    /\ trial' = FALSE
    /\ UNCHANGED now

\* Safety denial, 409, RETRY and ROLLBACK: the breaker is not told.
HealUncounted ==
    /\ incident = "healing"
    /\ incident' = "none"
    /\ trial' = FALSE
    /\ UNCHANGED <<now, failures, openedAt, streak>>

Next ==
    \/ Tick
    \/ Admit
    \/ Refuse
    \/ Escalated
    \/ DetectFailed
    \/ HealFailed
    \/ HealSucceeded
    \/ HealUncounted

Spec == Init /\ [][Next]_vars

-----------------------------------------------------------------------------
(* A closed breaker never holds enough failures to be open: whatever order *)
(* failures, successes, trips and half-open resets come in, no trip is     *)
(* left untaken and none is carried over a reset.                          *)
ClosedBelowThreshold == openedAt = None => Len(failures) < Threshold

(* The deque is the part of the streak that still counts: a suffix of it,  *)
(* in order, and every failure left out of it is older than the window.    *)
StreakInOrder ==
    \A i \in 1 .. Len(streak) :
        /\ streak[i] <= now
        /\ \A j \in i .. Len(streak) : streak[i] <= streak[j]

DequeIsStreakSuffix ==
    /\ Len(failures) <= Len(streak)
    /\ \A i \in 1 .. Len(failures) :
          failures[i] = streak[Len(streak) - Len(failures) + i]

ForgottenAreOld ==
    \A i \in 1 .. (Len(streak) - Len(failures)) : streak[i] < now - WindowS

DequeIsRecentStreak == StreakInOrder /\ DequeIsStreakSuffix /\ ForgottenAreOld

(* The last Threshold failures since a reset all lie in the window.        *)
ThresholdReached(s) ==
    /\ Len(s) >= Threshold
    /\ s[Len(s) - Threshold + 1] >= now - WindowS

(* A failure trips the breaker exactly when it is the Threshold-th one in  *)
(* the window since the last success or half-open reset: dropping old      *)
(* entries from the deque loses no failure that counts and keeps none that *)
(* does not, and an open breaker is not tripped again.                     *)
TripIffThresholdReached ==
    [][streak' # streak /\ streak' # << >> =>
         openedAt' = IF openedAt = None /\ ThresholdReached(streak')
                       THEN now ELSE openedAt]_vars

(* The breaker keeps the contract of BreakerContract: a trip blocks for a  *)
(* full cooldown, and the next incident after it is let through.           *)
Contract == INSTANCE BreakerContract
              WITH blockedUntil <- IF openedAt = None THEN 0 ELSE openedAt + CooldownS

ContractKept == Contract!Spec

(* circuit_breaker.py:9-10: a half-open breaker allows one trial, and the  *)
(* failure of that trial opens it again.                                   *)
FailedTrialReopens ==
    [][trial /\ incident = "healing" /\ streak' # streak /\ streak' # << >>
         => openedAt' # None]_vars

=============================================================================
