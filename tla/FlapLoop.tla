------------------------------ MODULE FlapLoop -------------------------------
(***************************************************************************)
(* The watch loop together with the flap tracker of the pre-decide gate    *)
(* (executor/pre_decide_gate.py): two guards of the same Executor against  *)
(* healing a deployment over and over, the loop's cooldown and the limit   *)
(* on the detections of a service in a sliding window.                     *)
(*                                                                         *)
(* Time is as relative as in WatchLoop: a hit of the tracker is its age.   *)
(***************************************************************************)
EXTENDS WatchLoop, Sequences

CONSTANTS
    ServiceKey,     \* the service key the engine answers for a deployment
    FlapWindowS,    \* flap_window_seconds
    FlapThreshold   \* flap_threshold

ASSUME FlapConstants ==
    /\ FlapWindowS \in Nat
    /\ FlapThreshold \in Nat \ {0}

VARIABLES
    ages,    \* the age of each hit in FlapTracker._hits, oldest first
    stage    \* how far the current call of handle_incident is

flapVars == <<vars, ages, stage>>

Services == {ServiceKey[k] : k \in Deployments}

\* Hits older than this are alike: the window and a cooldown are over.
Oldest == FlapWindowS + CooldownS + 1

FlapTypeOK ==
    /\ TypeOK
    /\ ages \in [Services -> Seq(0 .. Oldest)]
    /\ stage \in {"detect", "answered", "gated"}

NoHits == [s \in Services |-> <<>>]

FlapInit ==
    /\ Init
    /\ ages = NoHits
    /\ stage = "gated"

Age(a) == IF a = Oldest THEN Oldest ELSE a + 1
Aged(f) == [i \in DOMAIN f |-> Age(f[i])]

\* Time passes; the answer of /v1/detect takes some.
FlapTick ==
    /\ Tick
    /\ ages' = [s \in Services |-> Aged(ages[s])]
    /\ stage' = IF pc = "handle" /\ stage = "detect" THEN "answered" ELSE stage

\* The steps that take no time: a call of handle_incident starts with
\* /v1/detect, and a process that starts again has a new tracker.
FlapUntimed ==
    /\ Untimed
    /\ stage' = IF pc # "handle" /\ pc' = "handle" THEN "detect" ELSE stage
    /\ ages' = IF pc = "down" /\ pc' # "down" THEN NoHits ELSE ages

\* record_and_count, for an answer that is a confident anomaly: the hit is
\* appended, and the popleft loop stops at the i-th one, the first not older
\* than the window.
Track ==
    /\ pc = "handle"
    /\ stage = "answered"
    /\ stage' = "gated"
    /\ LET s == ServiceKey[current]
           hits == Append(ages[s], 0)
       IN  \E i \in DOMAIN hits :
              /\ \A j \in 1 .. (i - 1) : hits[j] > FlapWindowS
              /\ hits[i] <= FlapWindowS
              /\ ages' = [ages EXCEPT ![s] = SubSeq(hits, i, Len(hits))]
    /\ UNCHANGED vars

FlapNext == FlapTick \/ FlapUntimed \/ Track

FlapSpec == FlapInit /\ [][FlapNext]_flapVars

FairFlapSpec == FlapSpec /\ Fairness

-----------------------------------------------------------------------------
(* docs/02_infra_design.md:96 escalates a service that is detected the     *)
(* third time in ten minutes.  In the loop that never happens to a service *)
(* with one key: the cooldown, counted from the END of each call, has      *)
(* pushed the first hit out of the window before the third is made.  The   *)
(* tracker only ever fires for a service that several keys share, or for   *)
(* calls that do not come from the loop.                                   *)
FlappingIsUnreachable == \A s \in Services : Len(ages[s]) < FlapThreshold
=============================================================================
