---------------------------- MODULE BreakerProofs ----------------------------
(***************************************************************************)
(* Theorems about the circuit breaker, for every threshold, window and     *)
(* cooldown: type correctness, the exact condition under which it trips,   *)
(* and that it keeps BreakerContract.                                      *)
(***************************************************************************)
EXTENDS Breaker, Lemmas

-----------------------------------------------------------------------------
(* The inductive invariant: the deque is the recent part of the streak, and *)
(* a closed breaker holds fewer failures than the threshold.               *)
IInv == TypeOK /\ DequeIsRecentStreak /\ ClosedBelowThreshold

(* record_failure() keeps the tail of the deque, from the first entry that *)
(* has not left the window.                                                *)
LEMMA DropOldProperties ==
    ASSUME TypeOK
    PROVE  \E i \in 1 .. (Len(failures) + 1) :
             LET g == DropOld(Append(failures, now), now - WindowS) IN
             /\ g \in Seq(Times)
             /\ Len(g) = Len(failures) + 2 - i
             /\ \A k \in 1 .. Len(g) : g[k] = Append(failures, now)[i + k - 1]
             /\ \A j \in 1 .. (i - 1) : failures[j] < now - WindowS
             /\ Append(failures, now)[i] >= now - WindowS
BY RecordingProperties, BreakerConstants DEF TypeOK, BreakerTypeOK

(* What recording a failure does to the deque, the streak and the trip.    *)
LEMMA CountFailureStep ==
    ASSUME IInv, CountFailure
    PROVE  /\ failures' \in Seq(Times)
           /\ streak' \in Seq(Times)
           /\ openedAt' \in Times \cup {None}
           /\ DequeIsRecentStreak'
           /\ Len(failures') >= Threshold <=> ThresholdReached(streak')
           /\ ClosedBelowThreshold'
<1> DEFINE f == Append(failures, now)
           g == DropOld(f, now - WindowS)
           n == Len(streak)
           m == Len(failures)
<1>1. /\ now \in Nat /\ now' = now
      /\ WindowS \in Nat /\ Threshold \in Nat \ {0}
      /\ failures \in Seq(Times) /\ streak \in Seq(Times)
      /\ n \in Nat /\ m \in Nat
      /\ openedAt \in Times \cup {None}
  BY LenProperties, BreakerConstants
  DEF IInv, TypeOK, BreakerTypeOK, Times, CountFailure
<1>2. /\ failures' = g
      /\ streak' = Append(streak, now)
      /\ openedAt' = IF openedAt = None /\ Len(failures') >= Threshold
                       THEN now ELSE openedAt
  BY DEF CountFailure, RecordFailure
<1>3. /\ streak' \in Seq(Times)
      /\ Len(streak') = n + 1
      /\ streak'[n + 1] = now
      /\ \A j \in 1 .. n : streak'[j] = streak[j]
  BY <1>1, <1>2, AppendProperties DEF Times
<1>4. /\ \A j \in 1 .. m : f[j] = failures[j]
      /\ f[m + 1] = now
  BY <1>1, AppendProperties DEF Times
<1>5. PICK i \in 1 .. (m + 1) :
        /\ g \in Seq(Times)
        /\ Len(g) = m + 2 - i
        /\ \A k \in 1 .. Len(g) : g[k] = f[i + k - 1]
        /\ \A j \in 1 .. (i - 1) : failures[j] < now - WindowS
        /\ f[i] >= now - WindowS
  BY DropOldProperties DEF IInv
<1>6. /\ m <= n
      /\ \A j \in 1 .. m : failures[j] = streak[n - m + j]
      /\ \A j \in 1 .. (n - m) : streak[j] < now - WindowS
      /\ \A j \in 1 .. n : streak[j] <= now
      /\ \A j \in 1 .. n : \A k \in j .. n : streak[j] <= streak[k]
  BY DEF IInv, DequeIsRecentStreak, StreakInOrder, DequeIsStreakSuffix, ForgottenAreOld
<1>7. \A j \in 1 .. n : streak[j] \in Nat
  BY <1>1, ElementOfSeq DEF Times
<1> HIDE DEF f, g, n, m
\* The first kept entry sits at position n - m + i of the longer streak.
<1>8. StreakInOrder'
  <2>1. ASSUME NEW j \in 1 .. (n + 1)
        PROVE  streak'[j] <= now /\ \A k \in j .. (n + 1) : streak'[j] <= streak'[k]
    <3>1. CASE j = n + 1
      BY <1>1, <1>3, <3>1
    <3>2. CASE j \in 1 .. n
      <4>1. streak'[j] = streak[j] /\ streak[j] <= now
        BY <1>3, <1>6, <3>2
      <4>2. ASSUME NEW k \in j .. (n + 1)
            PROVE  streak'[j] <= streak'[k]
        <5>1. CASE k = n + 1
          BY <1>3, <4>1, <5>1
        <5>2. CASE k \in j .. n
          <6>1. k \in 1 .. n
            BY <1>1, <3>2, <5>2
          <6>2. QED
            BY <1>3, <1>6, <3>2, <4>1, <5>2, <6>1
        <5>3. QED
          BY <1>1, <5>1, <5>2
      <4>3. QED
        BY <4>1, <4>2
    <3>3. QED
      BY <1>1, <3>1, <3>2
  <2>2. QED
    BY <1>1, <1>3, <2>1 DEF StreakInOrder
<1>9. ASSUME NEW k \in 1 .. Len(g)
      PROVE  g[k] = streak'[n - m + i + k - 1]
  <2>1. /\ i + k - 1 \in 1 .. (m + 1)
        /\ g[k] = f[i + k - 1]
    BY <1>1, <1>5
  <2>2. CASE i + k - 1 = m + 1
    BY <1>1, <1>3, <1>4, <2>1, <2>2
  <2>3. CASE i + k - 1 \in 1 .. m
    <3>1. g[k] = streak[n - m + (i + k - 1)]
      BY <1>4, <1>6, <2>1, <2>3
    <3>2. n - m + (i + k - 1) \in 1 .. n
      BY <1>1, <1>6, <2>3
    <3>3. QED
      BY <1>1, <1>3, <3>1, <3>2
  <2>4. QED
    BY <1>1, <2>1, <2>2, <2>3
<1>10. DequeIsStreakSuffix'
  <2>1. Len(failures') <= n + 1
    BY <1>1, <1>2, <1>5, <1>6
  <2>2. ASSUME NEW k \in 1 .. Len(failures')
        PROVE  failures'[k] = streak'[Len(streak') - Len(failures') + k]
    <3>1. Len(streak') - Len(failures') + k = n - m + i + k - 1
      BY <1>1, <1>2, <1>3, <1>5
    <3>2. failures'[k] = streak'[n - m + i + k - 1]
      BY <1>2, <1>9
    <3>3. QED
      BY <3>1, <3>2
  <2>3. QED
    BY <1>3, <2>1, <2>2 DEF DequeIsStreakSuffix
<1>11. ASSUME NEW j \in 1 .. (n - m + i - 1)
       PROVE  streak'[j] < now - WindowS
  <2>1. j \in 1 .. n
    BY <1>1, <1>5, <1>6
  <2>2. CASE j <= n - m
    BY <1>1, <1>3, <1>6, <2>1, <2>2
  <2>3. CASE j > n - m
    <3>1. j - (n - m) \in 1 .. (i - 1) /\ j - (n - m) \in 1 .. m
      BY <1>1, <1>5, <1>6, <2>3
    <3>2. failures[j - (n - m)] = streak[j] /\ failures[j - (n - m)] < now - WindowS
      BY <1>1, <1>5, <1>6, <3>1
    <3>3. QED
      BY <1>3, <2>1, <3>2
  <2>4. QED
    BY <1>1, <2>1, <2>2, <2>3
<1>12. ForgottenAreOld'
  BY <1>1, <1>2, <1>3, <1>5, <1>11 DEF ForgottenAreOld
<1>13. Len(failures') >= Threshold <=> ThresholdReached(streak')
  <2>1. /\ Len(failures') = m + 2 - i
        /\ Len(streak') = n + 1
    BY <1>2, <1>3, <1>5
  <2>2. CASE m + 2 - i >= Threshold
    <3>1. n + 1 >= Threshold /\ n + 2 - Threshold \in (n - m + i) .. (n + 1)
      BY <1>1, <1>5, <1>6, <2>2
    <3>2. streak'[n - m + i] >= now - WindowS
      <4>1. 1 \in 1 .. Len(g)
        BY <1>1, <1>5
      <4>2. g[1] = f[i] /\ g[1] = streak'[n - m + i]
        BY <1>1, <1>5, <1>9, <4>1
      <4>3. QED
        BY <1>5, <4>2
    <3>3. /\ streak'[n - m + i] <= streak'[n + 2 - Threshold]
          /\ streak'[n - m + i] \in Nat /\ streak'[n + 2 - Threshold] \in Nat
      <4>1. n - m + i \in 1 .. (n + 1) /\ n + 2 - Threshold \in 1 .. (n + 1)
        BY <1>1, <1>5, <1>6, <3>1
      <4>2. QED
        BY <1>1, <1>3, <1>8, <3>1, <4>1, ElementOfSeq DEF StreakInOrder, Times
    <3>4. streak'[n + 2 - Threshold] >= now - WindowS
      BY <1>1, <3>2, <3>3
    <3>5. Len(streak') - Threshold + 1 = n + 2 - Threshold
      BY <1>1, <2>1
    <3>6. QED
      BY <1>1, <2>1, <2>2, <3>1, <3>4, <3>5 DEF ThresholdReached
  <2>3. CASE ~(m + 2 - i >= Threshold)
    <3>1. SUFFICES ASSUME n + 1 >= Threshold
                   PROVE  ~(streak'[n + 2 - Threshold] >= now - WindowS)
      <4>1. Len(streak') - Threshold + 1 = n + 2 - Threshold
        BY <1>1, <2>1
      <4>2. QED
        BY <1>1, <2>1, <2>3, <4>1 DEF ThresholdReached
    <3>2. n + 2 - Threshold \in 1 .. (n - m + i - 1)
      BY <1>1, <1>5, <1>6, <2>3, <3>1
    <3>3. streak'[n + 2 - Threshold] < now - WindowS
      BY <1>11, <3>2
    <3>4. streak'[n + 2 - Threshold] \in Nat
      BY <1>1, <1>3, <1>5, <1>6, <3>2, ElementOfSeq DEF Times
    <3>5. QED
      BY <1>1, <3>3, <3>4
  <2>4. QED
    BY <2>2, <2>3
<1>14. ClosedBelowThreshold' /\ openedAt' \in Times \cup {None}
  BY <1>1, <1>2, <1>5 DEF ClosedBelowThreshold, None, Times
<1>15. QED
  BY <1>2, <1>3, <1>5, <1>8, <1>10, <1>12, <1>13, <1>14 DEF DequeIsRecentStreak

LEMMA InitInv == Init => IInv
<1> SUFFICES ASSUME Init PROVE IInv
  OBVIOUS
<1>1. /\ failures = << >> /\ streak = << >> /\ now = 1
      /\ openedAt = None /\ incident = "none" /\ trial = FALSE
  BY DEF Init, BreakerInit
<1>2. TypeOK
  BY <1>1, EmptySeq DEF TypeOK, BreakerTypeOK, Incidents, Times
<1>3. DequeIsRecentStreak
  BY <1>1, EmptySeq
  DEF DequeIsRecentStreak, StreakInOrder, DequeIsStreakSuffix, ForgottenAreOld
<1>4. ClosedBelowThreshold
  BY <1>1, EmptySeq, BreakerConstants DEF ClosedBelowThreshold
<1>5. QED
  BY <1>2, <1>3, <1>4 DEF IInv

(* Steps that leave the failures and the clock alone, and steps that clear *)
(* the failures, keep the invariant.                                       *)
LEMMA UntouchedStep ==
    ASSUME IInv, UNCHANGED <<now, failures, openedAt, streak>>,
           incident' \in Incidents, trial' \in BOOLEAN
    PROVE  IInv'
BY DEF IInv, TypeOK, BreakerTypeOK, DequeIsRecentStreak, StreakInOrder,
       DequeIsStreakSuffix, ForgottenAreOld, ClosedBelowThreshold

LEMMA ClearedStep ==
    ASSUME IInv, UNCHANGED now, failures' = << >>, streak' = << >>,
           openedAt' \in {openedAt, None},
           incident' \in Incidents, trial' \in BOOLEAN
    PROVE  IInv'
<1>1. TypeOK'
  BY EmptySeq DEF IInv, TypeOK, BreakerTypeOK, Times
<1>2. DequeIsRecentStreak'
  BY EmptySeq
  DEF DequeIsRecentStreak, StreakInOrder, DequeIsStreakSuffix, ForgottenAreOld
<1>3. ClosedBelowThreshold'
  BY EmptySeq, BreakerConstants DEF ClosedBelowThreshold
<1>4. QED
  BY <1>1, <1>2, <1>3 DEF IInv

LEMMA CountedStep ==
    ASSUME IInv, CountFailure, trial' \in BOOLEAN
    PROVE  IInv'
<1>1. TypeOK'
  BY CountFailureStep
  DEF IInv, TypeOK, BreakerTypeOK, CountFailure, Incidents
<1>2. QED
  BY <1>1, CountFailureStep DEF IInv

LEMMA StepInv == IInv /\ [Next]_vars => IInv'
<1> SUFFICES ASSUME IInv, [Next]_vars PROVE IInv'
  OBVIOUS
<1>1. CASE Tick
  <2>1. /\ now \in Nat /\ now' = now + 1 /\ streak \in Seq(Times)
        /\ WindowS \in Nat /\ Len(streak) \in Nat /\ Len(failures) \in Nat
        /\ UNCHANGED <<failures, openedAt, incident, streak, trial>>
    BY <1>1, LenProperties, BreakerConstants DEF Tick, IInv, TypeOK, BreakerTypeOK, Times
  <2>2. \A i \in 1 .. Len(streak) : streak[i] \in Nat
    BY <2>1, ElementOfSeq DEF Times
  <2>3. TypeOK'
    BY <2>1 DEF IInv, TypeOK, BreakerTypeOK, Times
  <2>4. StreakInOrder'
    BY <2>1, <2>2 DEF IInv, DequeIsRecentStreak, StreakInOrder
  <2>5. ForgottenAreOld'
    <3>1. ASSUME NEW i \in 1 .. (Len(streak) - Len(failures))
          PROVE  streak[i] < now' - WindowS
      <4>1. i \in 1 .. Len(streak) /\ streak[i] < now - WindowS
        BY <2>1 DEF IInv, DequeIsRecentStreak, ForgottenAreOld
      <4>2. QED
        BY <2>1, <2>2, <4>1
    <3>2. QED
      BY <2>1, <3>1 DEF ForgottenAreOld
  <2>6. QED
    BY <2>1, <2>3, <2>4, <2>5
    DEF IInv, DequeIsRecentStreak, DequeIsStreakSuffix, ClosedBelowThreshold
<1>2. CASE Admit
  <2>1. CASE openedAt = None
    BY <1>2, <2>1, UntouchedStep
    DEF Admit, IsOpenFalse, breakerVars, Incidents
  <2>2. CASE openedAt # None
    BY <1>2, <2>2, ClearedStep DEF Admit, IsOpenFalse, Incidents
  <2>3. QED
    BY <2>1, <2>2
<1>3. CASE Refuse
  BY <1>3, UntouchedStep
  DEF Refuse, IsOpenTrue, breakerVars, Incidents, IInv, TypeOK
<1>4. CASE Escalated
  BY <1>4, UntouchedStep DEF Escalated, Incidents, IInv, TypeOK
<1>5. CASE DetectFailed
  BY <1>5, CountedStep DEF DetectFailed, IInv, TypeOK
<1>6. CASE HealFailed
  BY <1>6, CountedStep DEF HealFailed
<1>7. CASE HealSucceeded
  BY <1>7, ClearedStep DEF HealSucceeded, RecordSuccess, Incidents
<1>8. CASE HealUncounted
  BY <1>8, UntouchedStep DEF HealUncounted, Incidents
<1>9. CASE UNCHANGED vars
  BY <1>9, UntouchedStep DEF vars, IInv, TypeOK
<1>10. QED
  BY <1>1, <1>2, <1>3, <1>4, <1>5, <1>6, <1>7, <1>8, <1>9 DEF Next

(* The inductive invariant holds in every reachable state.                 *)
THEOREM Invariance == Spec => []IInv
<1>1. QED
  BY InitInv, StepInv, PTL DEF Spec

(* Every field of the breaker keeps its type: no None reaches the deque.   *)
THEOREM TypeCorrect == Spec => []TypeOK
<1>1. IInv => TypeOK
  BY DEF IInv
<1>2. QED
  BY <1>1, Invariance, PTL

(* No trip is left untaken and none is carried over a reset: a closed      *)
(* breaker holds fewer failures than the threshold.                        *)
THEOREM ClosedIsBelowThreshold == Spec => []ClosedBelowThreshold
<1>1. IInv => ClosedBelowThreshold
  BY DEF IInv
<1>2. QED
  BY <1>1, Invariance, PTL

(* The deque is exactly the part of the streak that can still count.       *)
THEOREM DequeIsExact == Spec => []DequeIsRecentStreak
<1>1. IInv => DequeIsRecentStreak
  BY DEF IInv
<1>2. QED
  BY <1>1, Invariance, PTL

-----------------------------------------------------------------------------
(* record_failure() trips the breaker exactly when the threshold is        *)
(* reached inside the window.                                              *)
THEOREM TripsExactlyAtThreshold == Spec => TripIffThresholdReached
<1> DEFINE Exact ==
      streak' # streak /\ streak' # << >> =>
        openedAt' = IF openedAt = None /\ ThresholdReached(streak')
                      THEN now ELSE openedAt
<1>1. IInv /\ [Next]_vars => [Exact]_vars
  <2> SUFFICES ASSUME IInv, Next, streak' # streak, streak' # << >>
               PROVE  openedAt' = IF openedAt = None /\ ThresholdReached(streak')
                                    THEN now ELSE openedAt
    BY DEF vars
  <2>1. DetectFailed \/ HealFailed
    BY DEF Next, Tick, Admit, Refuse, Escalated, HealSucceeded, HealUncounted
  <2>2. CountFailure
    BY <2>1 DEF DetectFailed, HealFailed
  <2>3. Len(failures') >= Threshold <=> ThresholdReached(streak')
    BY <2>2, CountFailureStep
  <2>4. QED
    BY <2>2, <2>3 DEF CountFailure, RecordFailure
<1>2. QED
  BY <1>1, Invariance, PTL DEF Spec, TripIffThresholdReached

(* The breaker implements its contract: a trip blocks every incident for a *)
(* full cooldown, and the next incident after it is let through.           *)
THEOREM KeepsContract == Spec => ContractKept
<1> DEFINE until == IF openedAt = None THEN 0 ELSE openedAt + CooldownS
<1>1. Init => Contract!Init
  BY DEF Init, BreakerInit, Contract!Init
<1>2. IInv /\ [Next]_vars => [Contract!Next]_(Contract!vars)
  <2> SUFFICES ASSUME IInv, [Next]_vars
               PROVE  [Contract!Next]_(Contract!vars)
    OBVIOUS
  <2>1. /\ now \in Nat /\ CooldownS \in Nat \ {0}
        /\ openedAt \in Nat \cup {None} /\ None = -1
    BY BreakerConstants DEF IInv, TypeOK, BreakerTypeOK, Times, None
  <2>2. CASE Tick
    BY <2>2 DEF Tick, Contract!Next, Contract!Tick
  <2>3. CASE Admit
    BY <2>1, <2>3
    DEF Admit, IsOpenFalse, breakerVars, CooledDown, Contract!Next, Contract!Admit
  <2>4. CASE Refuse
    BY <2>1, <2>4
    DEF Refuse, IsOpenTrue, breakerVars, CooledDown, Contract!Next, Contract!Refuse
  <2>5. CASE Escalated
    BY <2>5 DEF Escalated, Contract!Next, Contract!Close
  <2>6. CASE DetectFailed \/ HealFailed
    <3>1. /\ incident \in {"none", "healing"} /\ incident' = "none"
          /\ now' = now
          /\ openedAt' = openedAt \/ (openedAt = None /\ openedAt' = now)
      BY <2>6 DEF DetectFailed, HealFailed, CountFailure, RecordFailure
    <3>2. QED
      BY <2>1, <3>1 DEF Contract!Next, Contract!Fail
  <2>7. CASE HealSucceeded
    BY <2>7 DEF HealSucceeded, RecordSuccess, Contract!Next, Contract!Close
  <2>8. CASE HealUncounted
    BY <2>8 DEF HealUncounted, Contract!Next, Contract!Close
  <2>9. CASE UNCHANGED vars
    BY <2>9 DEF vars, Contract!vars
  <2>10. QED
    BY <2>2, <2>3, <2>4, <2>5, <2>6, <2>7, <2>8, <2>9 DEF Next
<1>3. QED
  BY <1>1, <1>2, Invariance, PTL DEF Spec, ContractKept, Contract!Spec
=============================================================================
