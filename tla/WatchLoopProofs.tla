-------------------------- MODULE WatchLoopProofs ----------------------------
(***************************************************************************)
(* WatchLoop, proved: what the runs check on two messages holds for every  *)
(* number of deployments, messages and faults and for every cooldown.      *)
(***************************************************************************)
EXTENDS WatchLoop, TLAPS

(* _group files a message under its own key.                               *)
BatchIsLocal == \A k \in Deployments : \A m \in batch[k] : KeyOf[m] = k

(* The batch is worked off before the cluster is polled.                   *)
BatchWorkedOff ==
    pc \in {"drain", "poll", "events"} \/ (pc = "handle" /\ source = "poll") =>
        batch = NoBatch

CurrentIsKnown == pc \in {"handle", "ack"} => current \in Deployments

(* Only what was handled or skipped is about to be deleted.                *)
AckedIsServed == pc = "ack" => batch[current] \subseteq served

(* The call under way has already made its one change for k.               *)
Spent(k) ==
    \/ pc = "down"
    \/ current = k /\ pc = "ack"
    \/ current = k /\ pc = "handle" /\ source = "sqs" /\ change

(* A message has at most one change for every time it was received.        *)
OneChangePerReceive ==
    /\ \A m \in Messages : executed[m] <= received[m]
    /\ \A k \in Deployments : \A m \in batch[k] : executed[m] < received[m] \/ Spent(k)

(* The cooldown map and the ticks since the last heal are complements;     *)
(* more may be left of a key only while the host is young.                 *)
CooldownKept ==
    /\ bootLeft <= BootLeft
    /\ \A k \in Deployments : /\ quiet[k] + left[k] >= CooldownS
                              /\ left[k] > bootLeft => quiet[k] + left[k] = CooldownS

(* The process still holds the receipt handle of m.                        *)
Held(m) == pc # "down" /\ m \in batch[KeyOf[m]]

(* Every receive of a routable message but one was lost to a fault, and    *)
(* that one only counts while its ack is outstanding or has succeeded; the *)
(* end of its retention is a fault too.                                    *)
ReceivesAccounted ==
    \A m \in WellFormed :
        /\ received[m] <= faults + 1
        /\ ~Held(m) /\ queue[m] # "deleted" => received[m] <= faults
        /\ queue[m] = "expired" => received[m] <= faults
        /\ queue[m] = "dead" => faults >= MaxReceive

IInv ==
    /\ TypeOK
    /\ BatchIsLocal
    /\ BatchWorkedOff
    /\ CurrentIsKnown
    /\ AckedIsServed
    /\ OneChangePerReceive
    /\ CooldownKept
    /\ ReceivesAccounted
    /\ DeletedWasServed

-----------------------------------------------------------------------------
(* Init establishes the invariant.                                         *)
LEMMA InitInv == Init => IInv
<1> SUFFICES ASSUME Init PROVE IInv
  OBVIOUS
<1> USE LoopConstants DEF Init
<1>1. TypeOK
  <2>1. received \in [Messages -> 0 .. MaxReceive] /\ executed \in [Messages -> 0 .. MaxReceive]
    OBVIOUS
  <2>2. left \in [Deployments -> 0 .. CooldownS] /\ quiet \in [Deployments -> 0 .. CooldownS]
    OBVIOUS
  <2>3. batch \in [Deployments -> SUBSET Messages] /\ events \in [Deployments -> 0 .. MaxPods]
    BY DEF NoBatch, NoEvents
  <2>4. faults \in 0 .. MaxFaults /\ bootLeft \in 0 .. CooldownS
    OBVIOUS
  <2>5. queue \in [Messages -> MessageStates]
    BY DEF MessageStates
  <2> QED
    BY <2>1, <2>2, <2>3, <2>4, <2>5 DEF TypeOK, Phases
<1>2. BatchIsLocal /\ BatchWorkedOff /\ CurrentIsKnown /\ AckedIsServed
  BY DEF BatchIsLocal, BatchWorkedOff, CurrentIsKnown, AckedIsServed, NoBatch
<1>3. OneChangePerReceive /\ CooldownKept
  BY DEF OneChangePerReceive, CooldownKept, NoBatch
<1>4. ReceivesAccounted /\ DeletedWasServed
  BY DEF ReceivesAccounted, WellFormed, DeletedWasServed
<1> QED
  BY <1>1, <1>2, <1>3, <1>4 DEF IInv

(* Every step keeps the invariant.                                         *)
LEMMA StepInv == IInv /\ [Next]_vars => IInv'
<1> SUFFICES ASSUME IInv, [Next]_vars PROVE IInv'
  OBVIOUS
<1> USE LoopConstants DEF IInv, WellFormed, sqsVars, memory, history
<1>1. ASSUME NEW m \in Messages, Send(m) PROVE IInv'
  BY <1>1 DEF Send, TypeOK, Phases, BatchIsLocal, BatchWorkedOff,
              CurrentIsKnown, AckedIsServed, OneChangePerReceive, Spent,
              CooldownKept, ReceivesAccounted, Held, DeletedWasServed,
              MessageStates
<1>2. ASSUME NEW m \in Messages, VisibilityEnds(m) PROVE IInv'
  BY <1>2 DEF VisibilityEnds, TypeOK, Phases, BatchIsLocal, BatchWorkedOff,
              CurrentIsKnown, AckedIsServed, OneChangePerReceive, Spent,
              CooldownKept, ReceivesAccounted, Held, DeletedWasServed,
              MessageStates
<1>3. ASSUME NEW m \in Messages, Redrive(m) PROVE IInv'
  <2>1. ReceivesAccounted'
    BY <1>3 DEF Redrive, TypeOK, ReceivesAccounted, Held, BatchIsLocal,
                BatchWorkedOff, CurrentIsKnown, NoBatch
  <2>2. TypeOK' /\ BatchIsLocal' /\ BatchWorkedOff' /\ CurrentIsKnown' /\
       AckedIsServed' /\ OneChangePerReceive' /\ CooldownKept' /\
       DeletedWasServed'
    BY <1>3 DEF Redrive, TypeOK, MessageStates, Phases, BatchIsLocal,
                BatchWorkedOff, CurrentIsKnown, AckedIsServed,
                OneChangePerReceive, Spent, CooldownKept, DeletedWasServed
  <2> QED
    BY <2>1, <2>2
<1>4. ASSUME NEW k \in Deployments, PodsFail(k) PROVE IInv'
  BY <1>4 DEF PodsFail, TypeOK, Phases, BatchIsLocal, BatchWorkedOff,
              CurrentIsKnown, AckedIsServed, OneChangePerReceive, Spent,
              CooldownKept, ReceivesAccounted, Held, DeletedWasServed,
              MessageStates
<1>5. ASSUME NEW k \in Deployments, PodsRecover(k) PROVE IInv'
  BY <1>5 DEF PodsRecover, TypeOK, Phases, BatchIsLocal, BatchWorkedOff,
              CurrentIsKnown, AckedIsServed, OneChangePerReceive, Spent,
              CooldownKept, ReceivesAccounted, Held, DeletedWasServed,
              MessageStates
<1>6. CASE Tick
  <2>1. TypeOK'
    BY <1>6 DEF Tick, Less, More, TypeOK, MessageStates, Phases
  <2>2. CooldownKept'
    BY <1>6 DEF Tick, Less, More, TypeOK, CooldownKept
  <2>3. BatchIsLocal' /\ BatchWorkedOff' /\ CurrentIsKnown' /\ AckedIsServed'
       /\ OneChangePerReceive' /\ ReceivesAccounted' /\ DeletedWasServed'
    BY <1>6 DEF Tick, Less, More, TypeOK, BatchIsLocal, BatchWorkedOff,
                CurrentIsKnown, AckedIsServed, OneChangePerReceive, Spent,
                ReceivesAccounted, Held, NoBatch, DeletedWasServed
  <2> QED
    BY <2>1, <2>2, <2>3
<1>7. ASSUME NEW S \in SUBSET Messages, Drain(S) PROVE IInv'
  <2>1. TypeOK'
    BY <1>7 DEF Drain, NoBatch, TypeOK, MessageStates, Phases
  <2>2. OneChangePerReceive'
    BY <1>7 DEF Drain, NoBatch, TypeOK, OneChangePerReceive, Spent,
                BatchWorkedOff
  <2>3. ReceivesAccounted'
    BY <1>7 DEF Drain, NoBatch, TypeOK, ReceivesAccounted, Held,
                BatchIsLocal, BatchWorkedOff, CurrentIsKnown
  <2>4. BatchIsLocal' /\ BatchWorkedOff' /\ CurrentIsKnown' /\ AckedIsServed'
       /\ CooldownKept' /\ DeletedWasServed'
    BY <1>7 DEF Drain, NoBatch, TypeOK, BatchIsLocal, BatchWorkedOff,
                CurrentIsKnown, AckedIsServed, CooldownKept,
                DeletedWasServed
  <2> QED
    BY <2>1, <2>2, <2>3, <2>4
<1>8. ASSUME NEW k \in Deployments, SkipCooled(k) PROVE IInv'
  <2>1. TypeOK'
    BY <1>8 DEF SkipCooled, TypeOK, MessageStates, Phases
  <2>2. AckedIsServed'
    BY <1>8 DEF SkipCooled, TypeOK, AckedIsServed
  <2>3. BatchIsLocal' /\ BatchWorkedOff' /\ CurrentIsKnown' /\
       OneChangePerReceive' /\ CooldownKept' /\ ReceivesAccounted' /\
       DeletedWasServed'
    BY <1>8 DEF SkipCooled, TypeOK, BatchIsLocal, BatchWorkedOff,
                CurrentIsKnown, OneChangePerReceive, Spent, CooldownKept,
                ReceivesAccounted, Held, NoBatch, DeletedWasServed,
                AckedIsServed
  <2> QED
    BY <2>1, <2>2, <2>3
<1>9. ASSUME NEW k \in Deployments, HandleDrained(k) PROVE IInv'
  BY <1>9 DEF HandleDrained, Handle, TypeOK, Phases, BatchIsLocal,
              BatchWorkedOff, CurrentIsKnown, AckedIsServed,
              OneChangePerReceive, Spent, CooldownKept, ReceivesAccounted,
              Held, DeletedWasServed, MessageStates
<1>10. CASE Change
  <2>1. current \in Deployments /\ Current \subseteq batch[current]
    BY <1>10 DEF Change, Current, CurrentIsKnown
  <2>2. /\ pc = "handle" /\ ~change /\ change'
        /\ \A m \in Messages :
              executed'[m] = executed[m] + IF m \in Current THEN 1 ELSE 0
        /\ DOMAIN executed' = Messages
        /\ executed' = [m \in Messages |-> executed'[m]]
    BY <1>10 DEF Change
  <2>3. \A m \in Messages : executed'[m] \in Nat /\ executed'[m] <= received[m]
    <3> SUFFICES ASSUME NEW m \in Messages
                 PROVE  executed'[m] \in Nat /\ executed'[m] <= received[m]
      OBVIOUS
    <3>1. executed[m] \in Nat /\ received[m] \in Nat
      BY DEF TypeOK
    <3>2. CASE m \in Current
      BY <2>1, <2>2, <3>1, <3>2 DEF OneChangePerReceive, Spent
    <3>3. CASE m \notin Current
      BY <2>2, <3>1, <3>3 DEF OneChangePerReceive
    <3> QED
      BY <3>2, <3>3
  <2>4. TypeOK'
    <3>1. \A m \in Messages : executed'[m] \in 0 .. MaxReceive
      BY <2>3 DEF TypeOK
    <3> QED
      BY <1>10, <2>2, <3>1 DEF Change, TypeOK
  <2>5. OneChangePerReceive'
    <3>1. ASSUME NEW k \in Deployments, NEW m \in batch[k]
          PROVE  executed'[m] < received[m] \/ Spent(k)'
      <4>1. m \in Messages
        BY DEF TypeOK
      <4>2. CASE current = k /\ source = "sqs"
        BY <1>10, <4>2 DEF Change, Spent
      <4>3. CASE current # k \/ source # "sqs"
        <5>1. executed[m] < received[m] /\ m \notin Current
          BY <2>1, <2>2, <4>3 DEF OneChangePerReceive, Spent, Current, BatchIsLocal
        <5> QED
          BY <2>2, <4>1, <5>1 DEF TypeOK
      <4> QED
        BY <4>2, <4>3
    <3> QED
      BY <1>10, <2>3, <3>1 DEF Change, OneChangePerReceive
  <2>6. BatchIsLocal' /\ BatchWorkedOff' /\ CurrentIsKnown' /\ AckedIsServed'
    BY <1>10 DEF Change, BatchIsLocal, BatchWorkedOff, CurrentIsKnown, AckedIsServed
  <2>7. CooldownKept' /\ ReceivesAccounted' /\ DeletedWasServed'
    BY <1>10 DEF Change, CooldownKept, ReceivesAccounted, Held, DeletedWasServed
  <2> QED
    BY <2>4, <2>5, <2>6, <2>7
<1>11. CASE HandleReturns
  <2>1. Current \subseteq Messages
    BY <1>11 DEF HandleReturns, Current, CurrentIsKnown, TypeOK
  <2>2. TypeOK'
    <3>1. served' \subseteq Messages
      BY <1>11, <2>1 DEF HandleReturns, TypeOK
    <3>2. 0 \in 0 .. CooldownS /\ CooldownS \in 0 .. CooldownS
      OBVIOUS
    <3>3. left' \in [Deployments -> 0 .. CooldownS]
      BY <1>11, <3>2 DEF HandleReturns, TypeOK
    <3>4. quiet' \in [Deployments -> 0 .. CooldownS]
      BY <1>11, <3>2 DEF HandleReturns, TypeOK
    <3> QED
      BY <1>11, <3>1, <3>3, <3>4 DEF HandleReturns, TypeOK, Phases
  <2>3. CooldownKept'
    BY <1>11 DEF HandleReturns, TypeOK, CooldownKept
  <2>4. BatchIsLocal' /\ BatchWorkedOff' /\ CurrentIsKnown' /\ AckedIsServed'
    BY <1>11 DEF HandleReturns, Current, TypeOK, BatchIsLocal, BatchWorkedOff,
                 CurrentIsKnown, AckedIsServed
  <2>5. OneChangePerReceive' /\ DeletedWasServed'
    BY <1>11 DEF HandleReturns, OneChangePerReceive, Spent, BatchWorkedOff, DeletedWasServed
  <2>6. ReceivesAccounted'
    BY <1>11 DEF HandleReturns, ReceivesAccounted, Held
  <2> QED
    BY <2>2, <2>3, <2>4, <2>5, <2>6
<1>12. ASSUME NEW D \in SUBSET Messages, Ack(D) PROVE IInv'
  <2>1. TypeOK'
    <3>1. faults' \in 0 .. MaxFaults
      BY <1>12 DEF Ack, TypeOK
    <3>2. queue' \in [Messages -> MessageStates]
      BY <1>12 DEF Ack, TypeOK, MessageStates
    <3>3. batch' \in [Deployments -> SUBSET Messages]
      BY <1>12 DEF Ack, TypeOK
    <3> QED
      BY <1>12, <3>1, <3>2, <3>3 DEF Ack, TypeOK, Phases
  <2>2. BatchIsLocal' /\ BatchWorkedOff' /\ CurrentIsKnown' /\ AckedIsServed'
    BY <1>12 DEF Ack, TypeOK, BatchIsLocal, BatchWorkedOff, CurrentIsKnown, AckedIsServed
  <2>3. OneChangePerReceive' /\ CooldownKept'
    BY <1>12 DEF Ack, TypeOK, OneChangePerReceive, Spent, CooldownKept
  <2>4. ReceivesAccounted'
    BY <1>12 DEF Ack, TypeOK, ReceivesAccounted, Held, BatchIsLocal, CurrentIsKnown
  <2>5. DeletedWasServed'
    BY <1>12 DEF Ack, TypeOK, DeletedWasServed, AckedIsServed
  <2> QED
    BY <2>1, <2>2, <2>3, <2>4, <2>5
<1>13. CASE BatchDone
  BY <1>13 DEF BatchDone, TypeOK, Phases, BatchIsLocal, BatchWorkedOff,
               CurrentIsKnown, AckedIsServed, OneChangePerReceive, Spent,
               CooldownKept, ReceivesAccounted, Held, DeletedWasServed,
               MessageStates
<1>14. CASE Poll
  BY <1>14 DEF Poll, TypeOK, Phases, BatchIsLocal, BatchWorkedOff,
               CurrentIsKnown, AckedIsServed, OneChangePerReceive, Spent,
               CooldownKept, ReceivesAccounted, Held, DeletedWasServed,
               MessageStates
<1>15. ASSUME NEW k \in Deployments, SkipEvent(k) PROVE IInv'
  BY <1>15 DEF SkipEvent, NextEvent, TypeOK, Phases, BatchIsLocal,
               BatchWorkedOff, CurrentIsKnown, AckedIsServed,
               OneChangePerReceive, Spent, CooldownKept, ReceivesAccounted,
               Held, DeletedWasServed, MessageStates
<1>16. ASSUME NEW k \in Deployments, HandleEvent(k) PROVE IInv'
  <2>1. TypeOK'
    <3>1. events' \in [Deployments -> 0 .. MaxPods]
      BY <1>16 DEF HandleEvent, NextEvent, TypeOK
    <3> QED
      BY <1>16, <3>1 DEF HandleEvent, Handle, TypeOK, Phases
  <2>2. BatchIsLocal' /\ BatchWorkedOff' /\ CurrentIsKnown' /\ AckedIsServed'
    BY <1>16 DEF HandleEvent, NextEvent, Handle, BatchIsLocal, BatchWorkedOff, CurrentIsKnown,
                 AckedIsServed
  <2>3. OneChangePerReceive' /\ CooldownKept' /\ ReceivesAccounted' /\ DeletedWasServed'
    BY <1>16 DEF HandleEvent, NextEvent, Handle, OneChangePerReceive, Spent, CooldownKept,
                 ReceivesAccounted, Held, DeletedWasServed
  <2> QED
    BY <2>1, <2>2, <2>3
<1>17. CASE EventsDone
  BY <1>17 DEF EventsDone, TypeOK, Phases, BatchIsLocal, BatchWorkedOff,
               CurrentIsKnown, AckedIsServed, OneChangePerReceive, Spent,
               CooldownKept, ReceivesAccounted, Held, DeletedWasServed,
               MessageStates
<1>18. CASE Crash
  BY <1>18 DEF Crash, TypeOK, Phases, BatchIsLocal, BatchWorkedOff,
               CurrentIsKnown, AckedIsServed, OneChangePerReceive, Spent,
               CooldownKept, ReceivesAccounted, Held, DeletedWasServed,
               MessageStates
<1>19. CASE Restart
  <2>1. TypeOK'
    BY <1>19 DEF Restart, NoBatch, NoEvents, TypeOK, MessageStates, Phases
  <2>2. CooldownKept'
    BY <1>19 DEF Restart, NoBatch, NoEvents, TypeOK, CooldownKept
  <2>3. BatchIsLocal' /\ BatchWorkedOff' /\ CurrentIsKnown' /\ AckedIsServed'
       /\ OneChangePerReceive' /\ ReceivesAccounted' /\ DeletedWasServed'
    BY <1>19 DEF Restart, NoBatch, NoEvents, TypeOK, BatchIsLocal,
                 BatchWorkedOff, CurrentIsKnown, AckedIsServed,
                 OneChangePerReceive, Spent, ReceivesAccounted, Held,
                 DeletedWasServed
  <2> QED
    BY <2>1, <2>2, <2>3
<1>20. CASE UNCHANGED vars
  BY <1>20 DEF vars, TypeOK, BatchIsLocal, BatchWorkedOff, CurrentIsKnown,
               AckedIsServed, OneChangePerReceive, Spent, CooldownKept,
               ReceivesAccounted, Held, DeletedWasServed
<1>21. ASSUME NEW m \in Messages, Expire(m) PROVE IInv'
  <2>1. TypeOK'
    BY <1>21 DEF Expire, TypeOK, MessageStates
  <2>2. ReceivesAccounted'
    BY <1>21 DEF Expire, TypeOK, ReceivesAccounted, Held
  <2>3. BatchIsLocal' /\ BatchWorkedOff' /\ CurrentIsKnown' /\ AckedIsServed'
       /\ OneChangePerReceive' /\ CooldownKept' /\ DeletedWasServed'
    BY <1>21 DEF Expire, TypeOK, BatchIsLocal, BatchWorkedOff, CurrentIsKnown,
                 AckedIsServed, OneChangePerReceive, Spent, CooldownKept, NoBatch,
                 DeletedWasServed
  <2> QED
    BY <2>1, <2>2, <2>3
<1> QED
  BY <1>1, <1>2, <1>3, <1>4, <1>5, <1>6, <1>7, <1>8, <1>9, <1>10, <1>11,
     <1>12, <1>13, <1>14, <1>15, <1>16, <1>17, <1>18, <1>19, <1>20, <1>21 DEF Next,
     Untimed, Surroundings, Loop

(* IInv is an invariant.                                                   *)
THEOREM Invariant == Spec => []IInv
BY InitInv, StepInv, PTL DEF Spec

(* The variables of the loop and of the queue keep their types.            *)
THEOREM TypeCorrect == Spec => []TypeOK
<1>1. IInv => TypeOK
  BY DEF IInv
<1> QED
  BY Invariant, <1>1, PTL

(* sqs_source.ack only deletes what handle_incident or the cooldown of the *)
(* same deployment has dealt with.                                         *)
THEOREM NoMessageIsLost == Spec => []DeletedWasServed
<1>1. IInv => DeletedWasServed
  BY DEF IInv
<1> QED
  BY Invariant, <1>1, PTL

(* A routable message comes back, and dead-letters, only for faults.       *)
THEOREM RedeliveryIsAFault == Spec => []RedeliveryNeedsFault
<1>1. IInv => RedeliveryNeedsFault
  BY DEF IInv, ReceivesAccounted, RedeliveryNeedsFault
<1> QED
  BY Invariant, <1>1, PTL

LEMMA SpacedStep ==
    ASSUME IInv, Next, pc # "handle", pc' = "handle"
    PROVE  quiet[current'] = CooldownS
<1>1. PICK k \in Deployments : HandleDrained(k) \/ HandleEvent(k)
  BY DEF Next, Untimed, Surroundings, Loop, Send, VisibilityEnds, Redrive, Expire, PodsFail,
         PodsRecover,
         Tick, Drain, SkipCooled, Change, HandleReturns, Ack, BatchDone, Poll, SkipEvent,
         EventsDone, Crash, Restart
<1>2. current' = k /\ left[k] = 0
  BY <1>1, LoopConstants DEF HandleDrained, HandleEvent, Handle, Cooled, IInv, TypeOK
<1> QED
  BY <1>2, LoopConstants DEF IInv, TypeOK, CooldownKept

(* watch_loop leaves heal_cooldown_s between two calls of handle_incident  *)
(* for one deployment, whichever source each of them came from.            *)
THEOREM HealsKeepTheirDistance == Spec => HealsAreSpaced
<1>1. IInv /\ [Next]_vars =>
        [pc # "handle" /\ pc' = "handle" => quiet[current'] = CooldownS]_vars
  BY SpacedStep
<1> QED
  BY Invariant, <1>1, PTL DEF Spec, HealsAreSpaced

LEMMA SkippingStep ==
    ASSUME IInv, Next, pc = "batch", pc' = "ack"
    PROVE  \E k \in Deployments : SkipCooled(k)
BY DEF Next, Untimed, Surroundings, Loop, Send, VisibilityEnds, Redrive, Expire, PodsFail,
       PodsRecover,
       Tick, Drain, HandleDrained, Handle, Change, HandleReturns, Ack, BatchDone, Poll,
       SkipEvent, HandleEvent, NextEvent, EventsDone, Crash, Restart, sqsVars, memory

(* On a host that is older than the cooldown a drained incident is skipped *)
(* only for a heal of its deployment less than a cooldown ago.             *)
THEOREM SkippedOnOldHost ==
    ASSUME BootLeft = 0
    PROVE  Spec => SkippedWasJustHealed
<1> DEFINE Healed == pc = "batch" /\ pc' = "ack" => quiet[current'] < CooldownS
<1>1. IInv /\ [Next]_vars => [Healed]_vars
  <2> SUFFICES ASSUME IInv, Next, pc = "batch", pc' = "ack"
               PROVE  quiet[current'] < CooldownS
    OBVIOUS
  <2>1. PICK k \in Deployments : SkipCooled(k)
    BY SkippingStep
  <2>2. current' = k /\ left[k] > 0
    BY <2>1 DEF SkipCooled, Cooled
  <2>3. bootLeft = 0
    BY LoopConstants DEF IInv, TypeOK, CooldownKept
  <2> QED
    BY <2>2, <2>3, LoopConstants DEF IInv, TypeOK, CooldownKept
<1> QED
  BY Invariant, <1>1, PTL DEF Spec, SkippedWasJustHealed

(* handle_incident is only ever called for messages _group could route.    *)
ChangedWasRouted == \A m \in Messages : executed[m] > 0 => m \in WellFormed

LEMMA RoutedStep == IInv /\ ChangedWasRouted /\ [Next]_vars => ChangedWasRouted'
<1> SUFFICES ASSUME IInv, ChangedWasRouted, [Next]_vars PROVE ChangedWasRouted'
  OBVIOUS
<1>1. CASE Change
  <2>1. ASSUME NEW m \in Messages, executed'[m] > 0 PROVE m \in WellFormed
    <3>1. executed'[m] = executed[m] + IF m \in Current THEN 1 ELSE 0
      BY <1>1 DEF Change
    <3>2. CASE m \in Current
      BY <1>1, <3>2 DEF Change, Current, IInv, CurrentIsKnown, BatchIsLocal, WellFormed
    <3>3. CASE m \notin Current
      BY <2>1, <3>1, <3>3 DEF ChangedWasRouted, IInv, TypeOK
    <3> QED
      BY <3>2, <3>3
  <2> QED
    BY <2>1 DEF ChangedWasRouted, WellFormed
<1>2. CASE ~Change
  <2>1. executed' = executed
    BY <1>2 DEF Next, Untimed, Surroundings, Loop, Send, VisibilityEnds, Redrive, Expire, PodsFail,
           PodsRecover, Tick, Drain, SkipCooled, HandleDrained, HandleReturns, Ack, BatchDone,
           Poll, SkipEvent, HandleEvent, EventsDone, Crash, Restart, vars, history
  <2> QED
    BY <2>1 DEF ChangedWasRouted, WellFormed
<1> QED
  BY <1>1, <1>2

(* A message has one change, and one more for every fault.                 *)
ChangesAccounted ==
    /\ \A m \in Messages : executed[m] <= faults + 1
    /\ faults = 0 => NoDoubleExecute

(* What is left of sqs_source.py:12-13 without a lock that remembers: a    *)
(* message changes the cluster once, and once more for every crash, failed *)
(* delete or lapsed retention, so with none of them it does so only once.  *)
THEOREM DoubleExecuteNeedsFault == Spec => []ChangesAccounted
<1>1. Init => ChangedWasRouted
  BY DEF Init, ChangedWasRouted
<1>2. IInv /\ ChangedWasRouted => ChangesAccounted
  <2> SUFFICES ASSUME IInv, ChangedWasRouted, NEW m \in Messages
               PROVE  executed[m] <= faults + 1
    BY DEF ChangesAccounted, NoDoubleExecute
  <2>1. executed[m] \in Nat /\ faults \in Nat /\ received[m] \in Nat
    BY LoopConstants DEF IInv, TypeOK
  <2>2. CASE executed[m] = 0
    BY <2>1, <2>2
  <2>3. CASE executed[m] > 0
    <3>1. executed[m] <= received[m] /\ received[m] <= faults + 1
      BY <2>3 DEF ChangedWasRouted, IInv, OneChangePerReceive, ReceivesAccounted
    <3> QED
      BY <2>1, <3>1
  <2> QED
    BY <2>1, <2>2, <2>3
<1> QED
  BY Invariant, RoutedStep, <1>1, <1>2, PTL DEF Spec
=============================================================================
