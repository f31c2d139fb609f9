------------------------------ MODULE WatchLoop ------------------------------
(***************************************************************************)
(* The production loop of the executor, watch_loop (executor/main.py), and *)
(* the SQS telemetry buffer it drains (executor/sqs_source.py; the queue   *)
(* as infra/modules/audit/main.tf configures it).                          *)
(*                                                                         *)
(* handle_incident is the call HandleContract describes: it may change the *)
(* cluster once, and returns unless the process dies.  Incident shows that *)
(* the handler keeps that contract.                                        *)
(*                                                                         *)
(* Time is relative: the loop compares time.monotonic() only with the time *)
(* of a deployment's last heal, so left[k] is what remains of its cooldown *)
(* and the model needs no bound on the clock.                              *)
(***************************************************************************)
EXTENDS Integers, FiniteSets

CONSTANTS
    Deployments,  \* the "namespace/deployment" keys
    Messages,     \* the telemetry messages, one signal each
    Malformed,    \* stands for a body that _group cannot route
    KeyOf,        \* the key _group finds in the body of each message
    Nobody,       \* no deployment is being handled
    MaxBatch,     \* sqs_max_messages
    MaxReceive,   \* maxReceiveCount of the redrive policy
    MaxPods,      \* bound on the failing pods of a deployment
    CooldownS,    \* heal_cooldown_s
    BootLeft,     \* CooldownS minus the host's uptime at start, at least 0
    MaxFaults     \* bound on crashes, failed deletes and expired messages

ASSUME LoopConstants ==
    /\ Malformed \notin Deployments /\ Nobody \notin Deployments
    /\ KeyOf \in [Messages -> Deployments \cup {Malformed}]
    /\ MaxBatch \in Nat /\ MaxReceive \in Nat \ {0}
    /\ MaxPods \in Nat \ {0}
    /\ CooldownS \in Nat \ {0} /\ BootLeft \in 0 .. CooldownS
    /\ MaxFaults \in Nat

VARIABLES
    queue,       \* where SQS has each message
    received,    \* ApproximateReceiveCount of each message
    faulty,      \* deployments with failing pods
    pc,          \* where watch_loop is; "down": the process is dead
    source,      \* which of the two sources the current call came from
    current,     \* the deployment being handled or acked
    batch,       \* the drained incidents: the messages of each key
    events,      \* the fault events of the last poll not yet looked at
    left,        \* ticks for which _cooled(key) still holds
    bootLeft,    \* ticks for which a key with no heal counts as cooled
    change,      \* the current call has changed the cluster
    faults,      \* crashes, failed deletes and expired messages so far
    quiet,       \* history: ticks since this process last handled the key
    served,      \* history: messages handled, or skipped by the cooldown
    executed     \* history: cluster changes made for each message

sqsVars == <<queue, received>>
memory == <<source, current, batch, events, left, change>>
history == <<quiet, served, executed>>
vars == <<sqsVars, faulty, pc, memory, bootLeft, faults, history>>

WellFormed == {m \in Messages : KeyOf[m] \in Deployments}

MessageStates == {"unsent", "visible", "inflight", "deleted", "dead", "expired"}
Phases == {"drain", "batch", "handle", "ack", "poll", "events", "down"}

TypeOK ==
    /\ queue \in [Messages -> MessageStates]
    /\ received \in [Messages -> 0 .. MaxReceive]
    /\ faulty \subseteq Deployments
    /\ pc \in Phases
    /\ source \in {"sqs", "poll"}
    /\ current \in Deployments \cup {Nobody}
    /\ batch \in [Deployments -> SUBSET Messages]
    /\ events \in [Deployments -> 0 .. MaxPods]
    /\ left \in [Deployments -> 0 .. CooldownS]
    /\ bootLeft \in 0 .. CooldownS
    /\ change \in BOOLEAN
    /\ faults \in 0 .. MaxFaults
    /\ quiet \in [Deployments -> 0 .. CooldownS]
    /\ served \subseteq Messages
    /\ executed \in [Messages -> 0 .. MaxReceive]

NoBatch == [k \in Deployments |-> {}]
NoEvents == [k \in Deployments |-> 0]

Init ==
    /\ queue = [m \in Messages |-> "unsent"]
    /\ received = [m \in Messages |-> 0]
    /\ faulty = {}
    /\ pc = "drain"
    /\ source = "sqs"
    /\ current = Nobody
    /\ batch = NoBatch
    /\ events = NoEvents
    /\ left = [k \in Deployments |-> BootLeft]
    /\ bootLeft = BootLeft
    /\ change = FALSE
    /\ faults = 0
    /\ quiet = [k \in Deployments |-> CooldownS]
    /\ served = {}
    /\ executed = [m \in Messages |-> 0]

-----------------------------------------------------------------------------
(* The environment: the forwarder, SQS, the cluster and the clock.         *)

\* The forwarder's send_message.
Send(m) ==
    /\ queue[m] = "unsent"
    /\ queue' = [queue EXCEPT ![m] = "visible"]
    /\ UNCHANGED <<received, faulty, pc, memory, bootLeft, faults, history>>

\* The visibility timeout (30 s) is shorter than one verify window (120 s), so
\* it may end whether or not the receiver is still at work.
VisibilityEnds(m) ==
    /\ queue[m] = "inflight"
    /\ queue' = [queue EXCEPT ![m] = "visible"]
    /\ UNCHANGED <<received, faulty, pc, memory, bootLeft, faults, history>>

\* A receive finds a message received maxReceiveCount times: to the DLQ.
Redrive(m) ==
    /\ pc = "drain"
    /\ queue[m] = "visible"
    /\ received[m] = MaxReceive
    /\ queue' = [queue EXCEPT ![m] = "dead"]
    /\ UNCHANGED <<received, faulty, pc, memory, bootLeft, faults, history>>

\* message_retention_seconds: the queue drops a message it has held for an
\* hour, whether or not a receiver is at work on it.
Expire(m) ==
    /\ queue[m] \in {"visible", "inflight"}
    /\ faults < MaxFaults
    /\ faults' = faults + 1
    /\ queue' = [queue EXCEPT ![m] = "expired"]
    /\ UNCHANGED <<received, faulty, pc, memory, bootLeft, history>>

PodsFail(k) ==
    /\ faulty' = faulty \cup {k}
    /\ UNCHANGED <<sqsVars, pc, memory, bootLeft, faults, history>>

PodsRecover(k) ==
    /\ faulty' = faulty \ {k}
    /\ UNCHANGED <<sqsVars, pc, memory, bootLeft, faults, history>>

Less(n) == IF n = 0 THEN 0 ELSE n - 1
More(n) == IF n = CooldownS THEN CooldownS ELSE n + 1

Tick ==
    /\ left' = [k \in Deployments |-> Less(left[k])]
    /\ bootLeft' = Less(bootLeft)
    /\ quiet' = [k \in Deployments |-> More(quiet[k])]
    /\ UNCHANGED <<sqsVars, faulty, pc, source, current, batch, events, change,
                   faults, served, executed>>

-----------------------------------------------------------------------------
(* The loop.                                                               *)

\* Mutant of Cooled: the comparison with the cooldown is never false.
CooledAlways(k) == left[k] >= 0

\* _cooled(key): the last heal is less than heal_cooldown_s ago.
Cooled(k) == left[k] > 0

\* Mutant of Drain: the messages are deleted as they are received.
DrainDeleting(S) ==
    /\ pc = "drain"
    /\ \A m \in S : queue[m] = "visible" /\ received[m] < MaxReceive
    /\ Cardinality(S) <= MaxBatch
    /\ queue' = [m \in Messages |-> IF m \in S THEN "deleted" ELSE queue[m]]
    /\ received' = [m \in Messages |-> IF m \in S THEN received[m] + 1 ELSE received[m]]
    /\ batch' = [k \in Deployments |-> {m \in S : KeyOf[m] = k}]
    /\ pc' = "batch"
    /\ UNCHANGED <<faulty, source, current, events, left, change, bootLeft, faults, history>>

\* drain() and _group: one ReceiveMessage, the routable messages grouped by
\* key, the others left in flight.  No message, or an SQS error, is S = {}.
Drain(S) ==
    /\ pc = "drain"
    /\ \A m \in S : queue[m] = "visible" /\ received[m] < MaxReceive
    /\ Cardinality(S) <= MaxBatch
    /\ queue' = [m \in Messages |-> IF m \in S THEN "inflight" ELSE queue[m]]
    /\ received' = [m \in Messages |-> IF m \in S THEN received[m] + 1 ELSE received[m]]
    /\ batch' = [k \in Deployments |-> {m \in S : KeyOf[m] = k}]
    /\ pc' = "batch"
    /\ UNCHANGED <<faulty, source, current, events, left, change, bootLeft, faults, history>>

\* Mutant of SkipCooled: the skipped incident is not acked.
SkipCooledUnacked(k) ==
    /\ pc = "batch"
    /\ batch[k] # {}
    /\ Cooled(k)
    /\ batch' = [batch EXCEPT ![k] = {}]
    /\ UNCHANGED <<sqsVars, faulty, pc, source, current, events, left, change,
                   bootLeft, faults, history>>

\* A drained incident whose deployment is cooling down is acked unhandled.
SkipCooled(k) ==
    /\ pc = "batch"
    /\ batch[k] # {}
    /\ Cooled(k)
    /\ current' = k
    /\ pc' = "ack"
    /\ served' = served \cup batch[k]
    /\ UNCHANGED <<sqsVars, faulty, source, batch, events, left, change, bootLeft,
                   faults, quiet, executed>>

Handle(k, src) ==
    /\ ~Cooled(k)
    /\ current' = k
    /\ source' = src
    /\ change' = FALSE
    /\ pc' = "handle"

HandleDrained(k) ==
    /\ pc = "batch"
    /\ batch[k] # {}
    /\ Handle(k, "sqs")
    /\ UNCHANGED <<sqsVars, faulty, batch, events, left, bootLeft, faults, history>>

\* The messages the current call of handle_incident is made for.
Current == IF source = "sqs" THEN batch[current] ELSE {}

\* handle_incident changes the cluster.
Change ==
    /\ pc = "handle"
    /\ ~change
    /\ change' = TRUE
    /\ executed' = [m \in Messages |-> executed[m] + IF m \in Current THEN 1 ELSE 0]
    /\ UNCHANGED <<sqsVars, faulty, pc, source, current, batch, events, left,
                   bootLeft, faults, quiet, served>>

\* Mutant of HandleReturns: only incidents of the queue start a cooldown.
HandleReturnsFromQueue ==
    /\ pc = "handle"
    /\ left' = IF source = "sqs" THEN [left EXCEPT ![current] = CooldownS] ELSE left
    /\ quiet' = [quiet EXCEPT ![current] = 0]
    /\ served' = served \cup Current
    /\ pc' = IF source = "sqs" THEN "ack" ELSE "events"
    /\ UNCHANGED <<sqsVars, faulty, source, current, batch, events, change,
                   bootLeft, faults, executed>>

\* Mutant of HandleReturns: the cooldown lasts a tick too long.
HandleReturnsLate ==
    /\ pc = "handle"
    /\ left' = [left EXCEPT ![current] = CooldownS + 1]
    /\ quiet' = [quiet EXCEPT ![current] = 0]
    /\ served' = served \cup Current
    /\ pc' = IF source = "sqs" THEN "ack" ELSE "events"
    /\ UNCHANGED <<sqsVars, faulty, source, current, batch, events, change,
                   bootLeft, faults, executed>>

\* handle_incident returns: the cooldown of the deployment starts.
HandleReturns ==
    /\ pc = "handle"
    /\ left' = [left EXCEPT ![current] = CooldownS]
    /\ quiet' = [quiet EXCEPT ![current] = 0]
    /\ served' = served \cup Current
    /\ pc' = IF source = "sqs" THEN "ack" ELSE "events"
    /\ UNCHANGED <<sqsVars, faulty, source, current, batch, events, change,
                   bootLeft, faults, executed>>

\* sqs.ack: delete_message_batch may fail for some entries or for all of them;
\* its answer is not looked at and its exception is swallowed.
Ack(D) ==
    /\ pc = "ack"
    /\ D \subseteq batch[current]
    /\ \/ D = batch[current] /\ UNCHANGED faults
       \/ D # batch[current] /\ faults < MaxFaults /\ faults' = faults + 1
    /\ queue' = [m \in Messages |->
                    IF m \in D /\ queue[m] # "expired" THEN "deleted" ELSE queue[m]]
    /\ batch' = [batch EXCEPT ![current] = {}]
    /\ current' = Nobody
    /\ pc' = "batch"
    /\ UNCHANGED <<received, faulty, source, events, left, change, bootLeft, history>>

\* Mutant of BatchDone: with SQS enabled the cluster is not polled.
BatchDoneUnpolled ==
    /\ pc = "batch"
    /\ batch = NoBatch
    /\ pc' = "drain"
    /\ UNCHANGED <<sqsVars, faulty, memory, bootLeft, faults, history>>

BatchDone ==
    /\ pc = "batch"
    /\ batch = NoBatch
    /\ pc' = "poll"
    /\ UNCHANGED <<sqsVars, faulty, memory, bootLeft, faults, history>>

\* collect_fault_events: one event for each failing pod.
Poll ==
    /\ pc = "poll"
    /\ events' \in [Deployments -> 0 .. MaxPods]
    /\ \A k \in Deployments : events'[k] > 0 <=> k \in faulty
    /\ pc' = "events"
    /\ UNCHANGED <<sqsVars, faulty, source, current, batch, left, change, bootLeft,
                   faults, history>>

NextEvent(k) ==
    /\ pc = "events"
    /\ events[k] > 0
    /\ events' = [events EXCEPT ![k] = @ - 1]

SkipEvent(k) ==
    /\ NextEvent(k)
    /\ Cooled(k)
    /\ UNCHANGED <<sqsVars, faulty, pc, source, current, batch, left, change,
                   bootLeft, faults, history>>

HandleEvent(k) ==
    /\ NextEvent(k)
    /\ Handle(k, "poll")
    /\ UNCHANGED <<sqsVars, faulty, batch, left, bootLeft, faults, history>>

\* Mutant of EventsDone: a loop that has polled goes on polling.
EventsDonePolling ==
    /\ pc = "events"
    /\ events = NoEvents
    /\ pc' = "poll"
    /\ UNCHANGED <<sqsVars, faulty, memory, bootLeft, faults, history>>

\* The loop starts over; with SQS the long poll is the only wait.
EventsDone ==
    /\ pc = "events"
    /\ events = NoEvents
    /\ pc' = "drain"
    /\ UNCHANGED <<sqsVars, faulty, memory, bootLeft, faults, history>>

\* The process dies: killed, or by an exception watch_loop does not catch.
Crash ==
    /\ pc # "down"
    /\ faults < MaxFaults
    /\ faults' = faults + 1
    /\ pc' = "down"
    /\ UNCHANGED <<sqsVars, faulty, memory, bootLeft, history>>

\* The container is started again with an empty cooldown map.
Restart ==
    /\ pc = "down"
    /\ pc' = "drain"
    /\ current' = Nobody
    /\ batch' = NoBatch
    /\ events' = NoEvents
    /\ left' = [k \in Deployments |-> bootLeft]
    /\ quiet' = [k \in Deployments |-> CooldownS]
    /\ UNCHANGED <<sqsVars, faulty, source, change, bootLeft, faults, served, executed>>

\* What the queue and the cluster do by themselves.
Surroundings ==
    \/ \E m \in Messages : VisibilityEnds(m) \/ Redrive(m) \/ Expire(m)
    \/ \E k \in Deployments : PodsFail(k) \/ PodsRecover(k)

Loop ==
    \/ \E S \in SUBSET Messages : Drain(S)
    \/ \E k \in Deployments : SkipCooled(k) \/ HandleDrained(k)
                              \/ SkipEvent(k) \/ HandleEvent(k)
    \/ Change
    \/ HandleReturns
    \/ \E D \in SUBSET Messages : Ack(D)
    \/ BatchDone
    \/ Poll
    \/ EventsDone
    \/ Restart

\* The steps in which no time passes.
Untimed == (\E m \in Messages : Send(m)) \/ Surroundings \/ Loop \/ Crash

Next == Untimed \/ Tick

Spec == Init /\ [][Next]_vars

\* A message the queue holds is not passed over for ever by ReceiveMessage.
Receive(m) == \E S \in SUBSET Messages : m \in S /\ Drain(S)

(* The loop runs, calls of handle_incident end, time passes, and SQS does  *)
(* what it promises.  Nothing makes a fault, a crash or a recovery happen. *)
Fairness ==
    /\ WF_vars(Loop)
    /\ WF_vars(HandleReturns)
    /\ WF_vars(Tick)
    /\ \A m \in Messages : /\ WF_vars(VisibilityEnds(m))
                           /\ SF_vars(Receive(m))
                           /\ SF_vars(Redrive(m))

FairSpec == Spec /\ Fairness

-----------------------------------------------------------------------------
(* Within one process no deployment is handled again before its cooldown   *)
(* is over, whichever of the two sources asks first.                       *)
HealsAreSpaced ==
    [][pc # "handle" /\ pc' = "handle" => quiet[current'] = CooldownS]_vars

(* At least once: a deleted message has been handled to the end, or was    *)
(* skipped by the cooldown of its own deployment.  No crash, visibility    *)
(* timeout or partly failed delete loses one.                              *)
DeletedWasServed == \A m \in Messages : queue[m] = "deleted" => m \in served

(* A drained incident is only dropped for a heal of the same deployment    *)
(* that this process finished less than a cooldown ago.                    *)
SkippedWasJustHealed ==
    [][pc = "batch" /\ pc' = "ack" => quiet[current'] < CooldownS]_vars

(* A routable message is received again only because a crash or a failed   *)
(* delete lost its ack; it reaches the DLQ only after MaxReceive of them.  *)
RedeliveryNeedsFault ==
    \A m \in WellFormed : /\ received[m] <= faults + 1
                          /\ queue[m] = "dead" => faults >= MaxReceive

(* Every message sent leaves the queue in the end: deleted, in the DLQ or  *)
(* past its retention.                                                     *)
EveryMessageSettles ==
    \A m \in Messages :
        queue[m] = "visible" ~> queue[m] \in {"deleted", "dead", "expired"}

(* A deployment whose pods keep failing is handled, even when no alert of  *)
(* it ever reaches the queue.                                              *)
FaultIsHandled ==
    \A k \in Deployments :
        k \in faulty ~> k \notin faulty \/ (pc = "handle" /\ current = k)

(* sqs_source.py:12-13: at-least-once delivery, and the idempotency lock   *)
(* keeps a redelivered message from changing the cluster a second time.    *)
NoDoubleExecute == \A m \in Messages : executed[m] <= 1

=============================================================================
