------------------------------ MODULE Delivery -------------------------------
(***************************************************************************)
(* The way of an alert into the watch loop: Alertmanager notifies the      *)
(* forwarder (forwarder/forwarder.py), which puts one message for each     *)
(* signal into the queue WatchLoop drains.                                 *)
(*                                                                         *)
(* A message of Messages is a place in the queue for bodies of one key; it *)
(* is used again once its last body has left the queue.                    *)
(***************************************************************************)
EXTENDS WatchLoop, Forwarder

CONSTANTS
    Alerts,    \* the alerts the rules can raise, as Forwarder describes them
    About,     \* the deployment each alert is about
    Workloads, \* the keys of deployments that exist: only these have pods
    NoAlert    \* the body of a message did not come from an alert

\* _group: the (namespace, deployment) of a forwarded signal.
GroupKey(a) ==
    LET labels == AlertToSignal(a).labels
    IN  IF labels.namespace = Absent THEN Malformed
        ELSE <<labels.namespace, labels.deployment>>

ASSUME DeliveryConstants ==
    /\ NoAlert \notin Alerts
    /\ Workloads \subseteq Deployments
    /\ \A a \in Alerts : a.alertname \in DOMAIN SignalNames =>
           \E m \in Messages : KeyOf[m] = GroupKey(a)

VARIABLES
    firing,    \* the alerts that fire
    due,       \* the groups with a notification to make
    sending,   \* the alerts of the POST under way that are still to be sent
    cause,     \* history: the alert the body of a message came from
    healedFor  \* history: what the last handling of a key was about

alertVars == <<firing, due, sending>>
deliveryVars == <<vars, alertVars, cause, healedFor>>

\* Alertmanager's group_by.
Group(a) == <<Get(a.labels, "namespace"), a.alertname>>
Groups == {Group(a) : a \in Alerts}

DeliveryTypeOK ==
    /\ TypeOK
    /\ firing \subseteq Alerts
    /\ due \subseteq Groups
    /\ sending \subseteq Alerts
    /\ cause \in [Messages -> Alerts \cup {NoAlert}]
    /\ healedFor \in [Deployments -> SUBSET ({About[a] : a \in Alerts} \cup Deployments)]

NothingHealed == [k \in Deployments |-> {}]

DeliveryInit ==
    /\ Init
    /\ firing = {}
    /\ due = {}
    /\ sending = {}
    /\ cause = [m \in Messages |-> NoAlert]
    /\ healedFor = NothingHealed

-----------------------------------------------------------------------------
(* Alertmanager.                                                           *)

Fires(a) ==
    /\ a \notin firing
    /\ firing' = firing \cup {a}
    /\ due' = due \cup {Group(a)}
    /\ UNCHANGED <<vars, sending, cause, healedFor>>

\* With send_resolved the end of an alert is notified too, together with the
\* alerts of its group that still fire.
Resolves(a) ==
    /\ a \in firing
    /\ firing' = firing \ {a}
    /\ due' = due \cup {Group(a)}
    /\ UNCHANGED <<vars, sending, cause, healedFor>>

\* Mutant of Repeat: a firing group is notified only once.
RepeatNever(g) ==
    /\ \E a \in firing : Group(a) = g
    /\ g \in due
    /\ due' = due
    /\ UNCHANGED <<vars, firing, sending, cause, healedFor>>

\* The repeat_interval of a group that still fires is over.
Repeat(g) ==
    /\ \E a \in firing : Group(a) = g
    /\ g \notin due
    /\ due' = due \cup {g}
    /\ UNCHANGED <<vars, firing, sending, cause, healedFor>>

Status(a) == IF a \in firing THEN "firing" ELSE "resolved"

-----------------------------------------------------------------------------
(* The forwarder.                                                          *)

\* do_POST up to _send_signals, one request at a time.  A value that overflows
\* ends the request with no answer, and Alertmanager makes it again.
Post(g) ==
    /\ sending = {}
    /\ g \in due
    /\ \A a \in Alerts : Group(a) = g => ~Overflows(a, Status(a))
    /\ due' = due \ {g}
    /\ sending' = {a \in Alerts : Group(a) = g /\ Forwards(a, Status(a))}
    /\ UNCHANGED <<vars, firing, cause, healedFor>>

\* No body is on its way in m, and no receipt handle of one is held.
Free(m) ==
    /\ queue[m] \in {"unsent", "deleted", "dead", "expired"}
    /\ \A k \in Deployments : m \notin batch[k]

\* send_message
SendSignal(a, m) ==
    /\ a \in sending
    /\ Free(m) /\ KeyOf[m] = GroupKey(a)
    /\ sending' = sending \ {a}
    /\ queue' = [queue EXCEPT ![m] = "visible"]
    /\ received' = [received EXCEPT ![m] = 0]
    /\ served' = served \ {m}
    /\ executed' = [executed EXCEPT ![m] = 0]
    /\ cause' = [cause EXCEPT ![m] = a]
    /\ UNCHANGED <<firing, due, faulty, pc, memory, bootLeft, faults, quiet, healedFor>>

\* send_message raises: it is logged, the next signal is sent, and the answer
\* is 200 all the same.
SendFails(a) ==
    /\ a \in sending
    /\ sending' = sending \ {a}
    /\ UNCHANGED <<vars, firing, due, cause, healedFor>>

\* The forwarder dies in the middle of a POST: Alertmanager makes it again.
ForwarderDies ==
    /\ sending # {}
    /\ sending' = {}
    /\ due' = due \cup {Group(a) : a \in sending}
    /\ UNCHANGED <<vars, firing, cause, healedFor>>

-----------------------------------------------------------------------------
(* The loop, and what it did last for each key.                            *)

Subjects == IF source = "sqs" THEN {About[cause[m]] : m \in Current} ELSE {current}

Remember ==
    healedFor' = CASE pc = "handle" /\ pc' \in {"ack", "events"} ->
                          [healedFor EXCEPT ![current] = Subjects]
                   [] pc = "down" /\ pc' # "down" -> NothingHealed
                   [] OTHER -> healedFor

LoopStep ==
    /\ Surroundings \/ Tick \/ Loop \/ Crash
    /\ faulty' \subseteq Workloads
    /\ Remember
    /\ UNCHANGED <<alertVars, cause>>

\* A body no forwarder wrote.
ForeignSend(m) ==
    /\ m \notin WellFormed
    /\ Send(m)
    /\ UNCHANGED <<alertVars, cause, healedFor>>

DeliveryNext ==
    \/ \E a \in Alerts : Fires(a) \/ Resolves(a) \/ SendFails(a)
                         \/ \E m \in Messages : SendSignal(a, m)
    \/ \E g \in Groups : Repeat(g) \/ Post(g)
    \/ ForwarderDies
    \/ \E m \in Messages : ForeignSend(m)
    \/ LoopStep

DeliverySpec == DeliveryInit /\ [][DeliveryNext]_deliveryVars

SendOk(a) == \E m \in Messages : SendSignal(a, m)

(* The loop is as fair as in WatchLoop.  Alertmanager repeats what still   *)
(* fires, and neither its POSTs nor the calls of send_message fail for     *)
(* ever.  No alert has to fire and none to resolve.                        *)
DeliveryFairness ==
    /\ Fairness
    /\ \A g \in Groups : WF_deliveryVars(Repeat(g)) /\ SF_deliveryVars(Post(g))
    /\ \A a \in Alerts : SF_deliveryVars(SendOk(a))

FairDeliverySpec == DeliverySpec /\ DeliveryFairness

-----------------------------------------------------------------------------
(* The incidents of the queue can be told apart: an alert the forwarder    *)
(* passes on fires until its key is handled or it resolves.  A failed      *)
(* send, a dead forwarder, an expired or dead-lettered message and a skip  *)
(* in the cooldown only delay it.                                          *)
AlertIsHandled ==
    \A a \in {b \in Alerts : Forwards(b, "firing")} :
        a \in firing ~> a \notin firing \/ (pc = "handle" /\ current = GroupKey(a))

(* main.py:233 keeps the cooldown of a deployment, and                     *)
(* prometheus-rules.yaml:3 says every alert names its pod: an incident is  *)
(* skipped only when the last heal was about the same deployments.         *)
SkippedForOwnDeployment ==
    [][pc = "batch" /\ pc' = "ack" =>
          {About[cause[m]] : m \in batch[current']} \subseteq healedFor[current']]_deliveryVars
=============================================================================
