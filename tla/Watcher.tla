------------------------------ MODULE Watcher --------------------------------
(***************************************************************************)
(* The pod status watcher (executor/watcher.py): what it reports of the    *)
(* pods of a namespace, while the kubelet and the controllers (external)   *)
(* start, kill, restart and replace their containers.                      *)
(*                                                                         *)
(* A signal is an item: scalar fields and a dictionary of labels.  Values  *)
(* are names, <<"number", n>> or <<"boolean", b>>.                         *)
(***************************************************************************)
EXTENDS Naming, SequencesExt

CONSTANTS
    Meta,              \* name, owner (Absent without a ReplicaSet) and labels of each pod
    ContainersOf,      \* the containers of each pod, in the order of their statuses
    Namespace,         \* the namespace of the pods
    RestartThreshold,  \* restart_count_threshold
    MaxRestarts        \* bound on the restarts of each container

ASSUME WatcherConstants ==
    /\ DOMAIN ContainersOf = DOMAIN Meta
    /\ RestartThreshold \in Nat
    /\ IsFiniteSet(DOMAIN Meta)
    /\ \A p \in DOMAIN Meta : ContainersOf[p] \in Seq(ToSet(ContainersOf[p]))
    /\ \A p \in DOMAIN Meta : \A c \in ToSet(ContainersOf[p]) : MaxRestarts[c] \in Nat

\* Every pod and every ReplicaSet has a name; ToSet is the set of its segments.
ASSUME NamesAreGiven ==
    \A p \in DOMAIN Meta : /\ Meta[p].name # Absent
                           /\ Meta[p].owner \in Seq(ToSet(Meta[p].owner))

VARIABLES
    cs,        \* containerStatuses: state, ready, exit (of lastState), restarts
    fate,      \* what has become of each pod as a whole
    suffered   \* history: the faults of each pod since it was created: an
               \* image that was not pulled, a SIGKILL, any other end

podVars == <<cs, fate, suffered>>

Pods == DOMAIN Meta
Containers(p) == ToSet(ContainersOf[p])

\* The reasons a container can wait for.  ContainerCreating stands for every
\* one the watcher does not know, CreateContainerConfigError among them.
PullErrors == {"ErrImagePull", "ImagePullBackOff"}
WaitingReasons == {"CrashLoopBackOff", "ContainerCreating"} \cup PullErrors

\* What is known of a pod as a whole, other than what its containers do.
Fates == {"alive", "Succeeded", "Failed", "Unknown"}

OomExitCode == 137
\* No last state: the container has not been restarted.
NoExit == -1

\* How a container can have ended.  Killed is a SIGKILL that is no lack of
\* memory: a liveness probe that failed, a grace period that was over.
Endings == {"OOMKilled", "Killed", "Error", "Completed"}

\* terminated.exitCode; the reason of Killed is Error as well.
ExitCode(ending) ==
    CASE ending \in {"OOMKilled", "Killed"} -> OomExitCode
      [] ending = "Error" -> 1
      [] ending = "Completed" -> 0

ExitCodes == {OomExitCode, 1, 0}

Statuses(c) == [ state    : WaitingReasons \cup {"running"} \cup Endings,
                 ready    : BOOLEAN,
                 exit     : ExitCodes \cup {NoExit},
                 restarts : 0 .. MaxRestarts[c] ]

Created == [state |-> "ContainerCreating", ready |-> FALSE, exit |-> NoExit, restarts |-> 0]

WatcherTypeOK ==
    /\ \A p \in Pods : /\ DOMAIN cs[p] = Containers(p)
                       /\ \A c \in Containers(p) : cs[p][c] \in Statuses(c)
    /\ fate \in [Pods -> Fates]
    /\ suffered \in [Pods -> SUBSET {"pull", "kill", "end"}]

WatcherInit ==
    /\ cs = [p \in Pods |-> [c \in Containers(p) |-> Created]]
    /\ fate = [p \in Pods |-> "alive"]
    /\ suffered = [p \in Pods |-> {}]

-----------------------------------------------------------------------------
(* The kubelet.  A container that has ended waits, or runs again at once;  *)
(* only then does its end appear as its last state.                        *)

Suffers(p, fault) == suffered' = [suffered EXCEPT ![p] = @ \cup {fault}]

Waits(p, c, reason) ==
    /\ cs[p][c].restarts = 0 /\ cs[p][c].state \in {"ContainerCreating"} \cup PullErrors
    /\ cs' = [cs EXCEPT ![p][c].state = reason]
    /\ Suffers(p, "pull")

Starts(p, c) ==
    /\ cs[p][c].state \in WaitingReasons \ {"CrashLoopBackOff"}
    /\ cs' = [cs EXCEPT ![p][c].state = "running"]
    /\ UNCHANGED suffered

BecomesReady(p, c) ==
    /\ cs[p][c].state = "running" /\ ~cs[p][c].ready
    /\ cs' = [cs EXCEPT ![p][c].ready = TRUE]
    /\ UNCHANGED suffered

Ends(p, c, ending) ==
    /\ cs[p][c].state = "running"
    /\ cs' = [cs EXCEPT ![p][c].state = ending, ![p][c].ready = FALSE]
    /\ Suffers(p, IF ExitCode(ending) = OomExitCode THEN "kill" ELSE "end")

BacksOff(p, c) ==
    /\ cs[p][c].state \in Endings
    /\ cs' = [cs EXCEPT ![p][c].state = "CrashLoopBackOff",
                        ![p][c].exit = ExitCode(cs[p][c].state)]
    /\ UNCHANGED suffered

Restarts(p, c) ==
    /\ cs[p][c].state \in Endings \cup {"CrashLoopBackOff"}
    /\ cs[p][c].restarts < MaxRestarts[c]
    /\ cs' = [cs EXCEPT ![p][c] =
                [state |-> "running", ready |-> FALSE, restarts |-> @.restarts + 1,
                 exit |-> IF @.state \in Endings THEN ExitCode(@.state) ELSE @.exit]]
    /\ UNCHANGED suffered

ContainerStep(p) ==
    /\ fate[p] = "alive"
    /\ \E c \in Containers(p) :
          \/ \E reason \in PullErrors : Waits(p, c, reason)
          \/ \E ending \in Endings : Ends(p, c, ending)
          \/ Starts(p, c) \/ BecomesReady(p, c) \/ BacksOff(p, c) \/ Restarts(p, c)
    /\ UNCHANGED fate

\* A pod without statuses is not on a node yet.
OnNode(p) == Containers(p) # {}

\* A pod is over when none of its containers runs any more and none is to be
\* restarted: it was evicted, or is not of a deployment and has done its work.
Finishes(p) ==
    /\ fate[p] = "alive" /\ OnNode(p)
    /\ \A c \in Containers(p) : cs[p][c].state # "running"
    /\ \/ fate' = [fate EXCEPT ![p] = "Failed"]
       \/ /\ \A c \in Containers(p) : cs[p][c].state = "Completed"
          /\ fate' = [fate EXCEPT ![p] = "Succeeded"]
    /\ UNCHANGED <<cs, suffered>>

\* Nothing is heard of the node; what was last heard stays in the statuses.
LosesNode(p) ==
    /\ fate[p] = "alive" /\ OnNode(p)
    /\ fate' = [fate EXCEPT ![p] = "Unknown"]
    /\ UNCHANGED <<cs, suffered>>

FindsNode(p) ==
    /\ fate[p] = "Unknown"
    /\ fate' = [fate EXCEPT ![p] = "alive"]
    /\ UNCHANGED <<cs, suffered>>

Replaced(p) ==
    /\ cs' = [cs EXCEPT ![p] = [c \in Containers(p) |-> Created]]
    /\ fate' = [fate EXCEPT ![p] = "alive"]
    /\ suffered' = [suffered EXCEPT ![p] = {}]

Kubelet ==
    \E p \in Pods :
        ContainerStep(p) \/ Finishes(p) \/ LosesNode(p) \/ FindsNode(p) \/ Replaced(p)

\* status.phase; a pod without a status is "Unknown" to the watcher.
PhaseOf(p) ==
    IF fate[p] # "alive" THEN <<fate[p]>>
    ELSE IF \A c \in Containers(p) : cs[p][c].state \in WaitingReasons /\ cs[p][c].exit = NoExit
      THEN <<"Pending">> ELSE <<"Running">>

-----------------------------------------------------------------------------
(* watcher.py                                                              *)

\* _infer_deployment
DeploymentOfPod(meta) ==
    IF meta.owner # Absent THEN StripSuffixes(meta.owner, 1) ELSE meta.name

ServiceOfPod(meta) ==
    IF "app" \in DOMAIN meta.labels THEN meta.labels.app ELSE DeploymentOfPod(meta)

\* _signal
Signal(p, signalName, value) == [
    fields |-> [ts |-> <<"utc_ms">>, tenant_id |-> <<"v4">>,
                service |-> ServiceOfPod(Meta[p]), signal_name |-> signalName,
                value |-> value],
    labels |-> [system |-> <<"K8S_NATIVE">>, namespace |-> Namespace,
                deployment |-> DeploymentOfPod(Meta[p])] ]

\* _WAITING_REASON_MAP
WaitingFault(reason) ==
    CASE reason = "OOMKilled" -> "OOM_KILL"
      [] reason \in {"CrashLoopBackOff", "Error"} -> "CRASH_LOOP"
      [] reason \in PullErrors -> "BAD_DEPLOY"
      [] OTHER -> "none"

Waiting(s) == s.state \in WaitingReasons
Number(n) == <<"number", n>>

\* A signal with the fault it speaks of, if the condition holds.
If(condition, fault, signal) ==
    IF condition THEN << [fault |-> fault, signal |-> signal] >> ELSE << >>

\* Mutant of OomEvidence: any abnormal end counts as a memory kill.
EndEvidence(p, s) ==
    If(s.exit # NoExit, "OOM_KILL", Signal(p, "exit_code_oom", Number(OomExitCode)))

\* Mutant of OomEvidence: only a container that is not ready again counts.
UnreadyOomEvidence(p, s) ==
    If(s.exit = OomExitCode /\ ~s.ready, "OOM_KILL",
       Signal(p, "exit_code_oom", Number(OomExitCode)))

OomEvidence(p, s) ==
    If(s.exit = OomExitCode, "OOM_KILL", Signal(p, "exit_code_oom", Number(OomExitCode)))

\* The loop body of _inspect_pod, for one container.
EvidenceOf(p, s) ==
    If(Waiting(s) /\ WaitingFault(s.state) # "none", WaitingFault(s.state),
       Signal(p, "pod_waiting_reason", <<s.state>>))
    \o OomEvidence(p, s)
    \o If(s.restarts > RestartThreshold, "CRASH_LOOP",
          Signal(p, "restart_count", Number(s.restarts)))

Evidence(p) ==
    FlattenSeq([i \in DOMAIN ContainersOf[p] |-> EvidenceOf(p, cs[p][ContainersOf[p][i]])])

\* collect_fault_events has a FaultEvent of the pod.
Reported(p) == Evidence(p) # << >>

\* _inspect_pod: the first fault found names the event.
FaultEvent(p) ==
    LET evidence == Evidence(p)
    IN  [namespace            |-> Namespace,
         deployment           |-> DeploymentOfPod(Meta[p]),
         suspected_fault_type |-> evidence[1].fault,
         telemetry_window     |-> [i \in DOMAIN evidence |-> evidence[i].signal]]

\* scrape_deployment_telemetry, of one pod.
ScrapeOf(p) ==
    << Signal(p, "pod_phase", PhaseOf(p)) >>
    \o FlattenSeq([i \in DOMAIN ContainersOf[p] |->
         LET s == cs[p][ContainersOf[p][i]]
         IN  << Signal(p, "container_ready", <<"boolean", s.ready>>),
                Signal(p, "restart_count", Number(s.restarts)) >>
             \o IF Waiting(s) THEN << Signal(p, "pod_waiting_reason", <<s.state>>) >>
                              ELSE << >>])

\* ... of all pods of a deployment, in some order.
Scrape(deployment) ==
    FlattenSeq([i \in 1 .. Cardinality(Pods) |->
        LET p == SetToSeq(Pods)[i]
        IN  IF DeploymentOfPod(Meta[p]) = deployment THEN ScrapeOf(p) ELSE << >>])

\* _collect_post_telemetry: fresh or telemetry_window.
PostTelemetry(deployment, original) ==
    LET fresh == Scrape(deployment) IN IF fresh # << >> THEN fresh ELSE original

-----------------------------------------------------------------------------
(* What an event says of a pod has a cause in this pod, however many       *)
(* restarts ago: a suspected memory kill was a SIGKILL, a suspected crash  *)
(* loop has ended before, a bad deploy could not be pulled.  No more than  *)
(* that: the watcher looks at exit codes and counts only (watcher.py:77,   *)
(* :83), so a container that a liveness probe had killed is taken for one  *)
(* out of memory, and one that keeps completing for a crash loop.          *)
SuspicionHasCause ==
    \A p \in Pods : Reported(p) =>
        LET fault == FaultEvent(p).suspected_fault_type
        IN  /\ fault = "OOM_KILL" => "kill" \in suffered[p]
            /\ fault = "CRASH_LOOP" => suffered[p] \cap {"kill", "end"} # {}
            /\ fault = "BAD_DEPLOY" => "pull" \in suffered[p]

SeesOom(p) ==
    LET evidence == Evidence(p)
    IN  \E i \in DOMAIN evidence : evidence[i].signal.fields.signal_name = "exit_code_oom"

(* A memory kill that one poll could have seen is seen by the next one as  *)
(* well, although the container runs and is ready again (the comments at   *)
(* watcher.py:75 and :82); only another end of the container or a new pod  *)
(* hides it.  That is also why a pod that has recovered goes on being      *)
(* reported.                                                               *)
OomOutlivesRestart ==
    [][\A p \in Pods : cs'[p] # cs[p] /\ SeesOom(p) /\ ~SeesOom(p)' =>
          \/ suffered[p]' = {}
          \/ \E c \in Containers(p) : cs[p][c].exit = OomExitCode /\ cs[p][c]'.exit \in {1, 0}]_podVars
=============================================================================
