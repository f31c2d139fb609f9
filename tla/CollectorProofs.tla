-------------------------- MODULE CollectorProofs ----------------------------
(***************************************************************************)
(* Collector, proved for any number of pods, of containers and of points,  *)
(* and names of any length: what the watcher says of a pod has a cause in  *)
(* it, the two sources of the watch loop name a deployment alike, and what *)
(* the command has written is a window of the contract, and stays one.     *)
(***************************************************************************)
EXTENDS Collector, Lemmas, FiniteSetTheorems

CONSTANT Segments    \* what stands between the dashes of a name

-----------------------------------------------------------------------------
(* Sequences.                                                              *)

(* Induction along the sequences that are flattened.                       *)
LEMMA UpTo ==
    ASSUME NEW n \in Nat, NEW T, n = 0 \/ 1 \in T,
           \A i \in 1 .. n : i \in T /\ i < n => i + 1 \in T
    PROVE  1 .. n \subseteq T
<1> DEFINE B == {i \in Nat : i \in 1 .. n /\ i \notin T}
<1> SUFFICES ASSUME B # {} PROVE FALSE
  OBVIOUS
<1>1. PICK x \in B : \A y \in B : x <= y
  BY LeastNat
<1>2. CASE x = 1
  BY <1>1, <1>2
<1>3. CASE x # 1
  <2>1. x - 1 \in 1 .. n /\ x - 1 < n /\ x - 1 \notin B /\ x - 1 \in Nat
    BY <1>1, <1>3
  <2> QED
    BY <1>1, <2>1
<1> QED
  BY <1>2, <1>3

(* The recursive function of FlattenSeq, on its first n sequences.         *)
Flattens(f, ss, n) ==
    f = [i \in 1 .. n |-> IF i = 1 THEN ss[i] ELSE f[i - 1] \o ss[i]]

LEMMA FlattensExists ==
    ASSUME NEW ss, NEW n \in Nat
    PROVE  \E f : Flattens(f, ss, n)
<1> DEFINE T == {i \in 1 .. n : \E f : Flattens(f, ss, i)}
<1>1. CASE n = 0
  <2>1. Flattens([i \in 1 .. 0 |-> ss[i]], ss, 0)
    BY DEF Flattens
  <2> QED
    BY <1>1, <2>1
<1>2. CASE n # 0
  <2>1. 1 \in T
    <3>1. Flattens([i \in 1 .. 1 |-> ss[i]], ss, 1)
      BY DEF Flattens
    <3> QED
      BY <1>2, <3>1
  <2>2. ASSUME NEW i \in 1 .. n, i \in T, i < n PROVE i + 1 \in T
    <3>1. PICK f : Flattens(f, ss, i)
      BY <2>2
    <3> DEFINE g == [j \in 1 .. i + 1 |-> IF j = i + 1 THEN f[i] \o ss[i + 1] ELSE f[j]]
    <3>2. ASSUME NEW j \in 1 .. i + 1
          PROVE  g[j] = IF j = 1 THEN ss[j] ELSE g[j - 1] \o ss[j]
      <4>1. CASE j = i + 1
        <5>1. j # 1 /\ j - 1 = i /\ i \in 1 .. i + 1 /\ i # i + 1
          BY <4>1
        <5> QED
          BY <4>1, <5>1
      <4>2. CASE j # i + 1
        <5>1. j \in 1 .. i /\ (j # 1 => j - 1 \in 1 .. i)
          BY <4>2
        <5>2. f[j] = IF j = 1 THEN ss[j] ELSE f[j - 1] \o ss[j]
          BY <3>1, <5>1 DEF Flattens
        <5> QED
          BY <4>2, <5>1, <5>2
      <4> QED
        BY <4>1, <4>2
    <3>3. Flattens(g, ss, i + 1)
      <4> HIDE DEF g
      <4>1. g = [j \in 1 .. i + 1 |-> g[j]]
        BY DEF g
      <4> QED
        BY <3>2, <4>1 DEF Flattens
    <3> QED
      BY <2>2, <3>3
  <2>3. 1 .. n \subseteq T
    BY <1>2, <2>1, <2>2, UpTo
  <2> QED
    BY <1>2, <2>3
<1> QED
  BY <1>1, <1>2

(* Concatenation puts the elements together.                               *)
LEMMA ConcatElements ==
    ASSUME NEW S, NEW a \in Seq(S), NEW b \in Seq(S)
    PROVE  a \o b \in Seq(S) /\ ToSet(a \o b) = ToSet(a) \cup ToSet(b)
<1>1. /\ a \o b \in Seq(S) /\ Len(a \o b) = Len(a) + Len(b)
      /\ Len(a) \in Nat /\ Len(b) \in Nat
      /\ DOMAIN a = 1 .. Len(a) /\ DOMAIN b = 1 .. Len(b) /\ DOMAIN (a \o b) = 1 .. Len(a \o b)
      /\ \A i \in 1 .. Len(a) + Len(b) :
            (a \o b)[i] = IF i <= Len(a) THEN a[i] ELSE b[i - Len(a)]
  BY ConcatProperties, LenProperties
<1>2. ASSUME NEW x \in ToSet(a \o b) PROVE x \in ToSet(a) \cup ToSet(b)
  <2>1. PICK i \in 1 .. Len(a) + Len(b) : x = (a \o b)[i]
    BY <1>1 DEF ToSet
  <2>2. CASE i <= Len(a)
    BY <1>1, <2>1, <2>2 DEF ToSet
  <2>3. CASE i > Len(a)
    <3>1. i - Len(a) \in 1 .. Len(b) /\ x = b[i - Len(a)]
      BY <1>1, <2>1, <2>3
    <3> QED
      BY <1>1, <3>1 DEF ToSet
  <2> QED
    BY <1>1, <2>2, <2>3
<1>3. ASSUME NEW x \in ToSet(a) PROVE x \in ToSet(a \o b)
  BY <1>1 DEF ToSet
<1>4. ASSUME NEW x \in ToSet(b) PROVE x \in ToSet(a \o b)
  <2>1. PICK i \in 1 .. Len(b) : x = b[i]
    BY <1>1 DEF ToSet
  <2>2. i + Len(a) \in 1 .. Len(a) + Len(b) /\ (a \o b)[i + Len(a)] = x
    BY <1>1, <2>1
  <2> QED
    BY <1>1, <2>2 DEF ToSet
<1> QED
  BY <1>1, <1>2, <1>3, <1>4

(* FlattenSeq has the elements of all its sequences and no others.         *)
LEMMA FlattenElements ==
    ASSUME NEW S, NEW ss \in Seq(Seq(S))
    PROVE  /\ FlattenSeq(ss) \in Seq(S)
           /\ ToSet(FlattenSeq(ss)) = UNION {ToSet(ss[k]) : k \in 1 .. Len(ss)}
<1> DEFINE n == Len(ss)
           f == CHOOSE f : Flattens(f, ss, n)
           Upto(i) == UNION {ToSet(ss[k]) : k \in 1 .. i}
           T == {i \in 1 .. n : f[i] \in Seq(S) /\ ToSet(f[i]) = Upto(i)}
<1>1. n \in Nat /\ \A i \in 1 .. n : ss[i] \in Seq(S)
  BY LenProperties, ElementOfSeq
<1>2. CASE n = 0
  <2>1. FlattenSeq(ss) = ss /\ ss = << >>
    BY <1>2, EmptySeq DEF FlattenSeq
  <2>2. ToSet(ss) = {}
    BY <2>1 DEF ToSet
  <2> QED
    BY <1>2, <2>1, <2>2, EmptySeq
<1>3. CASE n # 0
  <2>1. Flattens(f, ss, n)
    BY <1>1, FlattensExists
  <2>2. FlattenSeq(ss) = f[n]
    BY <1>3, Zenon DEF FlattenSeq, Flattens
  <2> HIDE DEF f
  <2>3. \A i \in 1 .. n : f[i] = IF i = 1 THEN ss[i] ELSE f[i - 1] \o ss[i]
    BY <2>1, <1>1 DEF Flattens
  <2>4. 1 \in T
    <3>1. f[1] = ss[1] /\ 1 \in 1 .. n
      BY <1>1, <1>3, <2>3
    <3>2. Upto(1) = ToSet(ss[1])
      OBVIOUS
    <3> QED
      BY <1>1, <3>1, <3>2
  <2>5. ASSUME NEW i \in 1 .. n, i \in T, i < n PROVE i + 1 \in T
    <3>1. i + 1 \in 1 .. n /\ f[i + 1] = f[i] \o ss[i + 1]
      <4>1. i + 1 \in 1 .. n /\ i + 1 # 1 /\ (i + 1) - 1 = i
        BY <1>1, <2>5
      <4> QED
        BY <2>3, <4>1
    <3>2. f[i + 1] \in Seq(S) /\ ToSet(f[i + 1]) = ToSet(f[i]) \cup ToSet(ss[i + 1])
      BY <1>1, <2>5, <3>1, ConcatElements
    <3>3. Upto(i + 1) = Upto(i) \cup ToSet(ss[i + 1])
      <4>1. 1 .. i + 1 = (1 .. i) \cup {i + 1}
        OBVIOUS
      <4> QED
        BY <4>1, Zenon
    <3> QED
      BY <2>5, <3>1, <3>2, <3>3
  <2>6. 1 .. n \subseteq T
    <3> HIDE DEF T
    <3> QED
      BY <1>1, <2>4, <2>5, UpTo
  <2>7. n \in T
    <3> HIDE DEF T
    <3>1. n \in 1 .. n
      BY <1>1, <1>3
    <3> QED
      BY <2>6, <3>1
  <2> QED
    BY <2>2, <2>7
<1> QED
  BY <1>2, <1>3

(* SetToSeq has the elements of its set.                                   *)
LEMMA SetToSeqElements ==
    ASSUME NEW S, IsFiniteSet(S), NEW i \in 1 .. Cardinality(S)
    PROVE  SetToSeq(S)[i] \in S
<1>1. PICK f \in [1 .. Cardinality(S) -> S] : IsInjective(f)
  <2>1. ExistsBijection(1 .. Cardinality(S), S)
    BY FS_CardinalityType
  <2> QED
    BY <2>1, Zenon DEF ExistsBijection, Bijection, Injection
<1>2. SetToSeq(S) \in [1 .. Cardinality(S) -> S]
  BY <1>1 DEF SetToSeq
<1> QED
  BY <1>2

-----------------------------------------------------------------------------
(* The watcher.                                                            *)

(* What If adds to the evidence.                                           *)
ShownIf(condition, fault, signal) ==
    {e \in {[fault |-> fault, signal |-> signal]} : condition}

(* What one container shows.                                               *)
Shown(p, s) ==
    ShownIf(Waiting(s) /\ WaitingFault(s.state) # "none", WaitingFault(s.state),
            Signal(p, "pod_waiting_reason", <<s.state>>))
    \cup ShownIf(s.exit = OomExitCode, "OOM_KILL",
                 Signal(p, "exit_code_oom", Number(OomExitCode)))
    \cup ShownIf(s.restarts > RestartThreshold, "CRASH_LOOP",
                 Signal(p, "restart_count", Number(s.restarts)))

(* The containers of a pod, with statuses st.                              *)
SeenIn(p, st) ==
    FlattenSeq([i \in DOMAIN ContainersOf[p] |-> EvidenceOf(p, st[ContainersOf[p][i]])])

ShownBy(p, st) == UNION {Shown(p, st[c]) : c \in Containers(p)}

LEMMA IfElements ==
    ASSUME NEW S, NEW condition \in BOOLEAN, NEW fault, NEW signal,
           ShownIf(condition, fault, signal) \subseteq S
    PROVE  /\ If(condition, fault, signal) \in Seq(S)
           /\ ToSet(If(condition, fault, signal)) = ShownIf(condition, fault, signal)
<1> DEFINE e == [fault |-> fault, signal |-> signal]
<1>1. CASE condition
  <2>1. If(condition, fault, signal) = <<e>> /\ ShownIf(condition, fault, signal) = {e}
    BY <1>1 DEF If, ShownIf
  <2> HIDE DEF e
  <2>2. <<e>> \in Seq(S) /\ ToSet(<<e>>) = {e}
    BY <2>1 DEF ToSet
  <2> QED
    BY <2>1, <2>2
<1>2. CASE ~condition
  <2>1. If(condition, fault, signal) = << >> /\ ShownIf(condition, fault, signal) = {}
    BY <1>2 DEF If, ShownIf
  <2>2. << >> \in Seq(S) /\ ToSet(<< >>) = {}
    BY DEF ToSet
  <2> QED
    BY <2>1, <2>2
<1> QED
  BY <1>1, <1>2

(* _inspect_pod sees what a container shows and nothing else.              *)
LEMMA ContainerElements ==
    ASSUME NEW S, NEW p, NEW s, s.restarts \in Nat, Shown(p, s) \subseteq S
    PROVE  EvidenceOf(p, s) \in Seq(S) /\ ToSet(EvidenceOf(p, s)) = Shown(p, s)
<1> DEFINE waits == Waiting(s) /\ WaitingFault(s.state) # "none"
           oom == s.exit = OomExitCode
           loops == s.restarts > RestartThreshold
           reason == Signal(p, "pod_waiting_reason", <<s.state>>)
           exit == Signal(p, "exit_code_oom", Number(OomExitCode))
           count == Signal(p, "restart_count", Number(s.restarts))
           a == If(waits, WaitingFault(s.state), reason)
           b == If(oom, "OOM_KILL", exit)
           c == If(loops, "CRASH_LOOP", count)
           ab == a \o b
<1>1. waits \in BOOLEAN /\ oom \in BOOLEAN /\ loops \in BOOLEAN
  BY WatcherConstants
<1>2. EvidenceOf(p, s) = ab \o c
  BY DEF EvidenceOf, OomEvidence
<1>3. Shown(p, s) = ShownIf(waits, WaitingFault(s.state), reason)
                      \cup ShownIf(oom, "OOM_KILL", exit) \cup ShownIf(loops, "CRASH_LOOP", count)
  BY DEF Shown
<1> HIDE DEF waits, oom, loops, reason, exit, count
<1>4. a \in Seq(S) /\ ToSet(a) = ShownIf(waits, WaitingFault(s.state), reason)
  BY <1>1, <1>3, IfElements
<1>5. b \in Seq(S) /\ ToSet(b) = ShownIf(oom, "OOM_KILL", exit)
  BY <1>1, <1>3, IfElements
<1>6. c \in Seq(S) /\ ToSet(c) = ShownIf(loops, "CRASH_LOOP", count)
  BY <1>1, <1>3, IfElements
<1> HIDE DEF a, b, c
<1>7. ab \in Seq(S) /\ ToSet(ab) = ToSet(a) \cup ToSet(b)
  BY <1>4, <1>5, ConcatElements
<1> HIDE DEF ab
<1>8. ab \o c \in Seq(S) /\ ToSet(ab \o c) = ToSet(ab) \cup ToSet(c)
  BY <1>6, <1>7, ConcatElements
<1> QED
  BY <1>2, <1>3, <1>4, <1>5, <1>6, <1>7, <1>8

(* The evidence of a pod is what its containers show.                      *)
LEMMA PodElements ==
    ASSUME NEW p \in Pods, NEW st, \A c \in Containers(p) : st[c].restarts \in Nat
    PROVE  /\ SeenIn(p, st) \in Seq(ShownBy(p, st))
           /\ ToSet(SeenIn(p, st)) = ShownBy(p, st)
<1> DEFINE S == ShownBy(p, st)
           n == Len(ContainersOf[p])
           ss == [i \in DOMAIN ContainersOf[p] |-> EvidenceOf(p, st[ContainersOf[p][i]])]
<1>1. /\ n \in Nat /\ DOMAIN ContainersOf[p] = 1 .. n
      /\ Containers(p) = {ContainersOf[p][i] : i \in 1 .. n}
  BY WatcherConstants, LenProperties DEF Pods, Containers, ToSet
<1>2. ASSUME NEW i \in 1 .. n
      PROVE  ss[i] \in Seq(S) /\ ToSet(ss[i]) = Shown(p, st[ContainersOf[p][i]])
  <2>1. ContainersOf[p][i] \in Containers(p)
    BY <1>1
  <2>2. Shown(p, st[ContainersOf[p][i]]) \subseteq S
    BY <2>1 DEF ShownBy
  <2> QED
    BY <1>1, <2>1, <2>2, ContainerElements
<1>3. ss \in Seq(Seq(S)) /\ Len(ss) = n
  <2> HIDE DEF S
  <2>1. ss = [i \in 1 .. n |-> ss[i]]
    BY <1>1
  <2> HIDE DEF ss
  <2>2. ss \in [1 .. n -> Seq(S)]
    BY <1>2, <2>1
  <2> QED
    BY <1>1, <2>2, IsASeq
<1>4. SeenIn(p, st) = FlattenSeq(ss)
  BY DEF SeenIn
<1>5. FlattenSeq(ss) \in Seq(S)
      /\ ToSet(FlattenSeq(ss)) = UNION {ToSet(ss[k]) : k \in 1 .. n}
  <2> HIDE DEF S, ss
  <2> QED
    BY <1>3, FlattenElements
<1>6. UNION {ToSet(ss[k]) : k \in 1 .. n} = S
  <2> HIDE DEF ss
  <2> QED
    BY <1>1, <1>2 DEF ShownBy
<1> QED
  BY <1>4, <1>5, <1>6

-----------------------------------------------------------------------------
(* The pods.                                                               *)

(* What a container is found like has a cause among the faults of its pod. *)
Accounted(s, faults) ==
    /\ s.exit = OomExitCode \/ s.state \in {"OOMKilled", "Killed"} => "kill" \in faults
    /\ s.exit # NoExit \/ s.restarts > 0 \/ s.state \in Endings \cup {"CrashLoopBackOff"}
         => faults \cap {"kill", "end"} # {}
    /\ s.state \in PullErrors => "pull" \in faults

Faults == {"pull", "kill", "end"}

WInv ==
    /\ cs = [p \in Pods |-> [c \in Containers(p) |-> cs[p][c]]]
    /\ fate \in [Pods -> Fates]
    /\ suffered \in [Pods -> SUBSET Faults]
    /\ \A p \in Pods : \A c \in Containers(p) :
          cs[p][c] \in Statuses(c) /\ Accounted(cs[p][c], suffered[p])

LEMMA ThreeStates ==
    /\ WaitingReasons = {"CrashLoopBackOff", "ContainerCreating", "ErrImagePull", "ImagePullBackOff"}
    /\ Endings = {"OOMKilled", "Killed", "Error", "Completed"}
    /\ ExitCodes \cup {NoExit} = {137, 1, 0, -1}
BY DEF WaitingReasons, PullErrors, Endings, ExitCodes, OomExitCode, NoExit

LEMMA ExitCodesOf ==
    \A e \in Endings : /\ ExitCode(e) \in ExitCodes /\ ExitCode(e) # NoExit
                       /\ ExitCode(e) = OomExitCode <=> e \in {"OOMKilled", "Killed"}
BY DEF Endings, ExitCode, ExitCodes, OomExitCode, NoExit

LEMMA RestartBound == \A p \in Pods : \A c \in Containers(p) : MaxRestarts[c] \in Nat
BY WatcherConstants DEF Pods, Containers

LEMMA InitPods == WatcherInit => WInv
<1> SUFFICES ASSUME WatcherInit PROVE WInv
  OBVIOUS
<1>1. ASSUME NEW p \in Pods, NEW c \in Containers(p)
      PROVE  cs[p][c] \in Statuses(c) /\ Accounted(cs[p][c], suffered[p])
  <2>1. cs[p][c] = Created
    BY <1>1 DEF WatcherInit
  <2>2. Created \in Statuses(c)
    BY RestartBound, ThreeStates DEF Created, Statuses
  <2> QED
    BY <2>1, <2>2 DEF Accounted, Created, OomExitCode, NoExit, Endings, PullErrors
<1>2. cs = [p \in Pods |-> [c \in Containers(p) |-> cs[p][c]]]
  BY DEF WatcherInit
<1> QED
  BY <1>1, <1>2 DEF WInv, WatcherInit, Fates

(* One container of a pod changes, and its pod has suffered more.          *)
LEMMA OneContainer ==
    ASSUME WInv, NEW p \in Pods, NEW c \in Containers(p), NEW s \in Statuses(c),
           NEW f \in SUBSET Faults, suffered[p] \subseteq f, Accounted(s, f),
           cs' = [cs EXCEPT ![p] = [cs[p] EXCEPT ![c] = s]],
           suffered' = [suffered EXCEPT ![p] = f], fate' = fate
    PROVE  WInv'
<1>1. ASSUME NEW q \in Pods, NEW d \in Containers(q)
      PROVE  cs'[q][d] \in Statuses(d) /\ Accounted(cs'[q][d], suffered'[q])
  <2>1. cs[q][d] \in Statuses(d) /\ Accounted(cs[q][d], suffered[q])
    BY <1>1 DEF WInv
  <2>2. CASE q = p /\ d = c
    <3>1. cs'[q][d] = s /\ suffered'[q] = f
      BY <2>2 DEF WInv
    <3> QED
      BY <2>2, <3>1
  <2>3. CASE ~(q = p /\ d = c)
    <3>1. cs'[q][d] = cs[q][d] /\ suffered[q] \subseteq suffered'[q]
      BY <1>1, <2>3 DEF WInv
    <3> QED
      BY <2>1, <3>1 DEF Accounted
  <2> QED
    BY <2>2, <2>3
<1>2. cs' = [q \in Pods |-> [d \in Containers(q) |-> cs'[q][d]]]
  BY DEF WInv
<1>3. suffered' \in [Pods -> SUBSET Faults]
  BY DEF WInv
<1> QED
  BY <1>1, <1>2, <1>3 DEF WInv

LEMMA PodStepInv == WInv /\ Kubelet => WInv'
<1> SUFFICES ASSUME WInv, Kubelet PROVE WInv'
  OBVIOUS
<1>1. PICK p \in Pods :
        \/ Replaced(p) \/ ContainerStep(p)
        \/ Finishes(p) \/ LosesNode(p) \/ FindsNode(p)
  BY DEF Kubelet
<1>2. suffered[p] \in SUBSET Faults
      /\ suffered = [suffered EXCEPT ![p] = suffered[p]]
  BY DEF WInv
<1>3. CASE Replaced(p)
  <2>1. ASSUME NEW q \in Pods, NEW d \in Containers(q)
        PROVE  cs'[q][d] \in Statuses(d) /\ Accounted(cs'[q][d], suffered'[q])
    <3>1. CASE q = p
      <4>1. cs'[q][d] = Created
        BY <1>3, <2>1, <3>1 DEF Replaced, WInv
      <4>2. Created \in Statuses(d)
        BY RestartBound, ThreeStates DEF Created, Statuses
      <4> QED
        BY <4>1, <4>2 DEF Accounted, Created, OomExitCode, NoExit, Endings, PullErrors
    <3>2. CASE q # p
      <4>1. cs'[q][d] = cs[q][d] /\ suffered'[q] = suffered[q]
        BY <1>3, <2>1, <3>2 DEF Replaced, WInv
      <4> QED
        BY <4>1 DEF WInv
    <3> QED
      BY <3>1, <3>2
  <2>2. cs' = [q \in Pods |-> [d \in Containers(q) |-> cs'[q][d]]]
    BY <1>3 DEF Replaced, WInv
  <2>3. suffered' \in [Pods -> SUBSET Faults] /\ fate' \in [Pods -> Fates]
    BY <1>3 DEF Replaced, WInv, Fates
  <2> QED
    BY <2>1, <2>2, <2>3 DEF WInv
<1>4. ASSUME NEW c \in Containers(p), fate' = fate,
             \/ \E reason \in PullErrors : Waits(p, c, reason)
             \/ \E ending \in Endings : Ends(p, c, ending)
             \/ Starts(p, c) \/ BecomesReady(p, c) \/ BacksOff(p, c) \/ Restarts(p, c)
      PROVE  WInv'
  <2> DEFINE s == cs[p][c]
  <2>1. s \in Statuses(c) /\ Accounted(s, suffered[p]) /\ MaxRestarts[c] \in Nat
        /\ p \in DOMAIN cs /\ c \in DOMAIN cs[p]
    BY RestartBound DEF WInv
  <2>2. ASSUME NEW reason \in PullErrors, Waits(p, c, reason) PROVE WInv'
    <3> DEFINE t == [s EXCEPT !.state = reason]
               f == suffered[p] \cup {"pull"}
    <3>1. cs' = [cs EXCEPT ![p] = [cs[p] EXCEPT ![c] = t]]
      BY <2>2 DEF Waits
    <3>2. suffered' = [suffered EXCEPT ![p] = f]
      BY <1>2, <2>2 DEF Waits, Suffers
    <3>3. t \in Statuses(c) /\ f \in SUBSET Faults /\ suffered[p] \subseteq f
      BY <1>2, <2>1, <2>2 DEF Statuses, WaitingReasons, Faults
    <3>4. Accounted(t, f)
      BY <2>1, <2>2, ThreeStates DEF Accounted, Waits, PullErrors, Statuses
    <3> HIDE DEF t, f
    <3> QED
      BY <3>1, <3>2, <3>3, <3>4, <1>4, OneContainer
  <2>3. ASSUME NEW ending \in Endings, Ends(p, c, ending) PROVE WInv'
    <3> DEFINE t == [s EXCEPT !.state = ending, !.ready = FALSE]
               f == suffered[p] \cup {IF ExitCode(ending) = OomExitCode THEN "kill" ELSE "end"}
    <3>1. cs' = [cs EXCEPT ![p] = [cs[p] EXCEPT ![c] = t]]
      BY <2>1, <2>3 DEF Ends
    <3>2. suffered' = [suffered EXCEPT ![p] = f]
      BY <2>3 DEF Ends, Suffers
    <3>3. t \in Statuses(c) /\ f \in SUBSET Faults /\ suffered[p] \subseteq f
      BY <1>2, <2>1, <2>3 DEF Statuses, Faults
    <3>4. Accounted(t, f)
      BY <2>1, <2>3, ThreeStates, ExitCodesOf DEF Accounted, PullErrors, Statuses
    <3> HIDE DEF t, f
    <3> QED
      BY <3>1, <3>2, <3>3, <3>4, <1>4, OneContainer
  <2>4. CASE Starts(p, c)
    <3> DEFINE t == [s EXCEPT !.state = "running"]
    <3>1. cs' = [cs EXCEPT ![p] = [cs[p] EXCEPT ![c] = t]]
      BY <2>4 DEF Starts
    <3>2. suffered' = [suffered EXCEPT ![p] = suffered[p]]
      BY <1>2, <2>4 DEF Starts
    <3>3. t \in Statuses(c)
      BY <2>1, ThreeStates DEF Statuses
    <3>4. Accounted(t, suffered[p])
      BY <2>1, ThreeStates DEF Accounted, PullErrors, Statuses
    <3> HIDE DEF t
    <3> QED
      BY <1>2, <3>1, <3>2, <3>3, <3>4, <1>4, OneContainer
  <2>5. CASE BecomesReady(p, c)
    <3> DEFINE t == [s EXCEPT !.ready = TRUE]
    <3>1. cs' = [cs EXCEPT ![p] = [cs[p] EXCEPT ![c] = t]]
      BY <2>5 DEF BecomesReady
    <3>2. suffered' = [suffered EXCEPT ![p] = suffered[p]]
      BY <1>2, <2>5 DEF BecomesReady
    <3>3. t \in Statuses(c)
      BY <2>1 DEF Statuses
    <3>4. Accounted(t, suffered[p])
      BY <2>1 DEF Accounted, Statuses
    <3> HIDE DEF t
    <3> QED
      BY <1>2, <3>1, <3>2, <3>3, <3>4, <1>4, OneContainer
  <2>6. CASE BacksOff(p, c)
    <3> DEFINE t == [s EXCEPT !.state = "CrashLoopBackOff", !.exit = ExitCode(s.state)]
    <3>1. cs' = [cs EXCEPT ![p] = [cs[p] EXCEPT ![c] = t]]
      BY <2>1, <2>6 DEF BacksOff
    <3>2. suffered' = [suffered EXCEPT ![p] = suffered[p]]
      BY <1>2, <2>6 DEF BacksOff
    <3>3. t \in Statuses(c)
      BY <2>1, <2>6, ExitCodesOf DEF BacksOff, Statuses, WaitingReasons
    <3>4. Accounted(t, suffered[p])
      BY <2>1, <2>6, ThreeStates, ExitCodesOf DEF Accounted, PullErrors, Statuses, BacksOff
    <3> HIDE DEF t
    <3> QED
      BY <1>2, <3>1, <3>2, <3>3, <3>4, <1>4, OneContainer
  <2>7. CASE Restarts(p, c)
    <3> DEFINE t == [state |-> "running", ready |-> FALSE, restarts |-> s.restarts + 1,
                     exit |-> IF s.state \in Endings THEN ExitCode(s.state) ELSE s.exit]
    <3>1. cs' = [cs EXCEPT ![p] = [cs[p] EXCEPT ![c] = t]]
      BY <2>1, <2>7 DEF Restarts
    <3>2. suffered' = [suffered EXCEPT ![p] = suffered[p]]
      BY <1>2, <2>7 DEF Restarts
    <3>3. t \in Statuses(c)
      BY <2>1, <2>7, ExitCodesOf DEF Restarts, Statuses, WaitingReasons
    <3>4. Accounted(t, suffered[p])
      BY <2>1, <2>7, ThreeStates, ExitCodesOf DEF Accounted, PullErrors, Statuses, Restarts
    <3> HIDE DEF t
    <3> QED
      BY <1>2, <3>1, <3>2, <3>3, <3>4, <1>4, OneContainer
  <2> QED
    BY <1>4, <2>2, <2>3, <2>4, <2>5, <2>6, <2>7
<1>5. CASE ContainerStep(p)
  BY <1>4, <1>5 DEF ContainerStep
<1>6. CASE Finishes(p) \/ LosesNode(p) \/ FindsNode(p)
  <2>1. UNCHANGED <<cs, suffered>>
    BY <1>6 DEF Finishes, LosesNode, FindsNode
  <2>2. fate' \in [Pods -> Fates]
    BY <1>6 DEF Finishes, LosesNode, FindsNode, WInv, Fates
  <2> QED
    BY <2>1, <2>2 DEF WInv
<1> QED
  BY <1>1, <1>3, <1>5, <1>6

LEMMA WatcherTyped == WInv => WatcherTypeOK
<1> SUFFICES ASSUME WInv PROVE WatcherTypeOK
  OBVIOUS
<1>1. \A p \in Pods : DOMAIN cs[p] = Containers(p)
  BY DEF WInv
<1> QED
  BY <1>1 DEF WInv, WatcherTypeOK, Faults

LEMMA RestartsAreNumbers ==
    WInv => \A p \in Pods : \A c \in Containers(p) : cs[p][c].restarts \in Nat
<1> SUFFICES ASSUME WInv, NEW p \in Pods, NEW c \in Containers(p)
             PROVE  cs[p][c].restarts \in Nat
  OBVIOUS
<1>1. cs[p][c] \in Statuses(c) /\ MaxRestarts[c] \in Nat
  BY RestartBound DEF WInv
<1> QED
  BY <1>1 DEF Statuses

(* What a container shows has a cause among the faults of its pod.         *)
LEMMA ShownHasCause ==
    ASSUME NEW p, NEW c, NEW s \in Statuses(c), MaxRestarts[c] \in Nat, NEW faults,
           Accounted(s, faults), NEW e \in Shown(p, s)
    PROVE  /\ e.fault = "OOM_KILL" => "kill" \in faults
           /\ e.fault = "CRASH_LOOP" => faults \cap {"kill", "end"} # {}
           /\ e.fault = "BAD_DEPLOY" => "pull" \in faults
<1>1. \/ /\ s.state \in WaitingReasons /\ WaitingFault(s.state) # "none"
         /\ e.fault = WaitingFault(s.state)
      \/ s.exit = OomExitCode /\ e.fault = "OOM_KILL"
      \/ s.restarts > RestartThreshold /\ e.fault = "CRASH_LOOP"
  BY DEF Shown, ShownIf, Waiting
<1>2. CASE s.state \in WaitingReasons /\ WaitingFault(s.state) # "none"
             /\ e.fault = WaitingFault(s.state)
  <2>1. CASE s.state = "CrashLoopBackOff"
    BY <1>2, <2>1 DEF WaitingFault, Accounted
  <2>2. CASE s.state \in PullErrors
    BY <1>2, <2>2 DEF WaitingFault, Accounted, PullErrors
  <2>3. CASE s.state = "ContainerCreating"
    BY <1>2, <2>3 DEF WaitingFault, PullErrors
  <2> QED
    BY <1>2, <2>1, <2>2, <2>3 DEF WaitingReasons
<1>3. CASE s.exit = OomExitCode /\ e.fault = "OOM_KILL"
  BY <1>3 DEF Accounted
<1>4. CASE s.restarts > RestartThreshold /\ e.fault = "CRASH_LOOP"
  <2>1. s.restarts > 0
    BY <1>4, WatcherConstants DEF Statuses
  <2> QED
    BY <1>4, <2>1 DEF Accounted
<1> QED
  BY <1>1, <1>2, <1>3, <1>4

LEMMA Suspicion == WInv => SuspicionHasCause
<1> SUFFICES ASSUME WInv, NEW p \in Pods, Reported(p)
             PROVE  LET fault == FaultEvent(p).suspected_fault_type
                    IN  /\ fault = "OOM_KILL" => "kill" \in suffered[p]
                        /\ fault = "CRASH_LOOP" => suffered[p] \cap {"kill", "end"} # {}
                        /\ fault = "BAD_DEPLOY" => "pull" \in suffered[p]
  BY DEF SuspicionHasCause
<1>1. Evidence(p) \in Seq(ShownBy(p, cs[p])) /\ Evidence(p) # << >>
  BY PodElements, RestartsAreNumbers DEF Evidence, SeenIn, Reported
<1>2. Evidence(p)[1] \in ShownBy(p, cs[p])
  BY <1>1
<1>3. PICK c \in Containers(p) : Evidence(p)[1] \in Shown(p, cs[p][c])
  BY <1>2 DEF ShownBy
<1>4. cs[p][c] \in Statuses(c) /\ Accounted(cs[p][c], suffered[p]) /\ MaxRestarts[c] \in Nat
  BY RestartBound DEF WInv
<1>5. FaultEvent(p).suspected_fault_type = Evidence(p)[1].fault
  BY DEF FaultEvent
<1> QED
  BY <1>3, <1>4, <1>5, ShownHasCause

(* Only the exit code of a container shows a memory kill as such.          *)
LEMMA OomIsSeen ==
    ASSUME NEW p \in Pods, NEW st, \A c \in Containers(p) : st[c].restarts \in Nat
    PROVE  (\E i \in DOMAIN SeenIn(p, st) :
                SeenIn(p, st)[i].signal.fields.signal_name = "exit_code_oom")
             <=> \E c \in Containers(p) : st[c].exit = OomExitCode
<1> DEFINE IsOom(e) == e.signal.fields.signal_name = "exit_code_oom"
<1>1. ToSet(SeenIn(p, st)) = UNION {Shown(p, st[c]) : c \in Containers(p)}
  BY PodElements DEF ShownBy
<1>2. (\E i \in DOMAIN SeenIn(p, st) : IsOom(SeenIn(p, st)[i]))
        <=> \E e \in ToSet(SeenIn(p, st)) : IsOom(e)
  BY DEF ToSet
<1>3. ASSUME NEW c \in Containers(p), NEW e \in Shown(p, st[c])
      PROVE  IsOom(e) => st[c].exit = OomExitCode
  BY DEF Shown, ShownIf, Signal
<1>4. ASSUME NEW c \in Containers(p), st[c].exit = OomExitCode
      PROVE  \E e \in Shown(p, st[c]) : IsOom(e)
  <2> DEFINE o == [fault |-> "OOM_KILL", signal |-> Signal(p, "exit_code_oom", Number(OomExitCode))]
  <2>1. o \in Shown(p, st[c])
    BY <1>4 DEF Shown, ShownIf
  <2>2. IsOom(o)
    BY DEF Signal
  <2> QED
    BY <2>1, <2>2
<1> HIDE DEF IsOom
<1>5. (\E e \in ToSet(SeenIn(p, st)) : IsOom(e))
        <=> \E c \in Containers(p) : st[c].exit = OomExitCode
  BY <1>1, <1>3, <1>4
<1>6. (\E i \in DOMAIN SeenIn(p, st) : IsOom(SeenIn(p, st)[i]))
        <=> \E c \in Containers(p) : st[c].exit = OomExitCode
  BY <1>2, <1>5
<1> QED
  BY <1>6 DEF IsOom

(* A step of the kubelet keeps the exit code of a container, or has seen   *)
(* it end.                                                                 *)
LEMMA ExitCodeStays ==
    ASSUME WInv, Kubelet, NEW p \in Pods, NEW c \in Containers(p), cs[p][c].exit = OomExitCode
    PROVE  \/ suffered'[p] = {}
           \/ cs'[p][c].exit \in {OomExitCode, 1, 0}
<1>1. cs[p][c] \in Statuses(c) /\ p \in DOMAIN cs /\ c \in DOMAIN cs[p] /\ p \in DOMAIN suffered
  BY DEF WInv
<1>2. PICK q \in Pods :
        \/ Replaced(q)
        \/ Finishes(q) \/ LosesNode(q) \/ FindsNode(q)
        \/ \E d \in Containers(q) :
              \/ \E reason \in PullErrors : Waits(q, d, reason)
              \/ \E ending \in Endings : Ends(q, d, ending)
              \/ Starts(q, d) \/ BecomesReady(q, d) \/ BacksOff(q, d) \/ Restarts(q, d)
  BY DEF Kubelet, ContainerStep
<1>3. CASE Replaced(q)
  BY <1>1, <1>3 DEF Replaced
<1>4. ASSUME NEW d \in Containers(q),
             \/ \E reason \in PullErrors : Waits(q, d, reason)
             \/ \E ending \in Endings : Ends(q, d, ending)
             \/ Starts(q, d) \/ BecomesReady(q, d)
      PROVE  cs'[p][c].exit = OomExitCode
  <2>1. CASE \E reason \in PullErrors : Waits(q, d, reason)
    BY <1>1, <2>1 DEF Waits, Statuses
  <2>2. CASE \E ending \in Endings : Ends(q, d, ending)
    BY <1>1, <2>2 DEF Ends, Statuses
  <2>3. CASE Starts(q, d)
    BY <1>1, <2>3 DEF Starts, Statuses
  <2>4. CASE BecomesReady(q, d)
    BY <1>1, <2>4 DEF BecomesReady, Statuses
  <2> QED
    BY <1>4, <2>1, <2>2, <2>3, <2>4
<1>5. ASSUME NEW d \in Containers(q), BacksOff(q, d) \/ Restarts(q, d)
      PROVE  cs'[p][c].exit \in {OomExitCode, 1, 0}
  BY <1>1, <1>5, ExitCodesOf DEF BacksOff, Restarts, Statuses, ExitCodes
<1>6. CASE Finishes(q) \/ LosesNode(q) \/ FindsNode(q)
  BY <1>6 DEF Finishes, LosesNode, FindsNode
<1> QED
  BY <1>2, <1>3, <1>4, <1>5, <1>6

(* The command and its user leave the pods alone.                          *)
LEMMA PodsAlone == [Next]_vars => Kubelet \/ UNCHANGED podVars
BY DEF Next, vars, PodStep, Collect, Write, Run, RunAuto, RunPrometheus, RunEvents, RunExport,
       RunLogs, RunSpans, RunValidate, RunScenario, RunOnDict, PutWindow, Put

LEMMA WStep == WInv /\ [Next]_vars => WInv'
<1>1. WInv /\ UNCHANGED podVars => WInv'
  BY DEF WInv, podVars
<1> QED
  BY <1>1, PodsAlone, PodStepInv

LEMMA PodsInvariant == Spec => []WInv
<1>1. Init => WInv
  BY InitPods DEF Init
<1> QED
  BY <1>1, WStep, PTL DEF Spec

(* What an event says of a pod has a cause among the faults of this pod,   *)
(* in any history of any number of pods and containers.                    *)
THEOREM SuspicionsHaveCauses == Spec => []SuspicionHasCause
BY PodsInvariant, Suspicion, PTL

(* A memory kill a poll could have seen is hidden only by another end of   *)
(* the container or by a new pod - however many restarts there have been.  *)
THEOREM OomOutlives == Spec => OomOutlivesRestart
<1>1. ASSUME WInv, WInv', Kubelet \/ UNCHANGED podVars, NEW p \in Pods, SeesOom(p), ~SeesOom(p)'
      PROVE  \/ suffered[p]' = {}
             \/ \E c \in Containers(p) : cs[p][c].exit = OomExitCode /\ cs[p][c]'.exit \in {1, 0}
  <2>1. SeesOom(p) <=> \E c \in Containers(p) : cs[p][c].exit = OomExitCode
    BY <1>1, RestartsAreNumbers, OomIsSeen DEF SeesOom, Evidence, SeenIn
  <2>2. \A c \in Containers(p) : cs'[p][c].restarts \in Nat
    <3> SUFFICES ASSUME NEW c \in Containers(p) PROVE cs'[p][c].restarts \in Nat
      OBVIOUS
    <3>1. cs'[p][c] \in Statuses(c) /\ MaxRestarts[c] \in Nat
      BY <1>1, RestartBound DEF WInv
    <3> QED
      BY <3>1 DEF Statuses
  <2>3. SeesOom(p)' <=> \E c \in Containers(p) : cs'[p][c].exit = OomExitCode
    <3>1. SeesOom(p)' <=> \E i \in DOMAIN SeenIn(p, cs'[p]) :
                              SeenIn(p, cs'[p])[i].signal.fields.signal_name = "exit_code_oom"
      BY DEF SeesOom, Evidence, SeenIn
    <3> QED
      BY <2>2, <3>1, OomIsSeen
  <2>4. PICK c \in Containers(p) : cs[p][c].exit = OomExitCode /\ cs'[p][c].exit # OomExitCode
    BY <1>1, <2>1, <2>3
  <2>5. CASE Kubelet
    BY <1>1, <2>4, <2>5, ExitCodeStays
  <2>6. CASE UNCHANGED podVars
    BY <2>4, <2>6 DEF podVars
  <2> QED
    BY <1>1, <2>5, <2>6
<1>2. WInv /\ WInv' /\ [Next]_vars =>
        [\A p \in Pods : cs'[p] # cs[p] /\ SeesOom(p) /\ ~SeesOom(p)' =>
            \/ suffered[p]' = {}
            \/ \E c \in Containers(p) : cs[p][c].exit = OomExitCode /\ cs[p][c]'.exit \in {1, 0}]_podVars
  BY <1>1, PodsAlone
<1> QED
  BY <1>2, PodsInvariant, PTL DEF Spec, OomOutlivesRestart

-----------------------------------------------------------------------------
(* The contract.                                                           *)

(* A point of the contract: what validate_window asks for, no secret, and  *)
(* the five fields in a record.                                            *)
Ruled(point) ==
    /\ Valid(point)
    /\ point.fields.value # <<"secret">>
    /\ point.fields = [f \in TopLevelFields |-> point.fields[f]]

RuledWindow(window) == \A i \in DOMAIN window : Ruled(window[i])

LEMMA NormalPointsAreRuled ==
    ASSUME NEW item, NEW mode, NEW point \in NormalPoints(item, mode)
    PROVE  Ruled(point)
<1>1. PICK mapped : point = NormalPoint(item, mode, mapped) /\ Valid(point)
  BY DEF NormalPoints
<1>2. point.fields.value = Scrubbed(mapped[2])
  BY <1>1 DEF NormalPoint
<1>3. Scrubbed(mapped[2]) # <<"secret">>
  BY DEF Scrubbed
<1>4. point.fields = [f \in TopLevelFields |-> point.fields[f]]
  BY <1>1 DEF NormalPoint, TopLevelFields
<1> QED
  BY <1>1, <1>2, <1>3, <1>4 DEF Ruled

(* normalize_window, whatever it is given, exits or returns points of the  *)
(* contract, one for each item.                                            *)
LEMMA NormalizedIsRuled ==
    ASSUME NEW items, NEW mode
    PROVE  LET result == Normalized(items, mode)
           IN  /\ result.code \in {"0", "1", "traceback"}
               /\ result.code = "0" <=> \A i \in DOMAIN items : NormalPoints(items[i], mode) # {}
               /\ result.code = "0" =>
                     /\ DOMAIN result.window = DOMAIN items
                     /\ \A i \in DOMAIN items : result.window[i] \in NormalPoints(items[i], mode)
                     /\ RuledWindow(result.window)
<1> DEFINE result == Normalized(items, mode)
           points == [i \in DOMAIN items |-> NormalPoints(items[i], mode)]
           bad == {i \in DOMAIN items : points[i] = {}}
<1>1. CASE bad = {}
  <2>1. result = [code |-> "0", window |->
                    [i \in DOMAIN items |-> CHOOSE point \in points[i] : TRUE]]
    BY <1>1, Zenon DEF Normalized
  <2>2. \A i \in DOMAIN items : NormalPoints(items[i], mode) # {}
    BY <1>1
  <2>3. \A i \in DOMAIN items : result.window[i] \in NormalPoints(items[i], mode)
    BY <2>1, <2>2
  <2>4. DOMAIN result.window = DOMAIN items /\ result.code = "0"
    BY <2>1
  <2>5. RuledWindow(result.window)
    BY <2>3, <2>4, NormalPointsAreRuled DEF RuledWindow
  <2> QED
    BY <2>2, <2>3, <2>4, <2>5
<1>2. CASE bad # {}
  <2>1. result = Exit("traceback") \/ result = Exit("1")
    BY <1>2 DEF Normalized
  <2>2. result.code \in {"1", "traceback"}
    BY <2>1 DEF Exit
  <2>3. ~ \A i \in DOMAIN items : NormalPoints(items[i], mode) # {}
    BY <1>2
  <2> QED
    BY <2>2, <2>3
<1> QED
  BY <1>1, <1>2

(* A program that ends well has written a window of the contract.          *)
EndsWell(result) ==
    /\ result.code \in {"0", "1", "traceback"}
    /\ result.code = "0" => RuledWindow(result.window)

LEMMA ProgramsEndWell ==
    /\ \A items, mode : EndsWell(Normalized(items, mode))
    /\ \A c \in {"1", "traceback"} : EndsWell(Exit(c))
BY NormalizedIsRuled DEF EndsWell, Exit

LEMMA AutoEndsWell == \A f : EndsWell(AutoNormalized(f))
BY ProgramsEndWell DEF AutoNormalized

-----------------------------------------------------------------------------
(* The file.                                                               *)

LEMMA Wrappers ==
    ASSUME NEW w
    PROVE  /\ WindowOf(ListOf(w)) = w /\ ListOf(w).kind = "list" /\ ListOf(w).parts.items = w
           /\ WindowOf(Scenario(w)) = w /\ Scenario(w).kind = "dict"
           /\ Scenario(w).parts.telemetry_window = w
           /\ Has(Scenario(w), "telemetry_window") /\ \A part : ~Has(ListOf(w), part)
BY DEF WindowOf, ListOf, Scenario, Has

FileTyped ==
    /\ file.kind \in {"dict", "list"}
    /\ origin # "raw" => file.kind = "list" \/ Has(file, "telemetry_window")
    /\ origin \in Origins
    /\ code \in Codes

OutputInv ==
    origin = "output" => \E w : file \in {ListOf(w), Scenario(w)} /\ RuledWindow(w)

FileInv == FileTyped /\ OutputInv

(* A command leaves the file alone, or writes what it has normalised.      *)
LEMMA PutFile ==
    ASSUME FileInv, NEW result, EndsWell(result), NEW f, Put(result, f),
           f \in {ListOf(result.window), Scenario(result.window)}
    PROVE  FileInv'
<1>1. result.code \in {"0", "1", "traceback"} /\ code' = result.code
  BY DEF EndsWell, Put
<1>2. CASE result.code = "0"
  <2>1. file' = f /\ origin' = "output" /\ RuledWindow(result.window)
    BY <1>2 DEF Put, EndsWell
  <2>2. file'.kind \in {"dict", "list"}
        /\ (file'.kind = "list" \/ Has(file', "telemetry_window"))
    BY <2>1, Wrappers
  <2> QED
    BY <1>1, <2>1, <2>2 DEF FileInv, FileTyped, OutputInv, Origins, Codes
<1>3. CASE result.code # "0"
  <2>1. file' = file /\ origin' = origin
    BY <1>3 DEF Put
  <2> QED
    BY <1>1, <2>1 DEF FileInv, FileTyped, OutputInv, Origins, Codes
<1> QED
  BY <1>2, <1>3

LEMMA InitFile == Init => FileInv
<1> SUFFICES ASSUME Init PROVE FileInv
  OBVIOUS
<1>1. file.kind \in {"dict", "list"}
  BY FileKinds, Wrappers DEF Init, NoFile
<1> QED
  BY <1>1 DEF Init, FileInv, FileTyped, OutputInv, Origins, Codes

LEMMA FileStep == FileInv /\ [Next]_vars => FileInv'
<1> SUFFICES ASSUME FileInv, [Next]_vars PROVE FileInv'
  OBVIOUS
<1>1. CASE UNCHANGED toolVars
  BY <1>1 DEF toolVars, FileInv, FileTyped, OutputInv
<1>2. CASE Collect
  <2>1. PICK w : \/ file' = Scenario(w) /\ origin' \in {"report", "scrape"}
                 \/ file' = ListOf(w) /\ origin' = "alert"
    BY <1>2 DEF Collect, Write
  <2>2. code' = code
    BY <1>2 DEF Collect, Write
  <2> QED
    BY <2>1, <2>2, Wrappers DEF FileInv, FileTyped, OutputInv, Origins
<1>3. ASSUME NEW result, EndsWell(result), PutWindow(result) PROVE FileInv'
  BY <1>3, PutFile DEF PutWindow
<1>4. CASE RunAuto
  BY <1>3, <1>4, AutoEndsWell DEF RunAuto
<1>5. CASE RunPrometheus \/ RunEvents \/ RunExport
  BY <1>3, <1>5, ProgramsEndWell DEF RunPrometheus, RunEvents, RunExport, RunOnDict
<1>6. CASE RunLogs \/ RunSpans
  BY <1>3, <1>6, ProgramsEndWell DEF RunLogs, RunSpans
<1>7. CASE RunValidate
  <2>1. code' \in {"0", "1"} /\ file' = file /\ origin' = origin
    BY <1>7 DEF RunValidate, Validated, Exit
  <2> QED
    BY <2>1 DEF FileInv, FileTyped, OutputInv, Codes
<1>8. ASSUME NEW windowOnly \in BOOLEAN, RunScenario(windowOnly) PROVE FileInv'
  <2>1. CASE Has(file, "telemetry_window")
    <3> DEFINE result == Normalized(WindowOf(file), "mock_scenario")
               f == IF windowOnly THEN ListOf(result.window) ELSE Scenario(result.window)
    <3>1. Put(result, f)
      BY <1>8, <2>1 DEF RunScenario
    <3>2. EndsWell(result)
      BY ProgramsEndWell
    <3>3. f \in {ListOf(result.window), Scenario(result.window)}
      OBVIOUS
    <3> HIDE DEF result, f
    <3> QED
      BY <3>1, <3>2, <3>3, PutFile
  <2>2. CASE ~Has(file, "telemetry_window")
    BY <1>3, <1>8, <2>2, ProgramsEndWell DEF RunScenario
  <2> QED
    BY <2>1, <2>2
<1> QED
  BY <1>1, <1>2, <1>4, <1>5, <1>6, <1>7, <1>8 DEF Next, PodStep, Run, vars

LEMMA FileInvariant == Spec => []FileInv
BY InitFile, FileStep, PTL DEF Spec

(* The variables keep their types: the statuses are those the kubelet can  *)
(* bring a container to, and a file that is not raw holds a window.        *)
THEOREM CollectorTypes == Spec => []TypeOK
<1>1. WInv /\ FileInv => TypeOK
  BY WatcherTyped DEF FileInv, FileTyped, TypeOK
<1> QED
  BY <1>1, PodsInvariant, FileInvariant, PTL

(* Whatever the raw files hold and whatever commands are run, what a       *)
(* command has written keeps the output rules.                             *)
THEOREM OutputRules == Spec => []OutputKeepsRules
<1>1. FileInv => OutputKeepsRules
  <2> SUFFICES ASSUME FileInv, origin = "output", NEW i \in DOMAIN Window
               PROVE  LET point == Window[i]
                      IN  /\ DOMAIN point.fields = TopLevelFields
                          /\ point.fields.signal_name \in ContractSignals
                          /\ point.fields.ts = <<"utc_ms">>
                          /\ point.labels.system # Absent
                          /\ point.fields.value \notin {Absent, <<"secret">>}
    BY DEF OutputKeepsRules
  <2>1. Ruled(Window[i])
    BY Wrappers DEF FileInv, OutputInv, Window, RuledWindow
  <2> QED
    BY <2>1 DEF Ruled, Valid, TopLevelFields, Get, Absent
<1> QED
  BY <1>1, FileInvariant, PTL

(* Without items there is nothing to keep.                                 *)
LEMMA KeptNone ==
    ASSUME NEW items, DOMAIN items = {}, NEW Test(_)
    PROVE  DOMAIN Kept(items, Test) = {}
<1> DEFINE ss == [i \in DOMAIN items |-> IF Test(items[i]) THEN <<items[i]>> ELSE << >>]
<1>1. ss = << >>
  OBVIOUS
<1>2. Len(ss) = 0
  BY <1>1
<1>3. FlattenSeq(ss) = ss
  BY <1>2 DEF FlattenSeq
<1> QED
  BY <1>1, <1>3 DEF Kept

UnmarkedLabels(point) ==
    [key \in DOMAIN point.labels \ Marks |-> point.labels[key]]

(* A point of the contract is normalised to its own fields, and to its own *)
(* labels but for the marks of the pass.                                   *)
LEMMA RenormalPoint ==
    ASSUME NEW point, Ruled(point), NEW mode
    PROVE  /\ NormalPoints(point, mode) # {}
           /\ \A q \in NormalPoints(point, mode) :
                 /\ q.fields = point.fields
                 /\ UnmarkedLabels(q) = UnmarkedLabels(point)
<1> DEFINE s == point.fields.signal_name
           v == point.fields.value
           q == NormalPoint(point, mode, <<s, v>>)
<1>1. /\ point.fields = [f \in TopLevelFields |-> point.fields[f]]
      /\ point.fields.ts = <<"utc_ms">> /\ point.fields.tenant_id = TenantId
      /\ point.fields.service # Absent /\ s \in ContractSignals
      /\ v \notin {Absent, <<"secret">>, <<"object">>}
      /\ Get(point.labels, "system") # Absent
  BY DEF Ruled, Valid, TopLevelFields
<1>2. /\ Get(point.fields, "signal_name") = s /\ Get(point.fields, "value") = v
      /\ Get(point.fields, "ts") = <<"utc_ms">> /\ Get(point.fields, "tenant_id") = TenantId
      /\ Get(point.fields, "service") = point.fields.service
  BY <1>1 DEF Get, TopLevelFields
<1>3. NormalSignal(s, v) = { <<s, v>> }
  BY <1>1 DEF NormalSignal
<1>4. q.fields = point.fields
  <2>1. q.fields = [ts |-> <<"utc_ms">>, tenant_id |-> TenantId,
                    service |-> point.fields.service, signal_name |-> s, value |-> v]
    BY <1>1, <1>2 DEF NormalPoint, NormalService, Scrubbed, Or, TenantId, Absent
  <2> QED
    BY <1>1, <2>1 DEF TopLevelFields
<1>5. q.labels = NormalLabels(point, mode)
  BY DEF NormalPoint
<1>6. Get(q.labels, "system") # Absent
  <2>1. "system" \in DOMAIN point.labels /\ point.labels["system"] # Absent
    BY <1>1 DEF Get
  <2>2. "system" \in DOMAIN NormalLabels(point, mode)
        /\ NormalLabels(point, mode)["system"] = point.labels["system"]
    BY <2>1 DEF NormalLabels, Over
  <2> QED
    BY <1>5, <2>1, <2>2 DEF Get
<1>9. UnmarkedLabels(q) = UnmarkedLabels(point)
  <2> DEFINE labels == NormalLabels(point, mode)
  <2>1. "system" \in DOMAIN point.labels
    BY <1>1 DEF Get
  <2>2. DOMAIN labels = DOMAIN point.labels \cup Marks
        /\ \A key \in DOMAIN point.labels \ Marks : labels[key] = point.labels[key]
    BY <2>1 DEF NormalLabels, Over, Marks
  <2>3. DOMAIN labels \ Marks = DOMAIN point.labels \ Marks
    BY <2>2
  <2> HIDE DEF labels
  <2> QED
    BY <1>5, <2>2, <2>3 DEF UnmarkedLabels, labels
<1> HIDE DEF q
<1>7. Valid(q)
  BY <1>4, <1>6 DEF Valid, Ruled
<1>8. NormalPoints(point, mode) = {q}
  BY <1>2, <1>3, <1>7 DEF NormalPoints, Readable, q
<1> QED
  BY <1>4, <1>8, <1>9

LEMMA RenormalWindow ==
    ASSUME NEW w, RuledWindow(w), NEW mode
    PROVE  LET result == Normalized(w, mode)
           IN  result.code = "0" /\ Content(result.window) = Content(w)
<1> DEFINE result == Normalized(w, mode)
<1>1. \A i \in DOMAIN w : /\ NormalPoints(w[i], mode) # {}
                          /\ \A q \in NormalPoints(w[i], mode) :
                                /\ q.fields = w[i].fields
                                /\ UnmarkedLabels(q) = UnmarkedLabels(w[i])
  BY RenormalPoint DEF RuledWindow
<1>2. /\ result.code = "0" /\ DOMAIN result.window = DOMAIN w
      /\ \A i \in DOMAIN w : result.window[i] \in NormalPoints(w[i], mode)
  BY <1>1, NormalizedIsRuled
<1> HIDE DEF result
<1>3. \A i \in DOMAIN w : /\ result.window[i].fields = w[i].fields
                          /\ UnmarkedLabels(result.window[i]) = UnmarkedLabels(w[i])
  BY <1>1, <1>2
<1>4. Content(result.window) = Content(w)
  BY <1>2, <1>3 DEF Content, UnmarkedLabels
<1> QED
  BY <1>2, <1>4 DEF result

(* auto_normalize recognises a window of the contract as such.             *)
LEMMA RenormalAuto ==
    ASSUME NEW w, RuledWindow(w), NEW f \in {ListOf(w), Scenario(w)}
    PROVE  AutoNormalized(f).code = "0" /\ Content(AutoNormalized(f).window) = Content(w)
<1>1. CASE f = Scenario(w)
  <2>1. AutoNormalized(f) = Normalized(w, "mock_scenario")
    BY <1>1, Wrappers DEF AutoNormalized
  <2> QED
    BY <2>1, RenormalWindow
<1>2. CASE f = ListOf(w)
  <2>1. f.kind = "list" /\ f.parts.items = w /\ \A part : ~Has(f, part)
    BY <1>2, Wrappers
  <2>2. \A i \in DOMAIN w : /\ ~LooksLikeLog(w[i]) /\ ~LooksLikeSpan(w[i])
                            /\ "signal_name" \in DOMAIN w[i].fields
    <3> SUFFICES ASSUME NEW i \in DOMAIN w
                 PROVE  /\ ~LooksLikeLog(w[i]) /\ ~LooksLikeSpan(w[i])
                        /\ "signal_name" \in DOMAIN w[i].fields
      OBVIOUS
    <3>1. DOMAIN w[i].fields = {"ts", "tenant_id", "service", "signal_name", "value"}
      BY DEF RuledWindow, Ruled, Valid, TopLevelFields
    <3> QED
      BY <3>1 DEF LooksLikeLog, LooksLikeSpan
  <2>3. CASE DOMAIN w = {}
    <3> DEFINE items == FromLogs(w, NoItem)
    <3>1. AutoNormalized(f) = Normalized(items, "real_log_event")
      BY <2>1, <2>3 DEF AutoNormalized
    <3>2. DOMAIN items = {}
      BY <2>3, KeptNone DEF FromLogs
    <3> HIDE DEF items
    <3>3. AutoNormalized(f).code = "0" /\ DOMAIN AutoNormalized(f).window = {}
      BY <3>1, <3>2, NormalizedIsRuled
    <3> QED
      BY <2>3, <3>3 DEF Content
  <2>4. CASE DOMAIN w # {}
    <3>1. AutoNormalized(f) = Normalized(w, "contract_or_internal_window")
      BY <2>1, <2>2, <2>4 DEF AutoNormalized
    <3> QED
      BY <3>1, RenormalWindow
  <2> QED
    BY <2>3, <2>4
<1> QED
  BY <1>1, <1>2

(* What has been normalised passes through the command again, as often as  *)
(* one likes and in either wrapper, and keeps its fields and labels but    *)
(* for the two marks.                                                      *)
THEOREM RenormalizingIsIdempotent == Spec => RenormalizingChangesNothing
<1>1. FileInv /\ origin = "output" /\ RunAuto
        => code' = "0" /\ Content(WindowOf(file')) = Content(Window)
  <2> SUFFICES ASSUME FileInv, origin = "output", RunAuto
               PROVE  code' = "0" /\ Content(WindowOf(file')) = Content(Window)
    OBVIOUS
  <2>1. PICK w : file \in {ListOf(w), Scenario(w)} /\ RuledWindow(w)
    BY DEF FileInv, OutputInv
  <2>2. Window = w
    BY <2>1, Wrappers DEF Window
  <2>3. AutoNormalized(file).code = "0" /\ Content(AutoNormalized(file).window) = Content(w)
    BY <2>1, RenormalAuto
  <2>4. code' = "0" /\ file' = ListOf(AutoNormalized(file).window)
    BY <2>3 DEF RunAuto, PutWindow, Put
  <2>5. WindowOf(file') = AutoNormalized(file).window
    BY <2>4, Wrappers
  <2> QED
    BY <2>2, <2>3, <2>4, <2>5
<1>2. FileInv /\ [Next]_vars =>
        [origin = "output" /\ RunAuto
           => code' = "0" /\ Content(WindowOf(file')) = Content(Window)]_vars
  BY <1>1
<1> QED
  BY <1>2, FileInvariant, PTL DEF Spec, RenormalizingChangesNothing

-----------------------------------------------------------------------------
(* What the watcher sees, normalised.                                      *)

Phases == {"Pending", "Running", "Failed", "Succeeded", "Unknown"}
Words == WaitingReasons \cup Phases

\* The reasons and phases that have a row in the map.
MappedReasons == {"CrashLoopBackOff", "ErrImagePull", "ImagePullBackOff"}
MappedPhases == {"Pending", "Running", "Failed"}
MappedWords == MappedReasons \cup MappedPhases

(* The signals of a pod whose reasons and phase are among the words R.     *)
Signals(p, R) ==
    {Signal(p, "pod_phase", <<phase>>) : phase \in R \cap Phases}
    \cup {Signal(p, "container_ready", <<"boolean", ready>>) : ready \in BOOLEAN}
    \cup {Signal(p, "restart_count", Number(n)) : n \in Nat}
    \cup {Signal(p, "exit_code_oom", Number(OomExitCode))}
    \cup {Signal(p, "pod_waiting_reason", <<reason>>) : reason \in R \cap WaitingReasons}

AllSignals(R) == UNION {Signals(p, R) : p \in Pods}

SeenWords == IF Unmapped THEN Words ELSE MappedWords

LEMMA WaitsForReason ==
    ASSUME WInv, NEW p \in Pods, NEW c \in Containers(p), Waiting(cs[p][c])
    PROVE  cs[p][c].state \in SeenWords \cap WaitingReasons
BY ThreeStates DEF Waiting, SeenWords, Words, Unmapped, MappedWords, MappedReasons

LEMMA PhaseIsWord ==
    ASSUME WInv, NEW p \in Pods
    PROVE  \E phase \in SeenWords \cap Phases : PhaseOf(p) = <<phase>>
<1>1. fate[p] \in Fates
  BY DEF WInv
<1>2. CASE fate[p] = "alive"
  <2>1. PhaseOf(p) \in {<<"Pending">>, <<"Running">>}
    BY <1>2 DEF PhaseOf
  <2> QED
    BY <2>1 DEF SeenWords, Words, MappedWords, MappedPhases, Phases
<1>3. CASE fate[p] = "Failed"
  <2>1. PhaseOf(p) = <<"Failed">>
    BY <1>3 DEF PhaseOf
  <2> QED
    BY <2>1 DEF SeenWords, Words, MappedWords, MappedPhases, Phases
<1>4. CASE fate[p] \in {"Succeeded", "Unknown"}
  <2>1. PhaseOf(p) = <<fate[p]>> /\ Unmapped
    BY <1>4 DEF PhaseOf, Unmapped
  <2> QED
    BY <1>4, <2>1 DEF SeenWords, Words, Phases
<1> QED
  BY <1>1, <1>2, <1>3, <1>4 DEF Fates

(* An event has only reasons the map knows.                                *)
LEMMA EventTyped ==
    ASSUME WInv, NEW p \in Pods
    PROVE  FaultEvent(p).telemetry_window \in Seq(AllSignals(MappedWords))
<1> DEFINE evidence == Evidence(p)
           S == AllSignals(MappedWords)
<1>1. evidence \in Seq(ShownBy(p, cs[p]))
  BY PodElements, RestartsAreNumbers DEF Evidence, SeenIn
<1>2. ASSUME NEW e \in ShownBy(p, cs[p]) PROVE e.signal \in S
  <2>1. PICK c \in Containers(p) : e \in Shown(p, cs[p][c])
    BY <1>2 DEF ShownBy
  <2> DEFINE s == cs[p][c]
  <2>2. s.restarts \in Nat
    BY RestartsAreNumbers
  <2>3. \/ /\ s.state \in WaitingReasons /\ WaitingFault(s.state) # "none"
           /\ e.signal = Signal(p, "pod_waiting_reason", <<s.state>>)
        \/ e.signal = Signal(p, "exit_code_oom", Number(OomExitCode))
        \/ e.signal = Signal(p, "restart_count", Number(s.restarts))
    BY <2>1 DEF Shown, ShownIf, Waiting
  <2>4. s.state \in WaitingReasons /\ WaitingFault(s.state) # "none"
          => s.state \in MappedWords
    BY DEF WaitingReasons, WaitingFault, MappedWords, MappedReasons, PullErrors
  <2> HIDE DEF s
  <2>5. e.signal \in Signals(p, MappedWords)
    BY <2>2, <2>3, <2>4 DEF Signals
  <2> QED
    BY <2>5 DEF AllSignals
<1>3. FaultEvent(p).telemetry_window = [i \in DOMAIN evidence |-> evidence[i].signal]
  BY DEF FaultEvent
<1> HIDE DEF evidence, S
<1>4. DOMAIN evidence = 1 .. Len(evidence) /\ Len(evidence) \in Nat
      /\ \A i \in 1 .. Len(evidence) : evidence[i] \in ShownBy(p, cs[p])
  BY <1>1
<1>5. [i \in 1 .. Len(evidence) |-> evidence[i].signal] \in Seq(S)
  BY <1>2, <1>4, IsASeq
<1> QED
  BY <1>3, <1>4, <1>5 DEF S

LEMMA ScrapeOfPod ==
    ASSUME WInv, NEW p \in Pods
    PROVE  ScrapeOf(p) \in Seq(AllSignals(SeenWords))
<1> DEFINE S == AllSignals(SeenWords)
           n == Len(ContainersOf[p])
           of(s) == << Signal(p, "container_ready", <<"boolean", s.ready>>),
                       Signal(p, "restart_count", Number(s.restarts)) >>
           waits(s) == IF Waiting(s) THEN << Signal(p, "pod_waiting_reason", <<s.state>>) >>
                       ELSE << >>
           ss == [i \in DOMAIN ContainersOf[p] |->
                    LET s == cs[p][ContainersOf[p][i]] IN of(s) \o waits(s)]
           phase == << Signal(p, "pod_phase", PhaseOf(p)) >>
<1>1. /\ n \in Nat /\ DOMAIN ContainersOf[p] = 1 .. n
      /\ \A i \in 1 .. n : ContainersOf[p][i] \in Containers(p)
  BY WatcherConstants, LenProperties DEF Pods, Containers, ToSet
<1>2. Signals(p, SeenWords) \subseteq S
  BY DEF AllSignals
<1>3. phase \in Seq(S)
  <2>1. Signal(p, "pod_phase", PhaseOf(p)) \in Signals(p, SeenWords)
    BY PhaseIsWord, Zenon DEF Signals
  <2> QED
    BY <1>2, <2>1
<1>4. ASSUME NEW c \in Containers(p) PROVE of(cs[p][c]) \o waits(cs[p][c]) \in Seq(S)
  <2> DEFINE s == cs[p][c]
  <2>1. s \in Statuses(c) /\ s.restarts \in Nat /\ (Waiting(s) => s.state \in SeenWords \cap WaitingReasons)
    BY WaitsForReason, RestartsAreNumbers DEF WInv
  <2>2. s.ready \in BOOLEAN
    BY <2>1 DEF Statuses
  <2> HIDE DEF s
  <2>3. /\ Signal(p, "container_ready", <<"boolean", s.ready>>) \in Signals(p, SeenWords)
        /\ Signal(p, "restart_count", Number(s.restarts)) \in Signals(p, SeenWords)
        /\ Waiting(s) => Signal(p, "pod_waiting_reason", <<s.state>>) \in Signals(p, SeenWords)
    BY <2>1, <2>2 DEF Signals
  <2>4. of(s) \in Seq(S) /\ waits(s) \in Seq(S)
    <3> HIDE DEF S
    <3> QED
      BY <1>2, <2>3
  <2> HIDE DEF S, of, waits
  <2> QED
    BY <2>4, ConcatProperties DEF s
<1>5. ss \in Seq(Seq(S))
  <2>1. \A i \in 1 .. n : ss[i] \in Seq(S)
    <3> HIDE DEF S, of, waits
    <3> QED
      BY <1>1, <1>4
  <2>2. ss = [i \in 1 .. n |-> ss[i]]
    BY <1>1
  <2> HIDE DEF ss, S
  <2>3. ss \in [1 .. n -> Seq(S)]
    BY <2>1, <2>2
  <2> QED
    BY <1>1, <2>3, IsASeq
<1>6. ScrapeOf(p) = phase \o FlattenSeq(ss)
  BY DEF ScrapeOf
<1> HIDE DEF ss, phase, S
<1>7. FlattenSeq(ss) \in Seq(S)
  BY <1>5, FlattenElements
<1>8. phase \o FlattenSeq(ss) \in Seq(S)
  BY <1>3, <1>7, ConcatProperties
<1> QED
  BY <1>6, <1>8 DEF S

(* A scrape may have any reason, if a container waits for an unknown one.  *)
LEMMA ScrapeTyped ==
    ASSUME WInv, NEW deployment
    PROVE  PostTelemetry(deployment, << >>) \in Seq(AllSignals(SeenWords))
<1> DEFINE S == AllSignals(SeenWords)
           n == Cardinality(Pods)
           of(p) == IF DeploymentOfPod(Meta[p]) = deployment THEN ScrapeOf(p) ELSE << >>
           ss == [i \in 1 .. n |-> of(SetToSeq(Pods)[i])]
<1>1. n \in Nat /\ \A i \in 1 .. n : SetToSeq(Pods)[i] \in Pods
  BY WatcherConstants, FS_CardinalityType, SetToSeqElements DEF Pods
<1>2. \A p \in Pods : of(p) \in Seq(S)
  <2>1. << >> \in Seq(S)
    OBVIOUS
  <2> QED
    BY <2>1, ScrapeOfPod
<1>3. ss \in Seq(Seq(S))
  <2> HIDE DEF of, S
  <2>1. \A i \in 1 .. n : ss[i] \in Seq(S)
    BY <1>1, <1>2
  <2>2. ss = [i \in 1 .. n |-> ss[i]]
    BY <1>1
  <2> HIDE DEF ss
  <2> QED
    BY <1>1, <2>1, <2>2, IsASeq
<1>4. Scrape(deployment) = FlattenSeq(ss)
  BY DEF Scrape
<1> HIDE DEF ss, S
<1>5. FlattenSeq(ss) \in Seq(S) /\ << >> \in Seq(S)
  BY <1>3, FlattenElements
<1> QED
  BY <1>4, <1>5 DEF PostTelemetry, S

LEMMA DeploymentsAreNamed == \A p \in Pods : DeploymentOfPod(Meta[p]) # Absent
<1> SUFFICES ASSUME NEW p \in Pods PROVE DeploymentOfPod(Meta[p]) # Absent
  OBVIOUS
<1> DEFINE owner == Meta[p].owner
<1>1. Meta[p].name # Absent /\ owner \in Seq(ToSet(owner))
  BY NamesAreGiven DEF Pods
<1>2. ASSUME NEW T, NEW o \in Seq(T), o # << >> PROVE StripSuffixes(o, 1) # << >>
  <2>1. CASE Len(o) > 1
    <3>1. Len(SubSeq(o, 1, Len(o) - 1)) = Len(o) - 1
      BY <1>2, <2>1, SubSeqProperties
    <3>2. Len(SubSeq(o, 1, Len(o) - 1)) # Len(<< >>)
      BY <1>2, <2>1, <3>1
    <3> QED
      BY <2>1, <3>2 DEF StripSuffixes
  <2>2. CASE ~(Len(o) > 1)
    BY <1>2, <2>2 DEF StripSuffixes
  <2> QED
    BY <2>1, <2>2
<1> QED
  BY <1>1, <1>2 DEF DeploymentOfPod, Absent

Ready == <<"boolean", TRUE>>
NotReady == <<"boolean", FALSE>>

LEMMA ReadyOrNot == Ready # NotReady /\ Ready # Absent /\ NotReady # Absent
BY DEF Ready, NotReady, Absent

(* Rows of the map, cell by cell.                                          *)
Is(row, a, b, c, d) == row[1] = a /\ row[2] = b /\ row[3] = c /\ row[4] = d

LEMMA Cells ==
    ASSUME NEW a, NEW b, NEW c, NEW d
    PROVE  Is(<<a, b, c, d>>, a, b, c, d)
BY DEF Is

LEMMA Texts ==
    \A a, b : /\ <<a>> # Absent /\ <<a, b>> # Absent
              /\ <<a>> = <<b>> => a = b
              /\ \A c : <<a>> # <<b, c>>
              /\ \A c, d : <<a, b>> = <<c, d>> => b = d
BY DEF Absent

OtherSignals == {"readiness_fail_after_deploy", "container_memory_pct", "hpa_at_max_replicas",
                 "minor_blip"}

LEMMA MapRows ==
    ASSUME NEW row \in SignalMap
    PROVE  \/ \E r \in MappedReasons :
                 Is(row, "pod_waiting_reason", <<r>>, "service_unhealthy", <<r>>)
           \/ \E r \in {"OOMKilled", "Error"} : \E c, d : Is(row, "pod_waiting_reason", <<r>>, c, d)
           \/ Is(row, "exit_code_oom", Absent, "pod_oom_event", <<"exit_code_137">>)
           \/ Is(row, "restart_count", Absent, "container_restart_count", Absent)
           \/ Is(row, "pod_phase", <<"Running">>, "service_unhealthy", <<"pod_phase_running">>)
           \/ Is(row, "pod_phase", <<"Pending">>, "service_unhealthy", <<"pod_phase_pending">>)
           \/ Is(row, "pod_phase", <<"Failed">>, "service_unhealthy", <<"pod_phase_failed">>)
           \/ Is(row, "container_ready", NotReady, "service_unhealthy", <<"container_not_ready">>)
           \/ Is(row, "container_ready", Ready, "service_unhealthy", <<"container_ready">>)
           \/ \E s \in OtherSignals : \E b, c, d : Is(row, s, b, c, d)
BY Cells, Zenon DEF SignalMap, MappedReasons, OtherSignals, Ready, NotReady

LEMMA TextRows ==
    ASSUME NEW row \in SignalMap
    PROVE  \/ \E r \in MappedReasons :
                 Is(row, "pod_waiting_reason", <<r>>, "service_unhealthy", <<r>>)
           \/ \E r \in {"OOMKilled", "Error"} : row[1] = "pod_waiting_reason" /\ row[2] = <<r>>
           \/ row[1] \in {"exit_code_oom", "restart_count"} \cup OtherSignals
           \/ Is(row, "pod_phase", <<"Running">>, "service_unhealthy", <<"pod_phase_running">>)
           \/ Is(row, "pod_phase", <<"Pending">>, "service_unhealthy", <<"pod_phase_pending">>)
           \/ Is(row, "pod_phase", <<"Failed">>, "service_unhealthy", <<"pod_phase_failed">>)
           \/ Is(row, "container_ready", NotReady, "service_unhealthy", <<"container_not_ready">>)
           \/ Is(row, "container_ready", Ready, "service_unhealthy", <<"container_ready">>)
BY MapRows, Zenon DEF Is

(* The three outcomes of _normalize_signal for an internal signal: a row   *)
(* for the value, the row for any value, no row.                           *)
LEMMA RowForValue ==
    ASSUME NEW s, s \notin ContractSignals, NEW v, ~Unhashable(s, v), NEW c, NEW d, <<s, v, c, d>> \in SignalMap,
           \A row \in SignalMap : row[1] = s /\ row[2] = v => row[3] = c /\ row[4] = d
    PROVE  NormalSignal(s, v) = { <<c, Or(d, v)>> }
<1>1. RowsFor(s, v) = {row \in SignalMap : row[1] = s /\ row[2] = v}
      /\ <<s, v, c, d>> \in RowsFor(s, v)
  BY Cells DEF RowsFor, Is
<1>2. \A row \in RowsFor(s, v) : row[3] = c /\ row[4] = d
  BY <1>1
<1> QED
  BY <1>1, <1>2 DEF NormalSignal

LEMMA RowForAny ==
    ASSUME NEW s, s \notin ContractSignals, NEW none, none = Absent, NEW v, v # none,
           v # <<"object">>,
           NEW c, NEW d, <<s, none, c, d>> \in SignalMap,
           \A row \in SignalMap : row[1] = s => row[2] = none /\ row[3] = c /\ row[4] = d
    PROVE  NormalSignal(s, v) = { <<c, Or(d, v)>> }
<1>1. {row \in SignalMap : row[1] = s /\ row[2] = v} = {}
  OBVIOUS
<1>2. RowsFor(s, v) = {row \in SignalMap : row[1] = s /\ row[2] = none}
      /\ <<s, none, c, d>> \in RowsFor(s, v)
  BY <1>1, Cells DEF RowsFor, Unhashable, Is
<1>3. \A row \in RowsFor(s, v) : row[3] = c /\ row[4] = d
  BY <1>2
<1> QED
  BY <1>2, <1>3 DEF NormalSignal

LEMMA NoRow ==
    ASSUME NEW s, s \notin ContractSignals, NEW v,
           \A row \in SignalMap : row[1] = s => row[2] \notin {v, Absent}
    PROVE  NormalSignal(s, v) = {}
BY DEF NormalSignal, RowsFor

WatcherSignals == {"pod_phase", "container_ready", "restart_count", "exit_code_oom",
                   "pod_waiting_reason"}

LEMMA OwnSignals == \A s \in WatcherSignals : s \notin ContractSignals
BY DEF WatcherSignals, ContractSignals

LEMMA NormalOfWatcher ==
    /\ \A v : v \notin {Absent, <<"object">>} =>
          /\ NormalSignal("exit_code_oom", v) = { <<"pod_oom_event", <<"exit_code_137">> >> }
          /\ NormalSignal("restart_count", v) = { <<"container_restart_count", v>> }
    /\ NormalSignal("pod_phase", <<"Running">>)
          = { <<"service_unhealthy", <<"pod_phase_running">> >> }
    /\ NormalSignal("pod_phase", <<"Pending">>)
          = { <<"service_unhealthy", <<"pod_phase_pending">> >> }
    /\ NormalSignal("pod_phase", <<"Failed">>)
          = { <<"service_unhealthy", <<"pod_phase_failed">> >> }
    /\ \A phase \in Phases \ MappedPhases : NormalSignal("pod_phase", <<phase>>) = {}
    /\ NormalSignal("container_ready", NotReady)
          = { <<"service_unhealthy", <<"container_not_ready">> >> }
    /\ NormalSignal("container_ready", Ready)
          = { <<"service_unhealthy", <<"container_ready">> >> }
    /\ \A r \in MappedReasons :
          NormalSignal("pod_waiting_reason", <<r>>) = { <<"service_unhealthy", <<r>> >> }
    /\ \A r \in WaitingReasons \ MappedReasons : NormalSignal("pod_waiting_reason", <<r>>) = {}
<1>1. \A a, b : Or(<<a>>, b) = <<a>> /\ Or(Absent, b) = b
  BY Texts DEF Or
<1>2. /\ "exit_code_oom" \notin ContractSignals /\ "restart_count" \notin ContractSignals
      /\ "pod_phase" \notin ContractSignals /\ "container_ready" \notin ContractSignals
      /\ "pod_waiting_reason" \notin ContractSignals
  BY OwnSignals DEF WatcherSignals
<1>3. ASSUME NEW v, v \notin {Absent, <<"object">>}
      PROVE  NormalSignal("exit_code_oom", v) = { <<"pod_oom_event", <<"exit_code_137">>>> }
  <2> DEFINE d == <<"exit_code_137">>
  <2>1. <<"exit_code_oom", Absent, "pod_oom_event", d>> \in SignalMap
    BY Zenon DEF SignalMap
  <2>2. \A row \in SignalMap : row[1] = "exit_code_oom" =>
            row[2] = Absent /\ row[3] = "pod_oom_event" /\ row[4] = d
    BY MapRows, Texts, Zenon DEF Is, OtherSignals
  <2> HIDE DEF d
  <2>3. NormalSignal("exit_code_oom", v) = { <<"pod_oom_event", Or(d, v)>> }
    BY <1>2, <1>3, <2>1, <2>2, RowForAny
  <2> QED
    BY <1>1, <2>3 DEF d
<1>4. ASSUME NEW v, v \notin {Absent, <<"object">>}
      PROVE  NormalSignal("restart_count", v) = { <<"container_restart_count", v>> }
  <2> DEFINE d == Absent
  <2>1. <<"restart_count", Absent, "container_restart_count", d>> \in SignalMap
    BY Zenon DEF SignalMap
  <2>2. \A row \in SignalMap : row[1] = "restart_count" =>
            row[2] = Absent /\ row[3] = "container_restart_count" /\ row[4] = d
    BY MapRows, Texts, Zenon DEF Is, OtherSignals
  <2> HIDE DEF d
  <2>3. NormalSignal("restart_count", v) = { <<"container_restart_count", Or(d, v)>> }
    BY <1>2, <1>4, <2>1, <2>2, RowForAny
  <2> QED
    BY <1>1, <2>3 DEF d
<1>5. NormalSignal("pod_phase", <<"Running">>)
          = { <<"service_unhealthy", <<"pod_phase_running">> >> }
  <2>1. <<"pod_phase", <<"Running">>, "service_unhealthy", <<"pod_phase_running">> >> \in SignalMap
    BY Zenon DEF SignalMap
  <2>2. \A row \in SignalMap : row[1] = "pod_phase" /\ row[2] = <<"Running">> =>
            row[3] = "service_unhealthy" /\ row[4] = <<"pod_phase_running">>
    BY TextRows DEF Is, OtherSignals
  <2>3. ~Unhashable("pod_phase", <<"Running">>)
    BY DEF Unhashable
  <2> QED
    BY <1>1, <1>2, <2>1, <2>2, <2>3, RowForValue
<1>6. NormalSignal("pod_phase", <<"Pending">>)
          = { <<"service_unhealthy", <<"pod_phase_pending">> >> }
  <2>1. <<"pod_phase", <<"Pending">>, "service_unhealthy", <<"pod_phase_pending">> >> \in SignalMap
    BY Zenon DEF SignalMap
  <2>2. \A row \in SignalMap : row[1] = "pod_phase" /\ row[2] = <<"Pending">> =>
            row[3] = "service_unhealthy" /\ row[4] = <<"pod_phase_pending">>
    BY TextRows DEF Is, OtherSignals
  <2>3. ~Unhashable("pod_phase", <<"Pending">>)
    BY DEF Unhashable
  <2> QED
    BY <1>1, <1>2, <2>1, <2>2, <2>3, RowForValue
<1>11. NormalSignal("pod_phase", <<"Failed">>)
          = { <<"service_unhealthy", <<"pod_phase_failed">> >> }
  <2>1. <<"pod_phase", <<"Failed">>, "service_unhealthy", <<"pod_phase_failed">> >> \in SignalMap
    BY Zenon DEF SignalMap
  <2>2. \A row \in SignalMap : row[1] = "pod_phase" /\ row[2] = <<"Failed">> =>
            row[3] = "service_unhealthy" /\ row[4] = <<"pod_phase_failed">>
    BY TextRows DEF Is, OtherSignals
  <2>3. ~Unhashable("pod_phase", <<"Failed">>)
    BY DEF Unhashable
  <2> QED
    BY <1>1, <1>2, <2>1, <2>2, <2>3, RowForValue
<1>12. ASSUME NEW phase \in Phases \ MappedPhases
       PROVE  NormalSignal("pod_phase", <<phase>>) = {}
  <2>1. phase \in {"Succeeded", "Unknown"}
    BY DEF Phases, MappedPhases
  <2>2. \A row \in SignalMap : row[1] = "pod_phase" => row[2] \notin { <<phase>>, Absent }
    BY <2>1, TextRows DEF Is, OtherSignals, Absent
  <2> QED
    BY <1>2, <2>2, NoRow
<1>7. NormalSignal("container_ready", NotReady) = { <<"service_unhealthy", <<"container_not_ready">> >> }
  <2>1. <<"container_ready", NotReady, "service_unhealthy", <<"container_not_ready">> >> \in SignalMap
    BY Zenon DEF SignalMap, NotReady
  <2>2. \A row \in SignalMap : row[1] = "container_ready" /\ row[2] = NotReady =>
            row[3] = "service_unhealthy" /\ row[4] = <<"container_not_ready">>
    BY TextRows, ReadyOrNot DEF Is, OtherSignals
  <2>3. ~Unhashable("container_ready", NotReady)
    BY DEF Unhashable, NotReady
  <2> QED
    BY <1>1, <1>2, <2>1, <2>2, <2>3, RowForValue
<1>8. NormalSignal("container_ready", Ready) = { <<"service_unhealthy", <<"container_ready">> >> }
  <2>1. <<"container_ready", Ready, "service_unhealthy", <<"container_ready">> >> \in SignalMap
    BY Zenon DEF SignalMap, Ready
  <2>2. \A row \in SignalMap : row[1] = "container_ready" /\ row[2] = Ready =>
            row[3] = "service_unhealthy" /\ row[4] = <<"container_ready">>
    BY TextRows, ReadyOrNot DEF Is, OtherSignals
  <2>3. ~Unhashable("container_ready", Ready)
    BY DEF Unhashable, Ready
  <2> QED
    BY <1>1, <1>2, <2>1, <2>2, <2>3, RowForValue
<1>9. ASSUME NEW r \in MappedReasons
      PROVE  NormalSignal("pod_waiting_reason", <<r>>) = { <<"service_unhealthy", <<r>> >> }
  <2>1. <<"pod_waiting_reason", <<r>>, "service_unhealthy", <<r>> >> \in SignalMap
    BY <1>9, Zenon DEF SignalMap, MappedReasons
  <2>2. \A row \in SignalMap : row[1] = "pod_waiting_reason" /\ row[2] = <<r>> =>
            row[3] = "service_unhealthy" /\ row[4] = <<r>>
    BY TextRows DEF Is, OtherSignals, MappedReasons
  <2>3. ~Unhashable("pod_waiting_reason", <<r>>)
    BY DEF MappedReasons, Unhashable
  <2> QED
    BY <1>1, <1>2, <2>1, <2>2, <2>3, RowForValue
<1>10. ASSUME NEW r \in WaitingReasons \ MappedReasons
       PROVE  NormalSignal("pod_waiting_reason", <<r>>) = {}
  <2>1. r \notin {"OOMKilled", "Error"} \cup MappedReasons
    BY ThreeStates DEF MappedReasons
  <2>2. \A row \in SignalMap : row[1] = "pod_waiting_reason" => row[2] \notin { <<r>>, Absent }
    BY <2>1, TextRows DEF Is, OtherSignals, Absent
  <2> QED
    BY <1>2, <2>2, NoRow
<1> QED
  BY <1>3, <1>4, <1>5, <1>6, <1>7, <1>8, <1>9, <1>10, <1>11, <1>12

(* A signal of the watcher that has a row becomes a point: it lacks        *)
(* nothing else.                                                           *)
LEMMA SignalPoints ==
    ASSUME NEW p \in Pods, NEW name, NEW value, NEW mode, NEW s \in ContractSignals,
           NEW v, v \notin {Absent, <<"secret">>, <<"object">>},
           NormalSignal(name, value) = { <<s, v>> }
    PROVE  LET points == NormalPoints(Signal(p, name, value), mode)
           IN  /\ points # {}
               /\ \A q \in points : q.fields.signal_name = s /\ q.fields.value = v
<1> DEFINE x == Signal(p, name, value)
           q == NormalPoint(x, mode, <<s, v>>)
<1>1. /\ Get(x.fields, "signal_name") = name /\ Get(x.fields, "value") = value
      /\ Get(x.fields, "ts") = <<"utc_ms">> /\ Get(x.fields, "tenant_id") = <<"v4">>
      /\ Get(x.labels, "deployment") = DeploymentOfPod(Meta[p])
      /\ "system" \in DOMAIN x.labels /\ x.labels["system"] = <<"K8S_NATIVE">>
      /\ Get(x.labels, "service") = Absent
  BY DEF Signal, Get
<1>2. NormalService(x) # Absent
  BY <1>1, DeploymentsAreNamed DEF NormalService, Or
<1>3. q.fields = [ts |-> <<"utc_ms">>, tenant_id |-> TenantId, service |-> NormalService(x),
                  signal_name |-> s, value |-> v]
  <2>1. Scrubbed(v) = v /\ Or(Get(x.fields, "tenant_id"), TenantId) = TenantId
    BY <1>1 DEF Scrubbed, Or, TenantId, Absent
  <2> HIDE DEF x
  <2> QED
    BY <2>1 DEF NormalPoint
<1>4. Get(q.labels, "system") = <<"K8S_NATIVE">>
  <2>1. q.labels = NormalLabels(x, mode)
    BY DEF NormalPoint
  <2> HIDE DEF x, q
  <2>2. "system" \in DOMAIN NormalLabels(x, mode)
        /\ NormalLabels(x, mode)["system"] = <<"K8S_NATIVE">>
    BY <1>1 DEF NormalLabels, Over
  <2> QED
    BY <2>1, <2>2 DEF Get
<1> HIDE DEF q, x
<1>5. Valid(q)
  <2>1. DOMAIN q.fields = TopLevelFields
    BY <1>3 DEF TopLevelFields
  <2>2. /\ q.fields.ts = <<"utc_ms">> /\ q.fields.tenant_id = TenantId
        /\ q.fields.service # Absent /\ q.fields.signal_name = s /\ q.fields.value = v
    BY <1>2, <1>3
  <2>3. <<"utc_ms">> # Absent /\ TenantId # Absent /\ <<"K8S_NATIVE">> # Absent
    BY DEF TenantId, Absent
  <2> QED
    BY <1>4, <2>1, <2>2, <2>3 DEF Valid, TopLevelFields
<1>6. NormalPoints(x, mode) = {q}
  BY <1>1, <1>5 DEF NormalPoints, Readable, q
<1> QED
  BY <1>3, <1>6 DEF x

(* What becomes of a signal: its point tells of a memory kill, or that a   *)
(* container is not ready, when the signal does; it has no point only when *)
(* the map does not know its reason.                                       *)
TellsOom(x) == x.fields.signal_name = "exit_code_oom" /\ x.fields.value = Number(OomExitCode)
TellsUnready(x) == x.fields.signal_name = "container_ready" /\ x.fields.value = NotReady
KeepsOom(q) == q.fields.signal_name = "pod_oom_event" /\ q.fields.value = <<"exit_code_137">>
KeepsUnready(q) ==
    q.fields.signal_name = "service_unhealthy" /\ q.fields.value = <<"container_not_ready">>

Told(x, points) ==
    /\ points # {}
    /\ \A q \in points : /\ TellsOom(x) => KeepsOom(q)
                         /\ TellsUnready(x) <=> KeepsUnready(q)

LEMMA SignalIsTold ==
    ASSUME NEW p \in Pods, NEW x \in Signals(p, MappedWords), NEW mode
    PROVE  Told(x, NormalPoints(x, mode))
<1> DEFINE points == NormalPoints(x, mode)
<1>1. ASSUME NEW name, NEW value, x = Signal(p, name, value), NEW s \in ContractSignals,
             NEW v, v \notin {Absent, <<"secret">>, <<"object">>},
             NormalSignal(name, value) = { <<s, v>> }
      PROVE  /\ x.fields.signal_name = name /\ x.fields.value = value /\ points # {}
             /\ \A q \in points : q.fields.signal_name = s /\ q.fields.value = v
  <2>1. x.fields.signal_name = name /\ x.fields.value = value
    BY <1>1 DEF Signal
  <2> QED
    BY <1>1, <2>1, SignalPoints
<1> HIDE DEF points
<1>2. /\ "pod_oom_event" \in ContractSignals /\ "service_unhealthy" \in ContractSignals
      /\ "container_restart_count" \in ContractSignals
  BY DEF ContractSignals
<1>3. \A a : /\ a \notin {"secret", "object"} => <<a>> \notin {Absent, <<"secret">>, <<"object">>}
             /\ Number(a) \notin {Absent, <<"secret">>, <<"object">>}
  BY Texts DEF Number
<1>4. ASSUME NEW phase \in MappedPhases, x = Signal(p, "pod_phase", <<phase>>)
      PROVE  Told(x, points)
  <2>1. PICK a \in {"pod_phase_pending", "pod_phase_running", "pod_phase_failed"} :
            NormalSignal("pod_phase", <<phase>>) = { <<"service_unhealthy", <<a>> >> }
    BY <1>4, NormalOfWatcher DEF MappedPhases
  <2>2. <<a>> # <<"container_not_ready">> /\ <<a>> \notin {Absent, <<"secret">>, <<"object">>}
    BY DEF Absent
  <2> DEFINE v == <<a>>
  <2> HIDE DEF v
  <2>3. v # <<"container_not_ready">> /\ v \notin {Absent, <<"secret">>, <<"object">>}
    BY <2>2 DEF v
  <2>4. NormalSignal("pod_phase", <<phase>>) = { <<"service_unhealthy", v>> }
    BY <2>1 DEF v
  <2>5. /\ x.fields.signal_name = "pod_phase" /\ points # {}
        /\ \A q \in points : q.fields.signal_name = "service_unhealthy" /\ q.fields.value = v
    BY <1>1, <1>2, <1>4, <2>3, <2>4
  <2> QED
    BY <2>5, <2>3 DEF Told, TellsOom, TellsUnready, KeepsOom, KeepsUnready
<1>5. ASSUME x = Signal(p, "container_ready", NotReady) PROVE Told(x, points)
  <2> DEFINE v == <<"container_not_ready">>
  <2>0. v \notin {Absent, <<"secret">>, <<"object">>}
    BY DEF Absent
  <2>1. NormalSignal("container_ready", NotReady)
          = { <<"service_unhealthy", v >> }
    BY NormalOfWatcher
  <2> HIDE DEF v
  <2>2. /\ x.fields.signal_name = "container_ready" /\ x.fields.value = NotReady /\ points # {}
        /\ \A q \in points : /\ q.fields.signal_name = "service_unhealthy"
                             /\ q.fields.value = v
    BY <1>1, <1>2, <1>5, <2>0, <2>1
  <2> QED
    BY <2>2 DEF Told, TellsOom, TellsUnready, KeepsOom, KeepsUnready, v
<1>6. ASSUME x = Signal(p, "container_ready", Ready) PROVE Told(x, points)
  <2> DEFINE v == <<"container_ready">>
  <2>0. v \notin {Absent, <<"secret">>, <<"object">>}
    BY DEF Absent
  <2>1. NormalSignal("container_ready", Ready)
          = { <<"service_unhealthy", v >> }
    BY NormalOfWatcher
  <2> HIDE DEF v
  <2>2. /\ x.fields.signal_name = "container_ready" /\ x.fields.value = Ready /\ points # {}
        /\ \A q \in points : /\ q.fields.signal_name = "service_unhealthy"
                             /\ q.fields.value = v
    BY <1>1, <1>2, <1>6, <2>0, <2>1
  <2>3. v # <<"container_not_ready">>
    BY DEF v
  <2> QED
    BY <2>2, <2>3, ReadyOrNot DEF Told, TellsOom, TellsUnready, KeepsOom, KeepsUnready, v
<1>7. ASSUME NEW n \in Nat, x = Signal(p, "restart_count", Number(n)) PROVE Told(x, points)
  <2>1. NormalSignal("restart_count", Number(n))
          = { <<"container_restart_count", Number(n)>> }
    BY <1>3, NormalOfWatcher
  <2>2. /\ x.fields.signal_name = "restart_count" /\ points # {}
        /\ \A q \in points : q.fields.signal_name = "container_restart_count"
    BY <1>1, <1>2, <1>3, <1>7, <2>1
  <2> QED
    BY <2>2 DEF Told, TellsOom, TellsUnready, KeepsOom, KeepsUnready
<1>8. ASSUME x = Signal(p, "exit_code_oom", Number(OomExitCode)) PROVE Told(x, points)
  <2> DEFINE v == <<"exit_code_137">>
  <2>0. v \notin {Absent, <<"secret">>, <<"object">>}
    BY DEF Absent
  <2>1. NormalSignal("exit_code_oom", Number(OomExitCode))
          = { <<"pod_oom_event", v >> }
    BY <1>3, NormalOfWatcher
  <2> HIDE DEF v
  <2>2. /\ x.fields.signal_name = "exit_code_oom" /\ points # {}
        /\ \A q \in points : /\ q.fields.signal_name = "pod_oom_event"
                             /\ q.fields.value = v
    BY <1>1, <1>2, <1>8, <2>0, <2>1
  <2> QED
    BY <2>2 DEF Told, TellsOom, TellsUnready, KeepsOom, KeepsUnready, v
<1>9. ASSUME NEW r \in MappedReasons, x = Signal(p, "pod_waiting_reason", <<r>>)
      PROVE  Told(x, points)
  <2>1. NormalSignal("pod_waiting_reason", <<r>>) = { <<"service_unhealthy", <<r>> >> }
    BY NormalOfWatcher
  <2>2. r \notin {"secret", "object"} /\ <<r>> # <<"container_not_ready">>
    BY DEF MappedReasons
  <2>3. /\ x.fields.signal_name = "pod_waiting_reason" /\ points # {}
        /\ \A q \in points : q.fields.signal_name = "service_unhealthy" /\ q.fields.value = <<r>>
    BY <1>1, <1>2, <1>3, <1>9, <2>1, <2>2
  <2> QED
    BY <2>2, <2>3 DEF Told, TellsOom, TellsUnready, KeepsOom, KeepsUnready
<1>10. \/ \E phase \in MappedPhases : x = Signal(p, "pod_phase", <<phase>>)
       \/ x = Signal(p, "container_ready", NotReady) \/ x = Signal(p, "container_ready", Ready)
       \/ \E n \in Nat : x = Signal(p, "restart_count", Number(n))
       \/ x = Signal(p, "exit_code_oom", Number(OomExitCode))
       \/ \E r \in MappedReasons : x = Signal(p, "pod_waiting_reason", <<r>>)
  <2>1. \A b \in BOOLEAN : <<"boolean", b>> \in {NotReady, Ready}
    BY DEF Ready, NotReady
  <2>2. MappedWords \cap Phases = MappedPhases /\ MappedWords \cap WaitingReasons = MappedReasons
    BY ThreeStates DEF MappedWords, MappedReasons, MappedPhases, Phases
  <2> QED
    BY <2>1, <2>2, Zenon DEF Signals
<1> QED
  BY <1>4, <1>5, <1>6, <1>7, <1>8, <1>9, <1>10 DEF points

LEMMA ReasonIsMapped ==
    ASSUME NEW x \in AllSignals(Words), NEW mode
    PROVE  /\ x.fields.ts = <<"utc_ms">> /\ Get(x.fields, "ts") = <<"utc_ms">>
           /\ Get(x.fields, "value") # <<"object">>
           /\ x \in AllSignals(MappedWords) => Told(x, NormalPoints(x, mode))
           /\ NormalPoints(x, mode) # {} => x \in AllSignals(MappedWords)
<1>1. PICK p \in Pods : x \in Signals(p, Words)
  BY DEF AllSignals
<1>2. PICK name, value : x = Signal(p, name, value)
  BY <1>1, Zenon DEF Signals
<1>3. x.fields.ts = <<"utc_ms">> /\ Get(x.fields, "ts") = <<"utc_ms">>
  BY <1>2 DEF Signal, Get
<1>6. Get(x.fields, "value") # <<"object">>
  <2>1. PICK n, v : x = Signal(p, n, v) /\ v # <<"object">>
    <3>1. \A a : /\ a # "object" => <<a>> # <<"object">>
                 /\ Number(a) # <<"object">> /\ <<"boolean", a>> # <<"object">>
      BY DEF Number
    <3>2. \A a \in Words : a # "object"
      BY DEF Words, WaitingReasons, PullErrors, Phases
    <3> QED
      BY <1>1, <3>1, <3>2, Zenon DEF Signals
  <2> QED
    BY <2>1 DEF Signal, Get
<1>4. x \in AllSignals(MappedWords) => Told(x, NormalPoints(x, mode))
  BY SignalIsTold, Zenon DEF AllSignals
<1>5. ASSUME x \notin AllSignals(MappedWords) PROVE NormalPoints(x, mode) = {}
  <2>1. x \notin Signals(p, MappedWords)
    BY <1>5 DEF AllSignals
  <2>2. \/ \E r \in WaitingReasons \ MappedReasons : x = Signal(p, "pod_waiting_reason", <<r>>)
        \/ \E phase \in Phases \ MappedPhases : x = Signal(p, "pod_phase", <<phase>>)
    <3>1. \/ \E r \in Words \cap WaitingReasons : x = Signal(p, "pod_waiting_reason", <<r>>)
          \/ \E phase \in Words \cap Phases : x = Signal(p, "pod_phase", <<phase>>)
      BY <1>1, <2>1, Zenon DEF Signals
    <3>2. ASSUME NEW r \in WaitingReasons, x = Signal(p, "pod_waiting_reason", <<r>>)
          PROVE  r \notin MappedReasons
      BY <2>1, <3>2 DEF Signals, MappedWords
    <3>3. ASSUME NEW phase \in Phases, x = Signal(p, "pod_phase", <<phase>>)
          PROVE  phase \notin MappedPhases
      BY <2>1, <3>3 DEF Signals, MappedWords
    <3> QED
      BY <3>1, <3>2, <3>3
  <2>3. PICK n, word : x = Signal(p, n, <<word>>) /\ NormalSignal(n, <<word>>) = {}
    <3>1. ASSUME NEW r \in WaitingReasons \ MappedReasons
          PROVE  NormalSignal("pod_waiting_reason", <<r>>) = {}
      BY NormalOfWatcher
    <3>2. ASSUME NEW phase \in Phases \ MappedPhases
          PROVE  NormalSignal("pod_phase", <<phase>>) = {}
      BY NormalOfWatcher
    <3> QED
      BY <2>2, <3>1, <3>2, Zenon
  <2>4. Get(x.fields, "signal_name") = n /\ Get(x.fields, "value") = <<word>>
    BY <2>3 DEF Signal, Get
  <2> QED
    BY <2>3, <2>4 DEF NormalPoints
<1> QED
  BY <1>3, <1>4, <1>5, <1>6

(* normalize_window on what the watcher has seen: all of it is kept, or a  *)
(* signal has a reason the map does not know.                              *)
LEMMA SeenIsKept ==
    ASSUME NEW w \in Seq(AllSignals(Words)), NEW mode
    PROVE  LET result == Normalized(w, mode)
           IN  \/ result.code = "0" /\ Keeps(w, result.window)
               \/ result.code = "1" /\ w \notin Seq(AllSignals(MappedWords))
<1> DEFINE result == Normalized(w, mode)
           n == Len(w)
           points == [i \in DOMAIN w |-> NormalPoints(w[i], mode)]
           bad == {i \in DOMAIN w : points[i] = {}}
<1>1. /\ n \in Nat /\ DOMAIN w = 1 .. n
      /\ \A i \in 1 .. n : w[i] \in AllSignals(Words)
  BY LenProperties, ElementOfSeq
<1>2. CASE bad = {}
  <2>1. \A i \in 1 .. n : NormalPoints(w[i], mode) # {}
    BY <1>1, <1>2
  <2>2. \A i \in 1 .. n : Told(w[i], NormalPoints(w[i], mode))
    BY <1>1, <2>1, ReasonIsMapped
  <2> DEFINE after == result.window
  <2>3. /\ result.code = "0" /\ DOMAIN after = 1 .. n
        /\ \A i \in 1 .. n : after[i] \in NormalPoints(w[i], mode)
    BY <1>1, <2>1, NormalizedIsRuled
  <2>4. after = [i \in 1 .. n |-> after[i]]
    <3>1. result = [code |-> "0", window |->
                      [i \in DOMAIN w |-> CHOOSE point \in points[i] : TRUE]]
      BY <1>2, Zenon DEF Normalized
    <3> HIDE DEF points, result
    <3>2. after = [i \in DOMAIN w |-> CHOOSE point \in points[i] : TRUE]
      BY <3>1
    <3> QED
      BY <1>1, <3>2
  <2> HIDE DEF after, result
  <2>5. Len(after) = n
    <3> DEFINE T == {after[i] : i \in 1 .. n}
    <3>1. after \in [1 .. n -> T]
      BY <2>4
    <3> HIDE DEF T
    <3> QED
      BY <1>1, <3>1, IsASeq
  <2>6. \A i \in 1 .. n : /\ TellsOom(w[i]) => KeepsOom(after[i])
                          /\ TellsUnready(w[i]) <=> KeepsUnready(after[i])
    BY <2>2, <2>3 DEF Told
  <2>7. Shows(w, "exit_code_oom", {Number(OomExitCode)})
          => Shows(after, "pod_oom_event", {<<"exit_code_137">>})
    BY <1>1, <2>3, <2>6 DEF Shows, TellsOom, KeepsOom
  <2>8. Shows(w, "container_ready", {<<"boolean", FALSE>>})
          <=> Shows(after, "service_unhealthy", {<<"container_not_ready">>})
    <3>1. Shows(w, "container_ready", {NotReady})
          <=> Shows(after, "service_unhealthy", {<<"container_not_ready">>})
      BY <1>1, <2>3, <2>6 DEF Shows, TellsUnready, KeepsUnready
    <3> QED
      BY <3>1, Zenon DEF NotReady
  <2>9. Keeps(w, after)
    BY <2>5, <2>7, <2>8, Zenon DEF Keeps
  <2> QED
    BY <2>3, <2>9 DEF after, result
<1>3. CASE bad # {}
  <2>1. bad \subseteq Nat /\ bad \subseteq 1 .. n
    BY <1>1
  <2>2. Min(bad) \in bad
    <3> HIDE DEF bad
    <3>1. \E x \in bad : \A y \in bad : x <= y
      BY <1>3, <2>1, LeastNat
    <3> QED
      BY <3>1 DEF Min
  <2>3. ~Crashes(w[Min(bad)])
    <3>1. /\ Get(w[Min(bad)].fields, "ts") = <<"utc_ms">>
          /\ Get(w[Min(bad)].fields, "value") # <<"object">>
      BY <1>1, <2>1, <2>2, ReasonIsMapped
    <3>2. <<"utc_ms">> # OutOfRange
      BY DEF OutOfRange
    <3> QED
      BY <3>1, <3>2, Zenon DEF Crashes, Unhashable
  <2>4. result = Exit("1")
    BY <1>3, <2>3, Zenon DEF Normalized
  <2>5. w \notin Seq(AllSignals(MappedWords))
    <3> SUFFICES ASSUME w \in Seq(AllSignals(MappedWords)) PROVE FALSE
      OBVIOUS
    <3>1. PICK i \in 1 .. n : NormalPoints(w[i], mode) = {}
      BY <1>1, <1>3
    <3>2. w[i] \in AllSignals(MappedWords)
      BY <1>1, ElementOfSeq
    <3>3. Told(w[i], NormalPoints(w[i], mode))
      BY <1>1, <3>2, ReasonIsMapped
    <3> QED
      BY <3>1, <3>3 DEF Told
  <2> HIDE DEF result
  <2>6. result.code = "1"
    BY <2>4 DEF Exit
  <2> QED
    BY <2>5, <2>6 DEF result
<1> QED
  BY <1>2, <1>3

LEMMA SignalsGrow ==
    ASSUME NEW R1, NEW R2, R1 \subseteq R2
    PROVE  AllSignals(R1) \subseteq AllSignals(R2)
<1>1. \A r \in R1 : r \in R2
  OBVIOUS
<1>2. ASSUME NEW p \in Pods, NEW x \in Signals(p, R1) PROVE x \in Signals(p, R2)
  BY <1>1, <1>2, Zenon DEF Signals
<1> QED
  BY <1>2, Zenon DEF AllSignals

LEMMA WordsGrow == MappedWords \subseteq SeenWords /\ SeenWords \subseteq Words
BY ThreeStates DEF SeenWords, Words, Phases, MappedWords, MappedReasons, MappedPhases

(* A window that was collected is what the watcher sees of the pods now:   *)
(* they are not looked at again.                                           *)
CollectedInv ==
    /\ origin = "report" => \E w \in Seq(AllSignals(MappedWords)) : file = Scenario(w)
    /\ origin = "scrape" => \E w \in Seq(AllSignals(SeenWords)) : file = Scenario(w)

LEMMA CollectedStep == WInv /\ CollectedInv /\ [Next]_vars => CollectedInv'
<1> SUFFICES ASSUME WInv, CollectedInv, [Next]_vars PROVE CollectedInv'
  OBVIOUS
<1>1. CASE UNCHANGED vars
  BY <1>1 DEF vars, podVars, toolVars, CollectedInv, SeenWords, Unmapped
<1>2. CASE PodStep
  <2>1. file.kind = "list"
    BY <1>2, Wrappers DEF PodStep, NoFile
  <2>2. origin \notin {"report", "scrape"}
    BY <2>1, Wrappers DEF CollectedInv
  <2> QED
    BY <1>2, <2>2 DEF PodStep, toolVars, CollectedInv
<1>3. CASE Collect
  <2>1. UNCHANGED podVars
    BY <1>3 DEF Collect, Write
  <2>2. SeenWords' = SeenWords
    BY <2>1 DEF SeenWords, Unmapped, podVars
  <2>3. PICK p \in Pods :
          \/ file' = Scenario(FaultEvent(p).telemetry_window) /\ origin' = "report"
          \/ file' = Scenario(PostTelemetry(DeploymentOfPod(Meta[p]), << >>)) /\ origin' = "scrape"
          \/ origin' = "alert"
    BY <1>3 DEF Collect, Write
  <2> QED
    BY <2>2, <2>3, EventTyped, ScrapeTyped DEF CollectedInv
<1>4. ASSUME NEW result, NEW f, Put(result, f) PROVE CollectedInv'
  <2>1. UNCHANGED podVars /\ (origin' = "output" \/ UNCHANGED <<file, origin>>)
    BY <1>4 DEF Put
  <2> QED
    BY <2>1 DEF CollectedInv, SeenWords, Unmapped, podVars
<1>5. CASE RunValidate
  BY <1>5 DEF RunValidate, CollectedInv, SeenWords, Unmapped, podVars
<1>6. CASE RunAuto \/ RunPrometheus \/ RunEvents \/ RunExport \/ RunLogs \/ RunSpans
             \/ \E windowOnly \in BOOLEAN : RunScenario(windowOnly)
  <2>1. \E result, f : Put(result, f)
    BY <1>6, Zenon DEF RunAuto, RunPrometheus, RunEvents, RunExport, RunLogs, RunSpans,
       RunScenario, RunOnDict, PutWindow
  <2> QED
    BY <1>4, <2>1
<1> QED
  BY <1>1, <1>2, <1>3, <1>5, <1>6 DEF Next, Run

LEMMA Collected == Spec => [](WInv /\ CollectedInv)
<1>1. Init => WInv /\ CollectedInv
  BY InitPods DEF Init, CollectedInv
<1> QED
  BY <1>1, WStep, CollectedStep, PTL DEF Spec

(* Normalising what the watcher sees loses nothing, for any number of pods *)
(* and containers: an event is always accepted and keeps its memory kill,  *)
(* a scrape is refused as a whole or still tells whether the pods are      *)
(* ready.                                                                  *)
THEOREM WindowsAreWhole == Spec => WindowIsWholeOrRefused
<1>1. ASSUME WInv, CollectedInv, RunAuto, origin \in {"report", "scrape"}
      PROVE  \/ code' = "0" /\ Keeps(Window, WindowOf(file'))
             \/ code' = "1" /\ origin = "scrape" /\ Unmapped
  <2>1. PICK w \in Seq(AllSignals(SeenWords)) :
            file = Scenario(w) /\ (origin = "report" => w \in Seq(AllSignals(MappedWords)))
    <3>1. CASE origin = "report"
      <4>1. PICK w \in Seq(AllSignals(MappedWords)) : file = Scenario(w)
        BY <3>1, <1>1 DEF CollectedInv
      <4>2. AllSignals(MappedWords) \subseteq AllSignals(SeenWords)
        BY WordsGrow, SignalsGrow
      <4>3. w \in Seq(AllSignals(SeenWords))
        BY <4>1, <4>2
      <4> QED
        BY <4>1, <4>3
    <3>2. CASE origin = "scrape"
      BY <1>1, <3>2 DEF CollectedInv
    <3> QED
      BY <1>1, <3>1, <3>2
  <2> DEFINE result == Normalized(w, "mock_scenario")
  <2>2. w \in Seq(AllSignals(Words))
    <3>1. AllSignals(SeenWords) \subseteq AllSignals(Words)
      BY WordsGrow, SignalsGrow
    <3> QED
      BY <3>1
  <2>3. \/ result.code = "0" /\ Keeps(w, result.window)
        \/ result.code = "1" /\ w \notin Seq(AllSignals(MappedWords))
    BY <2>2, SeenIsKept
  <2>4. AutoNormalized(file) = result
    BY <2>1, Wrappers DEF AutoNormalized
  <2> HIDE DEF result
  <2>5. /\ code' = result.code
        /\ file' = IF result.code = "0" THEN ListOf(result.window) ELSE file
    BY <1>1, <2>4 DEF RunAuto, PutWindow, Put
  <2>6. Window = w
    BY <2>1, Wrappers DEF Window
  <2>7. CASE result.code = "0" /\ Keeps(w, result.window)
    BY <2>5, <2>6, <2>7, Wrappers
  <2>8. CASE result.code = "1" /\ w \notin Seq(AllSignals(MappedWords))
    <3>1. origin = "scrape"
      BY <1>1, <2>1, <2>8
    <3>2. Unmapped
      BY <2>1, <2>8 DEF SeenWords
    <3> QED
      BY <2>5, <2>8, <3>1, <3>2
  <2> QED
    BY <2>3, <2>7, <2>8
<1>2. WInv /\ CollectedInv /\ [Next]_vars =>
        [(origin \in {"report", "scrape"} /\ RunAuto) =>
            \/ code' = "0" /\ Keeps(Window, WindowOf(file'))
            \/ code' = "1" /\ origin = "scrape" /\ Unmapped]_vars
  BY <1>1
<1> QED
  BY <1>2, Collected, PTL DEF Spec, WindowIsWholeOrRefused

-----------------------------------------------------------------------------
(* The two sources.                                                        *)

\* The names Kubernetes gives: those of the pods a ReplicaSet owns are the
\* ReplicaSet's with a suffix, and its name is the deployment's with a hash.
NamedByControllers ==
    \A p \in Pods : Meta[p].owner # Absent =>
        \E d \in Seq(Segments) \ {<< >>}, h \in Segments, x \in Segments :
            /\ Meta[p].owner = Append(d, h)
            /\ Meta[p].name = Append(Append(d, h), x)

\* An alert on a pod carries no label that names its deployment.
LEMMA AlertNamesPod ==
    ASSUME NEW p \in Pods
    PROVE  DeploymentOf(AlertOf(p).labels)
             = Or(StripSuffixes(Meta[p].name, 2), Unknown)
<1> DEFINE labels == AlertOf(p).labels
<1>1. labels = [namespace |-> Namespace, pod |-> Meta[p].name]
  BY DEF AlertOf
<1>2. NamesOnlyPod(labels) /\ Get(labels, "pod") = Meta[p].name
  BY <1>1 DEF NamesOnlyPod, Get
<1> HIDE DEF labels
<1> QED
  BY <1>2, NamedByPod DEF labels

\* For every pod a Deployment owns, an alert and an event have one key in the
\* cooldown map - with names of any length, hashes and suffixes.
THEOREM SourcesAgreeOnKeys ==
    ASSUME NamedByControllers
    PROVE  Spec => []SourcesShareKeys
<1>1. SourcesShareKeys
  <2> SUFFICES ASSUME NEW p \in Pods, Meta[p].owner # Absent
               PROVE  DeploymentOf(AlertOf(p).labels) = FaultEvent(p).deployment
    BY DEF SourcesShareKeys
  <2>1. PICK d \in Seq(Segments) \ {<< >>}, h \in Segments, x \in Segments :
            /\ Meta[p].owner = Append(d, h)
            /\ Meta[p].name = Append(Append(d, h), x)
    BY DEF NamedByControllers
  <2>2. StripSuffixes(Meta[p].name, 2) = d /\ StripSuffixes(Meta[p].owner, 1) = d
    BY <2>1, StripTwo
  <2>3. FaultEvent(p).deployment = d
    BY <2>2 DEF FaultEvent, DeploymentOfPod
  <2>4. DeploymentOf(AlertOf(p).labels) = d
    BY <2>2, AlertNamesPod DEF Or, Absent
  <2> QED
    BY <2>3, <2>4
<1> QED
  BY <1>1, PTL
=============================================================================
