-------------------------------- MODULE Lemmas -------------------------------
(***************************************************************************)
(* Facts about the operators several components are built from: the deque  *)
(* of times that the breaker and the flap tracker prune, and the names of  *)
(* objects that the forwarder and the watcher take apart.                  *)
(***************************************************************************)
EXTENDS Forwarder, Deque, SequenceTheorems, WellFoundedInduction, TLAPS

-----------------------------------------------------------------------------
(* A nonempty set of natural numbers has a least element.                  *)
LEMMA LeastNat ==
    ASSUME NEW T, T \subseteq Nat, T # {}
    PROVE  \E x \in T : \A y \in T : x <= y
<1>1. PICK x \in T : \A y \in T : <<y, x>> \notin OpToRel(<, Nat)
  BY WFMin, NatLessThanWellFounded, Zenon
<1>2. \A y \in T : ~(y < x)
  BY <1>1, Zenon DEF OpToRel
<1>3. QED
  BY <1>2

(* What SubSeq(f, i, Len(f)) holds.                                        *)
LEMMA TailFrom ==
    ASSUME NEW S, NEW f \in Seq(S), NEW i \in 1 .. Len(f)
    PROVE  LET g == SubSeq(f, i, Len(f)) IN
           /\ g \in Seq(S)
           /\ Len(g) = Len(f) - i + 1
           /\ \A k \in 1 .. Len(g) : g[k] = f[i + k - 1]
<1>1. Len(f) \in Int /\ i \in Int /\ i <= Len(f)
  BY LenProperties
<1>2. \A k \in i .. Len(f) : f[k] \in S
  BY ElementOfSeq
<1>3. QED
  BY <1>1, <1>2, SubSeqProperties

-----------------------------------------------------------------------------
(* The deque of times.                                                     *)

(* The popleft loop stops: at the first entry that is not older than the   *)
(* cutoff, or past the end.                                                *)
LEMMA FirstKeptProperties ==
    ASSUME NEW f \in Seq(Times), NEW cutoff \in Int
    PROVE  LET i == FirstKept(f, cutoff) IN
           /\ i \in 1 .. (Len(f) + 1)
           /\ \A j \in 1 .. (i - 1) : f[j] < cutoff
           /\ i <= Len(f) => f[i] >= cutoff
<1> DEFINE T == {i \in Nat : i >= 1 /\ (i <= Len(f) => f[i] >= cutoff)}
           P(i) == /\ \A j \in 1 .. (i - 1) : f[j] < cutoff
                   /\ i <= Len(f) => f[i] >= cutoff
<1>1. Len(f) + 1 \in T
  BY LenProperties
<1>2. PICK i \in T : \A k \in T : i <= k
  BY <1>1, LeastNat
<1>3. i \in 1 .. (Len(f) + 1)
  BY <1>1, <1>2
<1>4. ASSUME NEW j \in 1 .. (i - 1)
      PROVE  f[j] < cutoff
  <2>1. j \in Nat /\ j >= 1 /\ j <= Len(f) /\ j \notin T
    BY <1>2, <1>3, LenProperties
  <2>2. f[j] \in Nat
    BY <2>1, ElementOfSeq DEF Times
  <2>3. QED
    BY <2>1, <2>2
<1>5. P(i)
  BY <1>2, <1>4
<1>6. \E k \in 1 .. (Len(f) + 1) : P(k)
  BY <1>3, <1>5
<1>7. QED
  BY <1>6, Zenon DEF FirstKept

(* Recording a time keeps the tail of a deque, from the first entry that   *)
(* has not left the window: at least the time itself.                      *)
LEMMA RecordingProperties ==
    ASSUME NEW d \in Seq(Times), NEW t \in Times, NEW w \in Nat
    PROVE  \E i \in 1 .. (Len(d) + 1) :
             LET g == DropOld(Append(d, t), t - w) IN
             /\ g \in Seq(Times)
             /\ Len(g) = Len(d) + 2 - i
             /\ \A k \in 1 .. Len(g) : g[k] = Append(d, t)[i + k - 1]
             /\ \A j \in 1 .. (i - 1) : d[j] < t - w
             /\ Append(d, t)[i] >= t - w
<1> DEFINE f == Append(d, t)
           c == t - w
           i == FirstKept(f, c)
           g == DropOld(f, c)
<1>1. t \in Nat /\ c \in Int /\ Len(d) \in Nat
  BY LenProperties DEF Times
<1>2. /\ f \in Seq(Times)
      /\ Len(f) = Len(d) + 1
      /\ f[Len(f)] = t
      /\ \A j \in 1 .. Len(d) : f[j] = d[j]
  BY <1>1, AppendProperties DEF Times
<1>3. /\ i \in 1 .. (Len(f) + 1)
      /\ \A j \in 1 .. (i - 1) : f[j] < c
      /\ i <= Len(f) => f[i] >= c
  BY <1>1, <1>2, FirstKeptProperties
<1>4. i <= Len(f)
  <2>1. SUFFICES ASSUME i = Len(f) + 1 PROVE FALSE
    BY <1>1, <1>2, <1>3
  <2>2. Len(f) \in 1 .. (i - 1)
    BY <1>1, <1>2, <2>1
  <2>3. t < c
    BY <1>2, <1>3, <2>2
  <2>4. QED
    BY <1>1, <2>3
<1>5. i \in 1 .. Len(f)
  BY <1>1, <1>2, <1>3, <1>4
<1>6. /\ g \in Seq(Times)
      /\ Len(g) = Len(f) - i + 1
      /\ \A k \in 1 .. Len(g) : g[k] = f[i + k - 1]
  BY <1>2, <1>5, TailFrom DEF DropOld
<1> HIDE DEF i, g
<1>7. i \in 1 .. (Len(d) + 1)
  BY <1>1, <1>2, <1>3, <1>4
<1>8. \A j \in 1 .. (i - 1) : d[j] < c
  BY <1>1, <1>2, <1>3, <1>7
<1>9. Len(g) = Len(d) + 2 - i
  BY <1>1, <1>2, <1>6, <1>7
<1>10. WITNESS i \in 1 .. (Len(d) + 1)
<1>11. QED
  BY <1>2, <1>3, <1>4, <1>6, <1>7, <1>8, <1>9 DEF g

-----------------------------------------------------------------------------
(* Names.                                                                  *)

(* rsplit takes the last segments off a name that has more.                *)
LEMMA StripTwo ==
    ASSUME NEW S, NEW d \in Seq(S), d # << >>, NEW h \in S, NEW x \in S
    PROVE  /\ StripSuffixes(Append(Append(d, h), x), 2) = d
           /\ StripSuffixes(Append(d, h), 1) = d
<1> DEFINE n == Len(d)
           r == Append(d, h)
           q == Append(r, x)
<1>1. n \in Nat /\ n > 0 /\ d = [i \in 1 .. n |-> d[i]] /\ \A i \in 1 .. n : d[i] \in S
  OBVIOUS
<1>2. r \in Seq(S) /\ Len(r) = n + 1 /\ \A i \in 1 .. n : r[i] = d[i]
  OBVIOUS
<1>3. q \in Seq(S) /\ Len(q) = n + 2 /\ \A i \in 1 .. n : q[i] = d[i]
  BY <1>2
<1>4. SubSeq(q, 1, n) = d /\ SubSeq(r, 1, n) = d
  BY <1>1, <1>2, <1>3
<1>5. Len(q) > 2 /\ Len(q) - 2 = n /\ Len(r) > 1 /\ Len(r) - 1 = n
  BY <1>1, <1>2, <1>3
<1>6. StripSuffixes(q, 2) = d
  <2> HIDE DEF q, n
  <2> QED
    BY <1>4, <1>5, Zenon DEF StripSuffixes
<1>7. StripSuffixes(r, 1) = d
  <2> HIDE DEF r, n
  <2> QED
    BY <1>4, <1>5, Zenon DEF StripSuffixes
<1> QED
  BY <1>6, <1>7

(* No label but that of the pod names the deployment.                      *)
NamesOnlyPod(labels) ==
    \A key \in {"deployment", "workload", "label_app", "pod_name"} : Get(labels, key) = Absent

(* The deployment is then what is left of the pod's name, if it has one.   *)
LEMMA NamedByPod ==
    ASSUME NEW labels, NamesOnlyPod(labels)
    PROVE  DeploymentOf(labels) = Or(StripSuffixes(Get(labels, "pod"), 2), Unknown)
<1> DEFINE byName == <<"deployment", "workload", "label_app">>
           byPod == <<"pod", "pod_name">>
           name == Get(labels, "pod")
<1>1. \A i \in DOMAIN byName : Get(labels, byName[i]) = Absent
  BY DEF NamesOnlyPod
<1>2. FirstOf(labels, byName) = Absent
  BY <1>1 DEF FirstOf
<1>3. Get(labels, "pod_name") = Absent
  BY DEF NamesOnlyPod
<1>4. FirstOf(labels, byPod) = name
  <2> DEFINE present == {i \in DOMAIN byPod : Get(labels, byPod[i]) # Absent}
  <2>1. CASE name = Absent
    <3>1. present = {}
      BY <1>3, <2>1
    <3> QED
      BY <2>1, <3>1 DEF FirstOf
  <2>2. CASE name # Absent
    <3>1. present = {1}
      BY <1>3, <2>2
    <3>2. (CHOOSE i \in present : \A j \in present : i <= j) = 1
      BY <3>1
    <3>3. labels["pod"] = name
      BY <2>2 DEF Get
    <3> QED
      BY <3>1, <3>2, <3>3 DEF FirstOf
  <2> QED
    BY <2>1, <2>2
<1> QED
  BY <1>2, <1>4 DEF DeploymentOf, Or
=============================================================================
