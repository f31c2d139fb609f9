-------------------------- MODULE CompositionProofs --------------------------
(***************************************************************************)
(* The two compositions of the watch loop, proved.  FlapLoop: it is still  *)
(* the loop, and the cooldown makes the flap limit unreachable for every   *)
(* cooldown, window and threshold in the ratio of the defaults.  Delivery: *)
(* what the loop keeps of a queue whose places are used again, and the     *)
(* naming on which the cooldown of a deployment depends.                   *)
(***************************************************************************)
EXTENDS FlapLoop, Delivery, WatchLoopProofs, Lemmas

CONSTANT Segments    \* what stands between the dashes of a name

-----------------------------------------------------------------------------
(* The flap tracker beside the loop.                                       *)

(* Every service has one key, so its hits all come from one deployment.    *)
OneKeyEach == \A j, k \in Deployments : ServiceKey[j] = ServiceKey[k] => j = k

(* As many cooldowns as there are gaps between the hits of a flapping      *)
(* service are no shorter than the window.  The defaults: 300 * 2 >= 600.  *)
WindowIsCovered ==
    /\ FlapThreshold >= 2
    /\ FlapWindowS <= (FlapThreshold - 1) * CooldownS

HitsOf(k) == ages[ServiceKey[k]]
LastAge(f) == f[Len(f)]

AgesTyped == ages \in [Services -> Seq(0 .. Oldest)]

(* Hits of a service are more than a cooldown apart.                       *)
Spread(f) ==
    \A i, j \in 1 .. Len(f) :
        i < j => f[i] = Oldest \/ f[i] - f[j] >= (j - i) * (CooldownS + 1)

(* The last hit of k is a cooldown old when the next call for k starts.    *)
Rested(k) ==
    CASE pc = "handle" /\ current = k /\ stage = "detect"   -> LastAge(HitsOf(k)) >= CooldownS
      [] pc = "handle" /\ current = k /\ stage = "answered" -> LastAge(HitsOf(k)) >= CooldownS + 1
      [] pc = "handle" /\ current = k /\ stage = "gated"    -> TRUE
      [] OTHER -> LastAge(HitsOf(k)) + left[k] >= CooldownS

HInv ==
    /\ AgesTyped
    /\ stage \in {"detect", "answered", "gated"}
    /\ \A s \in Services : Spread(ages[s])
    /\ pc # "down" => \A k \in Deployments : HitsOf(k) # <<>> => Rested(k)
    /\ FlappingIsUnreachable

-----------------------------------------------------------------------------
LEMMA FlapStepIsStep == [FlapNext]_flapVars => [Next]_vars
BY DEF FlapNext, FlapTick, FlapUntimed, Track, Next, flapVars

LEMMA KeysAreServices == \A k \in Deployments : ServiceKey[k] \in Services
BY DEF Services

(* The tracker only watches: the loop with it is the loop, and all that is *)
(* proved of WatchLoop holds of it.                                        *)
THEOREM FlapLoopIsLoop == FlapSpec => Spec
<1>1. FlapInit => Init
  BY DEF FlapInit
<1> QED
  BY <1>1, FlapStepIsStep, PTL DEF FlapSpec, Spec

(* A hit more than a cooldown after the last keeps the hits apart.         *)
LEMMA AppendSpread ==
    ASSUME NEW f \in Seq(0 .. Oldest), Spread(f),
           f # <<>> => LastAge(f) >= CooldownS + 1
    PROVE  Spread(Append(f, 0)) /\ Append(f, 0) \in Seq(0 .. Oldest)
<1> USE LoopConstants, FlapConstants
<1> DEFINE h == Append(f, 0)
           n == Len(f)
<1>1. Oldest \in Nat /\ n \in Nat
  BY DEF Oldest
<1>2. h \in Seq(0 .. Oldest) /\ Len(h) = n + 1 /\ h[n + 1] = 0
      /\ \A i \in 1 .. n : h[i] = f[i] /\ f[i] \in 0 .. Oldest
  BY <1>1
<1>3. ASSUME NEW i \in 1 .. n
      PROVE  h[i] = Oldest \/ h[i] >= ((n + 1) - i) * (CooldownS + 1)
  <2>1. n \in 1 .. n /\ f[n] >= CooldownS + 1
    BY <1>1, <1>3, EmptySeq DEF LastAge
  <2>2. CASE i = n
    BY <2>1, <2>2, <1>2
  <2>3. CASE i < n
    <3>1. f[i] = Oldest \/ f[i] - f[n] >= (n - i) * (CooldownS + 1)
      BY <2>1, <2>3 DEF Spread
    <3>2. ((n + 1) - i) * (CooldownS + 1) = (n - i) * (CooldownS + 1) + (CooldownS + 1)
      BY <1>1
    <3>3. f[i] \in Int /\ f[n] \in Int
      BY <1>1, <1>2, <2>1
    <3>4. (n - i) * (CooldownS + 1) \in Int
      BY <1>1
    <3> QED
      BY <1>2, <2>1, <3>1, <3>2, <3>3, <3>4
  <2> QED
    BY <2>2, <2>3, <1>1
<1>4. ASSUME NEW i \in 1 .. Len(h), NEW j \in 1 .. Len(h), i < j
      PROVE  h[i] = Oldest \/ h[i] - h[j] >= (j - i) * (CooldownS + 1)
  <2>1. CASE j = n + 1
    BY <1>1, <1>2, <1>3, <1>4, <2>1
  <2>2. CASE j # n + 1
    <3>1. i \in 1 .. n /\ j \in 1 .. n
      BY <1>1, <1>2, <1>4, <2>2
    <3> QED
      BY <1>2, <1>4, <3>1 DEF Spread
  <2> QED
    BY <2>1, <2>2
<1> QED
  BY <1>2, <1>4 DEF Spread

(* What the popleft loop leaves is spread as well.                         *)
LEMMA SuffixSpread ==
    ASSUME NEW f \in Seq(0 .. Oldest), Spread(f), NEW d \in 1 .. Len(f)
    PROVE  LET g == SubSeq(f, d, Len(f))
           IN  /\ Spread(g) /\ g \in Seq(0 .. Oldest) /\ Len(g) = Len(f) - d + 1
               /\ \A i \in 1 .. Len(g) : g[i] = f[i + d - 1]
<1> DEFINE g == SubSeq(f, d, Len(f))
<1>1. Len(f) \in Nat /\ \A i \in d .. Len(f) : f[i] \in 0 .. Oldest
  BY LoopConstants, FlapConstants DEF Oldest
<1>2. g \in Seq(0 .. Oldest) /\ Len(g) = Len(f) - d + 1
      /\ \A i \in 1 .. Len(f) - d + 1 : g[i] = f[d + i - 1]
  BY <1>1, SubSeqProperties
<1>3. \A i \in 1 .. Len(g) : g[i] = f[i + d - 1] /\ i + d - 1 \in 1 .. Len(f)
  BY <1>1, <1>2
<1>4. ASSUME NEW i \in 1 .. Len(g), NEW j \in 1 .. Len(g), i < j
      PROVE  g[i] = Oldest \/ g[i] - g[j] >= (j - i) * (CooldownS + 1)
  <2>1. (j + d - 1) - (i + d - 1) = j - i /\ i + d - 1 < j + d - 1
    BY <1>1, <1>2, <1>4
  <2> QED
    BY <1>3, <2>1 DEF Spread
<1> QED
  BY <1>2, <1>3, <1>4 DEF Spread

(* A sequence that is not empty has one element or more.                   *)
LEMMA OneOrMore == \A i \in Nat : i >= 1 => i = 1 \/ i > 1
  OBVIOUS

(* Spread hits, none older than the window, are fewer than the threshold.  *)
LEMMA SpreadIsFew ==
    ASSUME NEW f \in Seq(0 .. Oldest), Spread(f), WindowIsCovered,
           f # <<>>, f[1] <= FlapWindowS
    PROVE  Len(f) < FlapThreshold
<1> USE LoopConstants, FlapConstants
<1> DEFINE n == Len(f)
<1>1. n \in Nat /\ n >= 1 /\ f[1] \in Nat /\ f[n] \in Nat /\ f[1] # Oldest
  BY EmptySeq DEF Oldest
<1>2. CASE n = 1
  BY <1>2 DEF WindowIsCovered
<1>3. CASE n > 1
  <2>1. f[1] - f[n] >= (n - 1) * (CooldownS + 1)
    BY <1>1, <1>3 DEF Spread
  <2>2. FlapWindowS >= (n - 1) * (CooldownS + 1)
    <3>1. (n - 1) * (CooldownS + 1) \in Int
      BY <1>1
    <3> QED
      BY <1>1, <2>1, <3>1
  <2>3. SUFFICES ASSUME n >= FlapThreshold PROVE FALSE
    BY <1>1
  <2>4. (n - 1) * (CooldownS + 1) >= (FlapThreshold - 1) * (CooldownS + 1)
    BY <1>1, <2>3
  <2>5. (FlapThreshold - 1) * (CooldownS + 1)
            = (FlapThreshold - 1) * CooldownS + (FlapThreshold - 1)
    OBVIOUS
  <2>6. (FlapThreshold - 1) * CooldownS \in Int /\ (n - 1) * (CooldownS + 1) \in Int
        /\ (FlapThreshold - 1) * (CooldownS + 1) \in Int
    BY <1>1
  <2> QED
    BY <2>2, <2>4, <2>5, <2>6 DEF WindowIsCovered
<1>4. n = 1 \/ n > 1
  BY <1>1, OneOrMore, Zenon
<1> QED
  BY <1>2, <1>3, <1>4

-----------------------------------------------------------------------------
(* The hits before the first call.                                         *)
LEMMA InitHits == WindowIsCovered /\ FlapInit => HInv
<1> SUFFICES ASSUME WindowIsCovered, FlapInit PROVE HInv
  OBVIOUS
<1>1. \A s \in Services : ages[s] = <<>>
  BY DEF FlapInit, NoHits
<1>2. AgesTyped
  BY DEF FlapInit, NoHits, AgesTyped
<1>3. \A k \in Deployments : HitsOf(k) = <<>>
  BY <1>1, KeysAreServices DEF HitsOf
<1>4. FlapThreshold \in Nat /\ FlapThreshold > 0
  BY FlapConstants
<1>5. FlappingIsUnreachable /\ \A s \in Services : Spread(ages[s])
  BY <1>1, <1>4 DEF FlappingIsUnreachable, Spread
<1> QED
  BY <1>2, <1>3, <1>5 DEF HInv, FlapInit

(* Time moves all hits alike, until they are Oldest.                       *)
LEMMA AgedTyped ==
    ASSUME NEW f \in Seq(0 .. Oldest)
    PROVE  /\ Aged(f) \in Seq(0 .. Oldest) /\ Len(Aged(f)) = Len(f)
           /\ \A i \in 1 .. Len(f) : Aged(f)[i] = Age(f[i])
<1> USE LoopConstants, FlapConstants
<1>1. Oldest \in Nat /\ Len(f) \in Nat
  BY DEF Oldest
<1>2. \A a \in 0 .. Oldest : Age(a) \in 0 .. Oldest
  BY <1>1 DEF Age
<1>3. DOMAIN f = 1 .. Len(f) /\ \A i \in 1 .. Len(f) : f[i] \in 0 .. Oldest
  BY DEF Oldest
<1> QED
  BY <1>1, <1>2, <1>3 DEF Aged

LEMMA AgedSpread ==
    ASSUME NEW f \in Seq(0 .. Oldest), Spread(f)
    PROVE  /\ Spread(Aged(f)) /\ Aged(f) \in Seq(0 .. Oldest) /\ Len(Aged(f)) = Len(f)
           /\ f # <<>> => LastAge(Aged(f)) = Age(LastAge(f)) /\ LastAge(f) \in 0 .. Oldest
<1> USE LoopConstants, FlapConstants
<1>1. Oldest \in Nat /\ Len(f) \in Nat
  BY DEF Oldest
<1>2. DOMAIN f = 1 .. Len(f) /\ \A i \in 1 .. Len(f) : f[i] \in 0 .. Oldest
  BY DEF Oldest
<1>3. Aged(f) \in Seq(0 .. Oldest) /\ Len(Aged(f)) = Len(f)
      /\ \A i \in 1 .. Len(f) : Aged(f)[i] = Age(f[i])
  BY AgedTyped
<1>4. ASSUME NEW i \in 1 .. Len(f), NEW j \in 1 .. Len(f), i < j
      PROVE  Age(f[i]) = Oldest \/ Age(f[i]) - Age(f[j]) >= (j - i) * (CooldownS + 1)
  <2>1. f[i] = Oldest \/ f[i] - f[j] >= (j - i) * (CooldownS + 1)
    BY <1>4 DEF Spread
  <2>2. (j - i) * (CooldownS + 1) \in Int
    BY <1>1
  <2> QED
    BY <1>1, <1>2, <2>1, <2>2 DEF Age
<1>5. f # <<>> => Len(f) \in 1 .. Len(f)
  BY <1>1, EmptySeq
<1>6. f # <<>> => LastAge(Aged(f)) = Age(LastAge(f)) /\ LastAge(f) \in 0 .. Oldest
  BY <1>2, <1>3, <1>5 DEF LastAge
<1> QED
  BY <1>3, <1>4, <1>6 DEF Spread

(* The hits keep their type, whoever shares a key.                         *)
Tracked == AgesTyped /\ stage \in {"detect", "answered", "gated"}

LEMMA TrackedStep == IInv /\ Tracked /\ [FlapNext]_flapVars => Tracked'
<1> SUFFICES ASSUME IInv, Tracked, [FlapNext]_flapVars PROVE Tracked'
  OBVIOUS
<1>1. Oldest' = Oldest /\ Services' = Services /\ Oldest \in Nat
  BY LoopConstants, FlapConstants DEF Oldest
<1>2. ages \in [Services -> Seq(0 .. Oldest)]
  BY DEF Tracked, AgesTyped
<1>3. stage' \in {"detect", "answered", "gated"}
  BY DEF FlapNext, FlapTick, FlapUntimed, Track, Tracked, flapVars
<1>4. CASE FlapTick
  <2>1. ages' = [s \in Services |-> Aged(ages[s])]
    BY <1>4 DEF FlapTick
  <2>2. \A s \in Services : Aged(ages[s]) \in Seq(0 .. Oldest)
    BY <1>2, AgedTyped
  <2> QED
    BY <1>1, <1>3, <2>1, <2>2 DEF Tracked, AgesTyped
<1>5. CASE FlapUntimed \/ UNCHANGED flapVars
  <2>1. ages' = NoHits \/ ages' = ages
    BY <1>5 DEF FlapUntimed, flapVars
  <2>2. NoHits \in [Services -> Seq(0 .. Oldest)]
    BY DEF NoHits
  <2> QED
    BY <1>1, <1>2, <1>3, <2>1, <2>2 DEF Tracked, AgesTyped
<1>6. CASE Track
  <2> DEFINE s == ServiceKey[current]
             hits == Append(ages[s], 0)
  <2>1. s \in Services
    BY <1>6, KeysAreServices DEF Track, IInv, CurrentIsKnown
  <2>2. hits \in Seq(0 .. Oldest) /\ Len(hits) \in Nat
    BY <1>1, <1>2, <2>1
  <2>3. PICK i \in DOMAIN hits : ages' = [ages EXCEPT ![s] = SubSeq(hits, i, Len(hits))]
    BY <1>6 DEF Track
  <2> HIDE DEF hits
  <2>4. i \in 1 .. Len(hits)
    BY <2>2, <2>3
  <2>5. ASSUME NEW j \in i .. Len(hits) PROVE hits[j] \in 0 .. Oldest
    <3>1. j \in 1 .. Len(hits)
      BY <2>2, <2>4
    <3> QED
      BY <2>2, <3>1, ElementOfSeq, Zenon
  <2>6. SubSeq(hits, i, Len(hits)) \in Seq(0 .. Oldest)
    BY <2>2, <2>4, <2>5, SubSeqProperties
  <2> QED
    BY <1>1, <1>2, <1>3, <2>3, <2>6 DEF Tracked, AgesTyped
<1> QED
  BY <1>4, <1>5, <1>6 DEF FlapNext

(* The loop and the tracker keep their types.                              *)
THEOREM FlapTypeCorrect == FlapSpec => []FlapTypeOK
<1>1. FlapInit => IInv /\ Tracked
  BY InitInv DEF FlapInit, NoHits, AgesTyped, Tracked
<1>2. IInv /\ Tracked /\ [FlapNext]_flapVars => IInv' /\ Tracked'
  BY FlapStepIsStep, StepInv, TrackedStep
<1>3. IInv /\ Tracked => FlapTypeOK
  BY DEF IInv, Tracked, AgesTyped, FlapTypeOK
<1> QED
  BY <1>1, <1>2, <1>3, PTL DEF FlapSpec

(* Time passes.                                                            *)
LEMMA TickHits == IInv /\ HInv /\ FlapTick => HInv'
<1> SUFFICES ASSUME IInv, HInv, FlapTick PROVE HInv'
  OBVIOUS
<1> USE LoopConstants, FlapConstants
<1>1. /\ \A s \in Services : ages'[s] = Aged(ages[s])
      /\ ages' = [s \in Services |-> ages'[s]]
  BY DEF FlapTick
<1>2. ASSUME NEW s \in Services
      PROVE  /\ Spread(ages'[s]) /\ ages'[s] \in Seq(0 .. Oldest) /\ Len(ages'[s]) = Len(ages[s])
             /\ ages[s] # <<>> =>
                    LastAge(ages'[s]) = Age(LastAge(ages[s])) /\ LastAge(ages[s]) \in 0 .. Oldest
  <2>1. ages[s] \in Seq(0 .. Oldest) /\ Spread(ages[s])
    BY DEF HInv, AgesTyped
  <2> QED
    BY <1>1, <2>1, AgedSpread
<1>3. AgesTyped'
  <2>1. Oldest' = Oldest /\ Services' = Services
    OBVIOUS
  <2> QED
    BY <1>1, <1>2, <2>1 DEF AgesTyped
<1>4. \A s \in Services : Spread(ages'[s]) /\ Len(ages'[s]) < FlapThreshold
  BY <1>2 DEF HInv, FlappingIsUnreachable
<1>5. stage' \in {"detect", "answered", "gated"}
  BY DEF FlapTick, HInv
<1>6. ASSUME pc' # "down", NEW k \in Deployments, HitsOf(k)' # <<>>
      PROVE  Rested(k)'
  <2> DEFINE a == LastAge(HitsOf(k))
  <2>1. /\ pc' = pc /\ current' = current /\ left'[k] = Less(left[k]) /\ left[k] \in Nat
        /\ stage' = IF pc = "handle" /\ stage = "detect" THEN "answered" ELSE stage
    BY DEF FlapTick, Tick, IInv, TypeOK
  <2>2. ages[ServiceKey[k]] # <<>> /\ LastAge(HitsOf(k))' = Age(a) /\ a \in 0 .. Oldest
    <3>1. ServiceKey[k] \in Services /\ ages[ServiceKey[k]] \in Seq(0 .. Oldest)
      BY KeysAreServices DEF HInv, AgesTyped
    <3>2. Len(ages'[ServiceKey[k]]) = Len(ages[ServiceKey[k]])
      BY <1>2, <3>1
    <3>3. ages[ServiceKey[k]] # <<>>
      <4>1. SUFFICES ASSUME ages[ServiceKey[k]] = <<>> PROVE FALSE
        OBVIOUS
      <4>2. Len(ages'[ServiceKey[k]]) = 0 /\ ages'[ServiceKey[k]] \in Seq(0 .. Oldest)
        BY <1>2, <3>1, <3>2, <4>1
      <4> QED
        BY <1>6, <4>2, EmptySeq DEF HitsOf
    <3> QED
      BY <1>2, <3>1, <3>3 DEF HitsOf, LastAge
  <2>3. Rested(k)
    BY <1>6, <2>1, <2>2 DEF HInv, HitsOf
  <2>4. Oldest \in Nat /\ Oldest >= CooldownS + 1
    BY DEF Oldest
  <2>5. Age(a) = IF a = Oldest THEN Oldest ELSE a + 1
    BY DEF Age
  <2>6. CASE pc = "handle" /\ current = k /\ stage = "detect"
    BY <2>1, <2>2, <2>3, <2>4, <2>5, <2>6 DEF Rested
  <2>7. CASE pc = "handle" /\ current = k /\ stage = "answered"
    BY <2>1, <2>2, <2>3, <2>4, <2>5, <2>7 DEF Rested
  <2>8. CASE pc = "handle" /\ current = k /\ stage = "gated"
    BY <2>1, <2>8 DEF Rested
  <2>9. CASE ~(pc = "handle" /\ current = k)
    <3>1. a + left[k] >= CooldownS
      BY <2>3, <2>9 DEF Rested
    <3>2. Age(a) + Less(left[k]) >= CooldownS
      BY <2>1, <2>2, <2>4, <2>5, <3>1 DEF Less
    <3> QED
      BY <2>1, <2>2, <2>9, <3>2 DEF Rested
  <2>10. stage \in {"detect", "answered", "gated"}
    BY DEF HInv
  <2> QED
    BY <2>6, <2>7, <2>8, <2>9, <2>10
<1> QED
  BY <1>3, <1>4, <1>5, <1>6 DEF HInv, FlappingIsUnreachable

(* A step that takes no time leaves the hits alone, or clears them.        *)
LEMMA UntimedHits == WindowIsCovered /\ IInv /\ HInv /\ FlapUntimed => HInv'
<1> SUFFICES ASSUME WindowIsCovered, IInv, HInv, FlapUntimed PROVE HInv'
  OBVIOUS
<1> USE LoopConstants, FlapConstants
<1>1. CASE pc = "down" /\ pc' # "down"
  <2>1. ages' = NoHits /\ stage' \in {"detect", "answered", "gated"}
    BY <1>1 DEF FlapUntimed, HInv
  <2>2. \A s \in Services : ages'[s] = <<>>
    BY <2>1 DEF NoHits
  <2>3. AgesTyped'
    BY <2>1 DEF AgesTyped, NoHits
  <2>4. \A k \in Deployments : HitsOf(k)' = <<>>
    BY <2>2, KeysAreServices DEF HitsOf
  <2>5. \A s \in Services : Spread(ages'[s]) /\ Len(ages'[s]) < FlapThreshold
    BY <2>2 DEF Spread, WindowIsCovered
  <2> QED
    BY <2>1, <2>3, <2>4, <2>5 DEF HInv, FlappingIsUnreachable
<1>2. CASE ~(pc = "down" /\ pc' # "down")
  <2>1. ages' = ages /\ stage' = IF pc # "handle" /\ pc' = "handle" THEN "detect" ELSE stage
    BY <1>2 DEF FlapUntimed
  <2>2. ASSUME pc' # "down", NEW k \in Deployments, HitsOf(k) # <<>>
        PROVE  Rested(k)'
    <3>1. pc # "down" /\ Rested(k)
      BY <1>2, <2>2 DEF HInv
    <3>2. left \in [Deployments -> 0 .. CooldownS]
      BY DEF IInv, TypeOK
    <3>3. LastAge(HitsOf(k)) \in Nat
      <4>1. ages[ServiceKey[k]] \in Seq(0 .. Oldest)
        BY KeysAreServices DEF HInv, AgesTyped
      <4> QED
        BY <2>2, <4>1, EmptySeq DEF HitsOf, LastAge, Oldest
    <3>4. HitsOf(k)' = HitsOf(k)
      BY <2>1 DEF HitsOf
    <3>5. ASSUME NEW j \in Deployments, HandleDrained(j) \/ HandleEvent(j)
          PROVE  Rested(k)'
      <4>1. pc # "handle" /\ pc' = "handle" /\ current' = j /\ left' = left /\ left[j] = 0
        BY <3>2, <3>5 DEF HandleDrained, HandleEvent, Handle, Cooled, NextEvent
      <4> QED
        BY <2>1, <3>1, <3>2, <3>3, <3>4, <4>1 DEF Rested, LastAge
    <3>6. CASE HandleReturns
      <4>1. pc = "handle" /\ pc' # "handle" /\ left' = [left EXCEPT ![current] = CooldownS]
        BY <3>6 DEF HandleReturns
      <4> QED
        BY <2>1, <3>1, <3>2, <3>3, <3>4, <4>1 DEF Rested, LastAge
    <3>7. CASE /\ left' = left
               /\ \/ pc' = pc /\ current' = current
                  \/ pc # "handle" /\ pc' # "handle"
      BY <2>1, <3>1, <3>4, <3>7 DEF Rested, LastAge
    <3>8. \/ \E j \in Deployments : HandleDrained(j) \/ HandleEvent(j)
          \/ HandleReturns
          \/ /\ left' = left
             /\ \/ pc' = pc /\ current' = current
                \/ pc # "handle" /\ pc' # "handle"
      BY <2>2, <3>1 DEF FlapUntimed, Untimed, Surroundings, Loop, Send, VisibilityEnds, Redrive, Expire,
             PodsFail, PodsRecover, Drain, SkipCooled, Change, Ack, BatchDone, Poll,
             SkipEvent, NextEvent, EventsDone, Crash, Restart, memory
    <3> QED
      BY <3>5, <3>6, <3>7, <3>8
  <2> QED
    BY <2>1, <2>2 DEF HInv, AgesTyped, FlappingIsUnreachable, HitsOf
<1> QED
  BY <1>1, <1>2

(* The detection of a service that is alone with its key.                  *)
LEMMA TrackHits == OneKeyEach /\ WindowIsCovered /\ IInv /\ HInv /\ Track => HInv'
<1> SUFFICES ASSUME OneKeyEach, WindowIsCovered, IInv, HInv, Track PROVE HInv'
  OBVIOUS
<1> USE LoopConstants, FlapConstants
<1> DEFINE s == ServiceKey[current]
           hits == Append(ages[s], 0)
<1>1. pc = "handle" /\ stage = "answered" /\ stage' = "gated" /\ UNCHANGED vars
  BY DEF Track
<1>2. current \in Deployments /\ s \in Services
  BY <1>1, KeysAreServices DEF IInv, CurrentIsKnown
<1>3. ages[s] \in Seq(0 .. Oldest) /\ Spread(ages[s])
  BY <1>2 DEF HInv, AgesTyped
<1>4. ages[s] # <<>> => LastAge(ages[s]) >= CooldownS + 1
  BY <1>1, <1>2 DEF HInv, HitsOf, Rested
<1>5. Spread(hits) /\ hits \in Seq(0 .. Oldest)
  BY <1>3, <1>4, AppendSpread
<1>6. PICK d \in DOMAIN hits :
          hits[d] <= FlapWindowS /\ ages' = [ages EXCEPT ![s] = SubSeq(hits, d, Len(hits))]
  BY DEF Track
<1> DEFINE g == SubSeq(hits, d, Len(hits))
<1> HIDE DEF hits
<1>7. d \in 1 .. Len(hits) /\ Len(hits) \in Nat
  BY <1>5, <1>6
<1>8. Spread(g) /\ g \in Seq(0 .. Oldest) /\ Len(g) = Len(hits) - d + 1
      /\ \A i \in 1 .. Len(g) : g[i] = hits[i + d - 1]
  BY <1>5, <1>7, SuffixSpread
<1>9. g # <<>> /\ g[1] = hits[d]
  BY <1>7, <1>8, EmptySeq
<1> HIDE DEF g
<1>10. Len(g) < FlapThreshold
  BY <1>6, <1>8, <1>9, SpreadIsFew
<1>11. ages' = [ages EXCEPT ![s] = g]
  BY <1>6 DEF g
<1>12. AgesTyped' /\ FlappingIsUnreachable' /\ \A t \in Services : Spread(ages'[t])
  <2>1. Oldest' = Oldest /\ Services' = Services
    OBVIOUS
  <2>2. AgesTyped'
    BY <1>2, <1>8, <1>11, <2>1 DEF HInv, AgesTyped
  <2> QED
    BY <1>2, <1>8, <1>10, <1>11, <2>1, <2>2 DEF HInv, AgesTyped, FlappingIsUnreachable
<1>13. ASSUME NEW k \in Deployments, HitsOf(k)' # <<>> PROVE Rested(k)'
  <2>1. CASE k = current
    BY <1>1, <2>1 DEF Rested, vars, memory
  <2>2. CASE k # current
    <3>1. ServiceKey[k] # s /\ ServiceKey[k] \in Services
      BY <1>2, <2>2, KeysAreServices DEF OneKeyEach
    <3>2. HitsOf(k)' = HitsOf(k)
      BY <1>11, <3>1 DEF HitsOf, HInv, AgesTyped
    <3>3. Rested(k)
      BY <1>1, <1>13, <3>2 DEF HInv
    <3> QED
      BY <1>1, <2>2, <3>2, <3>3 DEF Rested, LastAge, vars, memory
  <2> QED
    BY <2>1, <2>2
<1> QED
  BY <1>1, <1>12, <1>13 DEF HInv

(* watch_loop with a tracker: a service with one key is never found        *)
(* flapping, whatever the cooldown, when the window is no longer than the  *)
(* cooldowns between the hits.                                             *)
THEOREM FlappingNeedsSharedService ==
    ASSUME OneKeyEach, WindowIsCovered
    PROVE  FlapSpec => []FlappingIsUnreachable
<1>1. FlapInit => IInv /\ HInv
  BY InitInv, InitHits DEF FlapInit
<1>2. IInv /\ HInv /\ [FlapNext]_flapVars => IInv' /\ HInv'
  <2> SUFFICES ASSUME IInv, HInv, [FlapNext]_flapVars PROVE IInv' /\ HInv'
    OBVIOUS
  <2>1. IInv'
    BY FlapStepIsStep, StepInv
  <2>2. CASE UNCHANGED flapVars
    <3>1. ages' = ages /\ stage' = stage /\ pc' = pc /\ current' = current /\ left' = left
      BY <2>2 DEF flapVars, vars, memory
    <3> QED
      BY <2>1, <3>1 DEF HInv, AgesTyped, FlappingIsUnreachable, HitsOf, Rested, LastAge
  <2> QED
    BY <2>1, <2>2, TickHits, UntimedHits, TrackHits DEF FlapNext
<1>3. HInv => FlappingIsUnreachable
  BY DEF HInv
<1> QED
  BY <1>1, <1>2, <1>3, PTL DEF FlapSpec
-----------------------------------------------------------------------------
(* The alerts before the loop.                                             *)

(* The forwarder only sends what it passes on, so a message of a routable  *)
(* place came from an alert whose key _group reads back from the body.     *)
SendingForwards == sending \subseteq {a \in Alerts : Forwards(a, "firing")}

CauseIsKnown ==
    \A m \in WellFormed :
        queue[m] # "unsent" => /\ cause[m] \in Alerts
                               /\ Forwards(cause[m], "firing")
                               /\ KeyOf[m] = GroupKey(cause[m])

BatchWasSent == \A k \in Deployments : \A m \in batch[k] : queue[m] # "unsent"

Abouts == {About[a] : a \in Alerts} \cup Deployments

DInv ==
    /\ firing \subseteq Alerts
    /\ due \subseteq Groups
    /\ SendingForwards
    /\ cause \in [Messages -> Alerts \cup {NoAlert}]
    /\ healedFor \in [Deployments -> SUBSET Abouts]
    /\ CauseIsKnown
    /\ BatchWasSent

LEMMA InitDelivery == DeliveryInit => IInv /\ DInv
BY InitInv DEF DeliveryInit, Init, DInv, SendingForwards, CauseIsKnown, BatchWasSent, WellFormed,
   NoBatch, NothingHealed

(* A place of the queue is used again only when no receipt handle of its   *)
(* last body is held, so what the loop keeps of its messages it keeps of   *)
(* the new body.                                                           *)
LEMMA SendSignalInv ==
    ASSUME NEW a \in Alerts, NEW m \in Messages, IInv, SendSignal(a, m)
    PROVE  IInv'
<1> USE LoopConstants DEF IInv
<1>1. /\ \A k \in Deployments : m \notin batch[k]
      /\ queue[m] \in {"unsent", "deleted", "dead", "expired"}
      /\ queue' = [queue EXCEPT ![m] = "visible"]
      /\ received' = [received EXCEPT ![m] = 0]
      /\ served' = served \ {m}
      /\ executed' = [executed EXCEPT ![m] = 0]
      /\ UNCHANGED <<faulty, pc, source, current, batch, events, left, change,
                     bootLeft, faults, quiet>>
  BY DEF SendSignal, Free, memory
<1>2. TypeOK'
  BY <1>1 DEF TypeOK, MessageStates
<1>3. BatchIsLocal' /\ BatchWorkedOff' /\ CurrentIsKnown' /\ CooldownKept'
  BY <1>1 DEF BatchIsLocal, BatchWorkedOff, CurrentIsKnown, CooldownKept, NoBatch
<1>4. AckedIsServed'
  BY <1>1 DEF AckedIsServed, CurrentIsKnown
<1>5. OneChangePerReceive'
  BY <1>1 DEF OneChangePerReceive, Spent, TypeOK
<1>6. ReceivesAccounted'
  BY <1>1 DEF ReceivesAccounted, Held, TypeOK, WellFormed
<1>7. DeletedWasServed'
  BY <1>1 DEF DeletedWasServed, TypeOK
<1> QED
  BY <1>2, <1>3, <1>4, <1>5, <1>6, <1>7

LEMMA LoopStepIsStep == LoopStep => [Next]_vars
BY DEF LoopStep, Next, Untimed

LEMMA DeliveryLoopInv == IInv /\ [DeliveryNext]_deliveryVars => IInv'
<1> SUFFICES ASSUME IInv, [DeliveryNext]_deliveryVars PROVE IInv'
  OBVIOUS
<1>1. ASSUME NEW a \in Alerts, NEW m \in Messages, SendSignal(a, m) PROVE IInv'
  BY <1>1, SendSignalInv
<1>2. CASE LoopStep
  BY <1>2, LoopStepIsStep, StepInv
<1>3. ASSUME NEW m \in Messages, ForeignSend(m) PROVE IInv'
  <2>1. Next
    BY <1>3 DEF ForeignSend, Next, Untimed
  <2> QED
    BY <2>1, StepInv
<1>4. CASE UNCHANGED vars
  BY <1>4, StepInv
<1>5. UNCHANGED deliveryVars => UNCHANGED vars
  BY DEF deliveryVars
<1> QED
  BY <1>1, <1>2, <1>3, <1>4, <1>5 DEF DeliveryNext, Fires, Resolves, SendFails, Repeat, Post,
     ForwarderDies

(* What a step of the loop does to the queue and the batch: nothing but    *)
(* Send takes a message out of "unsent", and only sent ones are drained.   *)
LEMMA LoopKeepsSent ==
    ASSUME IInv, DInv, LoopStep
    PROVE  /\ \A m \in Messages : queue'[m] # "unsent" <=> queue[m] # "unsent"
           /\ BatchWasSent'
<1>1. queue \in [Messages -> MessageStates] /\ batch \in [Deployments -> SUBSET Messages]
  BY DEF IInv, TypeOK
<1>2. ASSUME NEW S \in SUBSET Messages, Drain(S)
      PROVE  /\ \A m \in Messages : queue'[m] # "unsent" <=> queue[m] # "unsent"
             /\ BatchWasSent'
  BY <1>1, <1>2 DEF Drain, BatchWasSent
<1>3. ASSUME NEW D \in SUBSET Messages, Ack(D)
      PROVE  /\ \A m \in Messages : queue'[m] # "unsent" <=> queue[m] # "unsent"
             /\ BatchWasSent'
  <2>1. D \subseteq batch[current] /\ current \in Deployments
    BY <1>3 DEF Ack, IInv, CurrentIsKnown
  <2>2. \A m \in D : queue[m] # "unsent"
    BY <2>1 DEF DInv, BatchWasSent
  <2>3. queue' = [m \in Messages |->
                    IF m \in D /\ queue[m] # "expired" THEN "deleted" ELSE queue[m]]
    BY <1>3 DEF Ack
  <2>4. \A m \in Messages : queue'[m] # "unsent" <=> queue[m] # "unsent"
    BY <2>2, <2>3
  <2>5. \A k \in Deployments : batch'[k] \subseteq batch[k]
    BY <1>1, <1>3 DEF Ack
  <2> QED
    BY <1>1, <2>4, <2>5 DEF DInv, BatchWasSent
<1>4. ASSUME NEW m \in Messages, VisibilityEnds(m) \/ Redrive(m) \/ Expire(m)
      PROVE  /\ \A n \in Messages : queue'[n] # "unsent" <=> queue[n] # "unsent"
             /\ BatchWasSent'
  <2>1. /\ batch' = batch /\ queue[m] # "unsent"
        /\ \E x \in {"visible", "dead", "expired"} : queue' = [queue EXCEPT ![m] = x]
    BY <1>4 DEF VisibilityEnds, Redrive, Expire, memory
  <2>2. \A n \in Messages : queue'[n] # "unsent" <=> queue[n] # "unsent"
    BY <1>1, <2>1
  <2> QED
    BY <1>1, <2>1, <2>2 DEF DInv, BatchWasSent
<1>5. CASE queue' = queue /\ (batch' = batch \/ batch' = NoBatch)
  BY <1>5 DEF DInv, BatchWasSent, NoBatch
<1> QED
  BY <1>2, <1>3, <1>4, <1>5 DEF LoopStep, Surroundings, Tick, Loop, Crash, PodsFail, PodsRecover,
     SkipCooled, HandleDrained, SkipEvent, HandleEvent, NextEvent, Change, HandleReturns,
     BatchDone, Poll, EventsDone, Restart, sqsVars, memory

LEMMA SubjectsTyped == IInv /\ DInv /\ pc = "handle" => Subjects \in SUBSET Abouts
<1> SUFFICES ASSUME IInv, DInv, pc = "handle" PROVE Subjects \subseteq Abouts
  OBVIOUS
<1>1. current \in Deployments
  BY DEF IInv, CurrentIsKnown
<1>2. ASSUME NEW m \in batch[current] PROVE cause[m] \in Alerts
  <2>1. m \in WellFormed /\ queue[m] # "unsent"
    BY <1>1, <1>2 DEF IInv, TypeOK, BatchIsLocal, WellFormed, DInv, BatchWasSent
  <2> QED
    BY <2>1 DEF DInv, CauseIsKnown
<1> QED
  BY <1>1, <1>2 DEF Subjects, Current, Abouts

LEMMA DeliveryStepInv == IInv /\ DInv /\ [DeliveryNext]_deliveryVars => DInv'
<1> SUFFICES ASSUME IInv, DInv, [DeliveryNext]_deliveryVars PROVE DInv'
  OBVIOUS
<1> USE DEF DInv
<1>1. WellFormed' = WellFormed /\ Abouts' = Abouts /\ Groups' = Groups
  OBVIOUS
<1>2. ASSUME UNCHANGED <<vars, cause, healedFor>> PROVE CauseIsKnown' /\ BatchWasSent'
  BY <1>2 DEF CauseIsKnown, BatchWasSent, vars, sqsVars, memory, WellFormed
<1>3. ASSUME NEW a \in Alerts, Fires(a) \/ Resolves(a) \/ SendFails(a) PROVE DInv'
  <2>1. UNCHANGED <<vars, cause, healedFor>>
    BY <1>3 DEF Fires, Resolves, SendFails
  <2>2. firing' \subseteq Alerts /\ due' \subseteq Groups /\ sending' \subseteq sending
    BY <1>3 DEF Fires, Resolves, SendFails, Groups
  <2> QED
    BY <1>1, <1>2, <2>1, <2>2 DEF SendingForwards
<1>4. ASSUME NEW g \in Groups, Repeat(g) \/ Post(g) PROVE DInv'
  <2>1. UNCHANGED <<vars, cause, healedFor>> /\ firing' = firing
    BY <1>4 DEF Repeat, Post
  <2>2. due' \subseteq Groups
    BY <1>4 DEF Repeat, Post
  <2>3. SendingForwards'
    <3>1. \A a \in Alerts : Forwards(a, Status(a)) => Forwards(a, "firing")
      BY Zenon DEF Forwards
    <3>2. sending' = sending \/ \A a \in sending' : a \in Alerts /\ Forwards(a, Status(a))
      BY <1>4 DEF Repeat, Post
    <3> QED
      BY <3>1, <3>2 DEF SendingForwards
  <2> QED
    BY <1>1, <1>2, <2>1, <2>2, <2>3
<1>5. CASE ForwarderDies
  <2>1. UNCHANGED <<vars, cause, healedFor>> /\ firing' = firing /\ sending' = {}
    BY <1>5 DEF ForwarderDies
  <2>2. due' \subseteq Groups
    BY <1>5 DEF ForwarderDies, SendingForwards, Groups
  <2> QED
    BY <1>1, <1>2, <2>1, <2>2 DEF SendingForwards
<1>6. ASSUME NEW a \in Alerts, NEW m \in Messages, SendSignal(a, m) PROVE DInv'
  <2>1. /\ Forwards(a, "firing") /\ KeyOf[m] = GroupKey(a)
        /\ queue' = [queue EXCEPT ![m] = "visible"]
        /\ cause' = [cause EXCEPT ![m] = a]
        /\ sending' \subseteq sending
        /\ UNCHANGED <<firing, due, batch, healedFor>>
        /\ \A k \in Deployments : m \notin batch[k]
    BY <1>6 DEF SendSignal, Free, SendingForwards, memory
  <2>2. CauseIsKnown'
    BY <1>1, <2>1 DEF CauseIsKnown, WellFormed, IInv, TypeOK
  <2>3. BatchWasSent'
    BY <2>1 DEF BatchWasSent, IInv, TypeOK
  <2> QED
    BY <1>1, <2>1, <2>2, <2>3 DEF SendingForwards
<1>7. ASSUME NEW m \in Messages, ForeignSend(m) PROVE DInv'
  <2>1. /\ m \notin WellFormed /\ queue' = [queue EXCEPT ![m] = "visible"]
        /\ UNCHANGED <<firing, due, sending, batch, cause, healedFor>>
    BY <1>7 DEF ForeignSend, Send, alertVars, memory
  <2>2. CauseIsKnown' /\ BatchWasSent'
    BY <1>1, <2>1 DEF CauseIsKnown, BatchWasSent, WellFormed, IInv, TypeOK
  <2> QED
    BY <1>1, <2>1, <2>2 DEF SendingForwards
<1>8. CASE LoopStep
  <2>1. UNCHANGED <<firing, due, sending, cause>>
    BY <1>8 DEF LoopStep, alertVars
  <2>2. (\A m \in Messages : queue'[m] # "unsent" <=> queue[m] # "unsent") /\ BatchWasSent'
    BY <1>8, LoopKeepsSent
  <2>3. CauseIsKnown'
    BY <1>1, <2>1, <2>2 DEF CauseIsKnown, WellFormed
  <2>4. healedFor' \in [Deployments -> SUBSET Abouts]
    <3>1. NothingHealed \in [Deployments -> SUBSET Abouts]
      BY DEF NothingHealed
    <3>2. CASE pc = "handle"
      <4>1. Subjects \in SUBSET Abouts
        BY <3>2, SubjectsTyped
      <4>2. healedFor' = [healedFor EXCEPT ![current] = Subjects] \/ healedFor' = healedFor
        BY <1>8, <3>2 DEF LoopStep, Remember
      <4> QED
        BY <4>1, <4>2
    <3>3. CASE pc # "handle"
      <4>1. healedFor' = NothingHealed \/ healedFor' = healedFor
        BY <1>8, <3>3 DEF LoopStep, Remember
      <4> QED
        BY <3>1, <4>1
    <3> QED
      BY <3>2, <3>3
  <2> QED
    BY <1>1, <2>1, <2>2, <2>3, <2>4 DEF SendingForwards
<1>9. CASE UNCHANGED deliveryVars
  BY <1>1, <1>2, <1>9 DEF deliveryVars, alertVars, SendingForwards
<1> QED
  BY <1>3, <1>4, <1>5, <1>6, <1>7, <1>8, <1>9 DEF DeliveryNext

LEMMA DeliveryInvariant == DeliverySpec => [](IInv /\ DInv)
BY InitDelivery, DeliveryLoopInv, DeliveryStepInv, PTL DEF DeliverySpec

(* Alertmanager, the forwarder and the loop keep their types.              *)
THEOREM DeliveryTypeCorrect == DeliverySpec => []DeliveryTypeOK
<1>1. IInv /\ DInv => DeliveryTypeOK
  BY DEF IInv, DInv, SendingForwards, Abouts, DeliveryTypeOK
<1> QED
  BY DeliveryInvariant, <1>1, PTL

(* A place of the queue that is used again is a message of its own: what   *)
(* was proved of the queue and of the cooldown holds for the alerts of an  *)
(* endless run too.                                                        *)
THEOREM DeliveryKeepsTheLoop ==
    DeliverySpec => /\ [](DeletedWasServed /\ RedeliveryNeedsFault)
                    /\ HealsAreSpaced
<1>1. IInv => DeletedWasServed /\ RedeliveryNeedsFault
  BY DEF IInv, ReceivesAccounted, RedeliveryNeedsFault
<1>2. IInv /\ [DeliveryNext]_deliveryVars =>
        [pc # "handle" /\ pc' = "handle" => quiet[current'] = CooldownS]_vars
  <2> SUFFICES ASSUME IInv, DeliveryNext, pc # "handle", pc' = "handle"
               PROVE  quiet[current'] = CooldownS
    BY DEF deliveryVars
  <2>1. LoopStep
    BY DEF DeliveryNext, Fires, Resolves, SendFails, SendSignal, Repeat, Post, ForwarderDies,
           ForeignSend, Send, vars
  <2>2. Next
    BY <2>1 DEF LoopStep, Next, Untimed
  <2> QED
    BY <2>2, SpacedStep
<1> QED
  BY DeliveryInvariant, <1>1, <1>2, PTL DEF DeliverySpec, HealsAreSpaced

(* Every alert the forwarder passes on names its deployment: _group reads  *)
(* the deployment the alert is about from the labels.                      *)
NamedRight == \A a \in Alerts : Forwards(a, "firing") => GroupKey(a) = About[a]

(* What this process has healed of k was k.                                *)
HealedItself ==
    /\ \A k \in Deployments : left[k] > bootLeft => healedFor[k] = {k}
    /\ pc = "handle" /\ source = "sqs" => batch[current] # {}

LEMMA InitHealed == DeliveryInit => HealedItself
BY LoopConstants DEF DeliveryInit, Init, HealedItself

(* The messages of k are about k.                                          *)
LEMMA BatchIsAbout ==
    ASSUME NamedRight, IInv, DInv, NEW k \in Deployments, NEW m \in batch[k]
    PROVE  About[cause[m]] = k
<1>1. m \in WellFormed /\ KeyOf[m] = k /\ queue[m] # "unsent"
  BY DEF IInv, TypeOK, BatchIsLocal, WellFormed, DInv, BatchWasSent
<1> QED
  BY <1>1 DEF DInv, CauseIsKnown, NamedRight

LEMMA SubjectIsCurrent ==
    ASSUME NamedRight, IInv, DInv, HealedItself, pc = "handle"
    PROVE  Subjects = {current}
<1>1. current \in Deployments
  BY DEF IInv, CurrentIsKnown
<1>2. \A m \in batch[current] : About[cause[m]] = current
  BY <1>1, BatchIsAbout
<1>3. CASE source = "sqs"
  BY <1>2, <1>3 DEF HealedItself, Subjects, Current
<1>4. CASE source # "sqs"
  BY <1>4 DEF Subjects
<1> QED
  BY <1>3, <1>4

LEMMA HealedStep ==
    NamedRight /\ IInv /\ DInv /\ HealedItself /\ [DeliveryNext]_deliveryVars => HealedItself'
<1> SUFFICES ASSUME NamedRight, IInv, DInv, HealedItself, [DeliveryNext]_deliveryVars
             PROVE  HealedItself'
  OBVIOUS
<1> USE LoopConstants
<1>1. /\ left \in [Deployments -> 0 .. CooldownS] /\ bootLeft \in 0 .. CooldownS
      /\ healedFor \in [Deployments -> SUBSET Abouts]
      /\ pc = "handle" => current \in Deployments
  BY DEF IInv, TypeOK, DInv, CurrentIsKnown
<1>2. CASE UNCHANGED <<pc, source, current, batch, left, bootLeft, healedFor>>
  BY <1>2 DEF HealedItself
<1>3. CASE LoopStep
  <2>1. CASE Tick
    <3>1. /\ \A k \in Deployments : left'[k] = Less(left[k])
          /\ bootLeft' = Less(bootLeft)
          /\ UNCHANGED <<pc, source, current, batch>>
      BY <2>1 DEF Tick
    <3>2. healedFor' = healedFor
      BY <1>3, <3>1 DEF LoopStep, Remember
    <3>3. \A k \in Deployments : left'[k] > bootLeft' => left[k] > bootLeft
      BY <1>1, <3>1 DEF Less
    <3> QED
      BY <3>1, <3>2, <3>3 DEF HealedItself
  <2>2. CASE HandleReturns
    <3>1. /\ pc = "handle" /\ pc' \in {"ack", "events"}
          /\ left' = [left EXCEPT ![current] = CooldownS] /\ bootLeft' = bootLeft
      BY <2>2 DEF HandleReturns
    <3>2. Subjects = {current}
      BY <3>1, SubjectIsCurrent
    <3>3. healedFor' = [healedFor EXCEPT ![current] = Subjects]
      BY <1>3, <3>1 DEF LoopStep, Remember
    <3> QED
      BY <1>1, <3>1, <3>2, <3>3 DEF HealedItself
  <2>3. CASE Restart
    <3>1. pc' = "drain" /\ left' = [k \in Deployments |-> bootLeft] /\ bootLeft' = bootLeft
      BY <2>3 DEF Restart
    <3> QED
      BY <1>1, <3>1 DEF HealedItself
  <2>4. ASSUME NEW k \in Deployments, HandleDrained(k) PROVE HealedItself'
    <3>1. /\ pc = "batch" /\ pc' = "handle" /\ current' = k /\ batch[k] # {}
          /\ UNCHANGED <<batch, left, bootLeft>>
      BY <2>4 DEF HandleDrained, Handle
    <3>2. healedFor' = healedFor
      BY <1>3, <3>1 DEF LoopStep, Remember
    <3> QED
      BY <3>1, <3>2 DEF HealedItself
  <2>5. ASSUME NEW k \in Deployments, HandleEvent(k) PROVE HealedItself'
    <3>1. /\ pc = "events" /\ pc' = "handle" /\ source' = "poll"
          /\ UNCHANGED <<left, bootLeft>>
      BY <2>5 DEF HandleEvent, NextEvent, Handle
    <3>2. healedFor' = healedFor
      BY <1>3, <3>1 DEF LoopStep, Remember
    <3> QED
      BY <3>1, <3>2 DEF HealedItself
  <2>6. CASE /\ UNCHANGED <<left, bootLeft>>
             /\ pc' # "handle" \/ UNCHANGED <<pc, source, current, batch>>
             /\ ~(pc = "handle" /\ pc' \in {"ack", "events"})
             /\ ~(pc = "down" /\ pc' # "down")
    <3>1. healedFor' = healedFor
      BY <1>3, <2>6 DEF LoopStep, Remember
    <3> QED
      BY <2>6, <3>1 DEF HealedItself
  <2> QED
    BY <1>3, <2>1, <2>2, <2>3, <2>4, <2>5, <2>6 DEF LoopStep, Surroundings, Loop, Crash,
       VisibilityEnds, Redrive, Expire, PodsFail, PodsRecover, Drain, SkipCooled, SkipEvent,
       NextEvent, Change, Ack, BatchDone, Poll, EventsDone, sqsVars, memory
<1> QED
  BY <1>2, <1>3 DEF DeliveryNext, Fires, Resolves, SendFails, SendSignal, Repeat, Post,
     ForwarderDies, ForeignSend, Send, deliveryVars, vars, memory

(* The cooldown of main.py:233 is the deployment's own, as long as the     *)
(* labels of every alert name the deployment it is about and the host is   *)
(* older than the cooldown: an incident skipped is one of a deployment     *)
(* this process has healed.  What the run of this property finds violated  *)
(* is only the naming.                                                     *)
THEOREM RightNamesSkipTheirOwn ==
    ASSUME NamedRight, BootLeft = 0
    PROVE  DeliverySpec => SkippedForOwnDeployment
<1>1. IInv /\ DInv /\ HealedItself /\ [DeliveryNext]_deliveryVars =>
        [pc = "batch" /\ pc' = "ack" =>
            {About[cause[m]] : m \in batch[current']} \subseteq healedFor[current']]_deliveryVars
  <2> SUFFICES ASSUME IInv, DInv, HealedItself, DeliveryNext, pc = "batch", pc' = "ack"
               PROVE  {About[cause[m]] : m \in batch[current']} \subseteq healedFor[current']
    OBVIOUS
  <2>1. LoopStep
    BY DEF DeliveryNext, Fires, Resolves, SendFails, SendSignal, Repeat, Post, ForwarderDies,
           ForeignSend, Send, vars
  <2>2. Next
    BY <2>1 DEF LoopStep, Next, Untimed
  <2>3. PICK k \in Deployments : SkipCooled(k)
    BY <2>2, SkippingStep
  <2>4. current' = k /\ left[k] > bootLeft
    BY <2>3, LoopConstants DEF SkipCooled, Cooled, IInv, TypeOK, CooldownKept
  <2>5. healedFor[k] = {k}
    BY <2>4 DEF HealedItself
  <2>6. \A m \in batch[k] : About[cause[m]] = k
    BY BatchIsAbout
  <2> QED
    BY <2>4, <2>5, <2>6
<1>2. IInv /\ DInv /\ HealedItself /\ [DeliveryNext]_deliveryVars => HealedItself'
  BY HealedStep
<1> QED
  BY DeliveryInvariant, InitHealed, <1>1, <1>2, PTL DEF DeliverySpec, SkippedForOwnDeployment

(* The alerts of pods a Deployment owns: of their labels only the pod's    *)
(* name tells the deployment, which is all but the last two segments.      *)
PodsNameAlerts ==
    \A a \in Alerts : Forwards(a, "firing") =>
        /\ NamesOnlyPod(a.labels)
        /\ \E d \in Seq(Segments) \ {<< >>}, h \in Segments, x \in Segments :
              /\ Get(a.labels, "pod") = Append(Append(d, h), x)
              /\ About[a] = <<Get(a.labels, "namespace"), d>>

(* The rules that say "by pod" keep the naming right, with names, hashes   *)
(* and suffixes of any length.                                             *)
THEOREM PodAlertsSkipTheirOwn ==
    ASSUME PodsNameAlerts, BootLeft = 0
    PROVE  DeliverySpec => SkippedForOwnDeployment
<1>1. ASSUME NEW a \in Alerts, Forwards(a, "firing") PROVE GroupKey(a) = About[a]
  <2>1. PICK d \in Seq(Segments) \ {<< >>}, h \in Segments, x \in Segments :
              /\ Get(a.labels, "pod") = Append(Append(d, h), x)
              /\ About[a] = <<Get(a.labels, "namespace"), d>>
    BY <1>1 DEF PodsNameAlerts
  <2>2. StripSuffixes(Get(a.labels, "pod"), 2) = d
    <3>1. StripSuffixes(Append(Append(d, h), x), 2) = d
      BY StripTwo
    <3> QED
      BY <2>1, <3>1
  <2>3. DeploymentOf(a.labels) = d
    BY <1>1, <2>2, NamedByPod DEF PodsNameAlerts, Or, Absent
  <2>4. Get(a.labels, "namespace") # Absent
    BY <1>1 DEF Forwards
  <2>5. GroupKey(a) = <<Get(a.labels, "namespace"), DeploymentOf(a.labels)>>
    BY <2>4 DEF GroupKey, AlertToSignal
  <2> QED
    BY <2>1, <2>3, <2>5
<1>2. NamedRight
  BY <1>1 DEF NamedRight
<1> QED
  BY <1>2, RightNamesSkipTheirOwn
=============================================================================
