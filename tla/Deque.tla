-------------------------------- MODULE Deque --------------------------------
(***************************************************************************)
(* The deques of times that circuit_breaker.py and pre_decide_gate.py      *)
(* prune with one and the same popleft loop.                               *)
(***************************************************************************)
EXTENDS Integers, Sequences

Times == Nat

\* Mutant of FirstKept: an entry exactly as old as the window is dropped too.
FirstKeptStrict(f, cutoff) ==
    CHOOSE i \in 1 .. (Len(f) + 1) :
        /\ \A j \in 1 .. (i - 1) : f[j] <= cutoff
        /\ i <= Len(f) => f[i] > cutoff

(* The index of the first entry the popleft loop of record_failure leaves  *)
(* in the deque: every entry before it is older than the cutoff.           *)
FirstKept(f, cutoff) ==
    CHOOSE i \in 1 .. (Len(f) + 1) :
        /\ \A j \in 1 .. (i - 1) : f[j] < cutoff
        /\ i <= Len(f) => f[i] >= cutoff

DropOld(f, cutoff) == SubSeq(f, FirstKept(f, cutoff), Len(f))
=============================================================================
