---------------------------- MODULE MCWatchLoop ------------------------------
(***************************************************************************)
(* WatchLoop for TLC: two messages of one deployment, which may be drained *)
(* together or apart, and a second deployment only the poll knows of.  For *)
(* the counterexamples: one deployment, a message that can be routed and   *)
(* one that cannot.                                                        *)
(***************************************************************************)
EXTENDS WatchLoop, TLC

CONSTANTS Api, Worker, M1, M2, Bad

MCDeployments == {Api, Worker}
MCMessages == {M1, M2}
MCKeyOf == M1 :> Api @@ M2 :> Api

\* The two messages are alike: nothing but KeyOf tells messages apart.
MCSymmetry == Permutations(MCMessages)

OneDeployment == {Api}
OneMessages == {M1, Bad}
OneKeyOf == M1 :> Api @@ Bad :> Malformed
=============================================================================
