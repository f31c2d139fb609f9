------------------------------ MODULE AIClient -------------------------------
(***************************************************************************)
(* The retry policy of the AI client, AIClient._post (executor/            *)
(* ai_client.py), against the AI engine it calls.                          *)
(*                                                                         *)
(* The engine is external and behaves as its contract says                 *)
(* (contract - new 4/deployment-contract.md, section 4): /v1/decide locks  *)
(* the idempotency key by a conditional write before it works on the       *)
(* request, and answers 409 to a key it finds locked.  A request may be    *)
(* worked on although its answer is an error or never arrives.             *)
(***************************************************************************)
EXTENDS Integers

CONSTANTS
    MaxRetries,   \* http_500_max_retries
    MaxKeys,      \* bound on the idempotency keys drawn
    MaxLimited    \* bound on the 429 answers of one call

ASSUME ClientConstants ==
    /\ MaxRetries \in Nat
    /\ MaxKeys \in Nat /\ MaxLimited \in Nat

VARIABLES
    pc,         \* "idle", "post": a request is under way, "done"
    path,       \* the endpoint of the call
    key,        \* body["idempotency_key"]
    attempt,    \* attempt
    outcome,    \* "answer", the AIError _post raises, or another exception
    drawn,      \* uuids drawn so far: the last one is the newest key
    locked,     \* engine: the keys it has locked
    plans,      \* history: plans the engine made for this call
    errors,     \* history: answers 500 to this call
    limited     \* history: answers 429 to this call

vars == <<pc, path, key, attempt, outcome, drawn, locked, plans, errors, limited>>

Paths == {"detect", "decide", "verify"}
Before(p) == IF p = "verify" THEN "decide" ELSE "detect"
Errors == {"AIBadRequest", "AIUnauthorized", "AITenantMismatch", "AIConflict",
           "AIInternalError", "AIUnavailable"}
Rejections == {"AIBadRequest", "AIUnauthorized", "AITenantMismatch"}

TypeOK ==
    /\ pc \in {"idle", "post", "done"}
    /\ path \in Paths
    /\ key \in 0 .. MaxKeys
    /\ attempt \in 0 .. MaxRetries
    /\ outcome \in Errors \cup {"none", "answer", "exception"}
    /\ drawn \in 0 .. MaxKeys
    /\ locked \subseteq 1 .. MaxKeys
    /\ plans \in Nat
    /\ errors \in Nat
    /\ limited \in 0 .. MaxLimited

Init ==
    /\ pc = "idle"
    /\ path = "detect"
    /\ key = 0
    /\ attempt = 0
    /\ outcome = "none"
    /\ drawn = 0
    /\ locked = {}
    /\ plans = 0 /\ errors = 0 /\ limited = 0

\* Mutant of Call: the client draws one key and keeps it for every call.
CallKeepingKey(p) ==
    /\ pc = "idle"
    /\ p # "detect" => path = Before(p) /\ outcome = "answer"
    /\ IF drawn > 0 THEN UNCHANGED <<key, drawn>>
                    ELSE drawn < MaxKeys /\ drawn' = drawn + 1 /\ key' = drawn'
    /\ pc' = "post"
    /\ path' = p
    /\ attempt' = 0 /\ outcome' = "none"
    /\ plans' = 0 /\ errors' = 0 /\ limited' = 0
    /\ UNCHANGED locked

\* handle_incident calls detect for every incident, decide when detect has
\* answered, verify when decide has.  detect and decide draw a key of their
\* own, verify sends decide's.  The call keeps its key, whatever it takes.
Call(p) ==
    /\ pc = "idle"
    /\ p # "detect" => path = Before(p) /\ outcome = "answer"
    /\ IF p = "verify" THEN UNCHANGED <<key, drawn>>
                       ELSE drawn < MaxKeys /\ drawn' = drawn + 1 /\ key' = drawn'
    /\ pc' = "post"
    /\ path' = p
    /\ attempt' = 0 /\ outcome' = "none"
    /\ plans' = 0 /\ errors' = 0 /\ limited' = 0
    /\ UNCHANGED locked

-----------------------------------------------------------------------------
(* The engine.                                                             *)

Refused == path = "decide" /\ key \in locked

\* The engine lets the request in: /v1/decide locks the key and may get as far
\* as a plan.
WorkedOn(planned) ==
    /\ ~Refused
    /\ locked' = IF path = "decide" THEN locked \cup {key} ELSE locked
    /\ plans' = IF path = "decide" /\ planned THEN plans + 1 ELSE plans

NotWorkedOn == UNCHANGED <<locked, plans>>

\* The request came to nothing the caller can see: it may have been worked on.
MayBeWorkedOn == NotWorkedOn \/ \E planned \in BOOLEAN : WorkedOn(planned)

-----------------------------------------------------------------------------
(* _post                                                                   *)

End(o) ==
    /\ outcome' = o
    /\ pc' = "done"
    /\ UNCHANGED <<path, key, attempt, drawn, errors, limited>>

Answered ==
    /\ pc = "post"
    /\ WorkedOn(TRUE)
    /\ End("answer")

Rejected ==
    /\ pc = "post"
    /\ NotWorkedOn
    /\ \E e \in Rejections : End(e)

Conflict ==
    /\ pc = "post"
    /\ Refused
    /\ NotWorkedOn
    /\ End("AIConflict")

\* 503, an unknown code, a timeout or a connection error: no second attempt.
Unavailable ==
    /\ pc = "post"
    /\ MayBeWorkedOn
    /\ End("AIUnavailable")

\* An answer the client cannot read: no JSON in a 200, no number in the
\* Retry-After of a 429.  The exception is none of errors.py.
Unreadable ==
    /\ pc = "post"
    /\ MayBeWorkedOn
    /\ End("exception")

\* Mutant of RateLimited: a 429 uses up an attempt.
RateLimitedCounted ==
    /\ pc = "post"
    /\ limited < MaxLimited
    /\ attempt < MaxRetries
    /\ limited' = limited + 1
    /\ attempt' = attempt + 1
    /\ UNCHANGED <<pc, path, key, outcome, drawn, errors>>
    /\ NotWorkedOn

\* 429: wait for Retry-After and post again, outside the quota of 500.
RateLimited ==
    /\ pc = "post"
    /\ limited < MaxLimited
    /\ limited' = limited + 1
    /\ UNCHANGED <<pc, path, key, attempt, outcome, drawn, errors>>
    /\ NotWorkedOn

\* Mutant of Failed: the retry draws a new key.
FailedRekeyed ==
    /\ pc = "post"
    /\ MayBeWorkedOn
    /\ errors' = errors + 1
    /\ attempt < MaxRetries /\ drawn < MaxKeys
    /\ attempt' = attempt + 1
    /\ drawn' = drawn + 1
    /\ key' = drawn'
    /\ UNCHANGED <<pc, path, outcome, limited>>

\* Mutant of Failed: the attempts are not counted.
FailedUncounted ==
    /\ pc = "post"
    /\ MayBeWorkedOn
    /\ errors' = (errors + 1) % 2
    /\ UNCHANGED <<pc, path, key, attempt, outcome, drawn, limited>>

\* Mutant of Failed: one attempt too many.
FailedOnceMore ==
    /\ pc = "post"
    /\ MayBeWorkedOn
    /\ errors' = errors + 1
    /\ attempt <= MaxRetries
    /\ attempt' = attempt + 1
    /\ UNCHANGED <<pc, path, key, outcome, drawn, limited>>

\* 500: back off and post again with the same key, MaxRetries times.
Failed ==
    /\ pc = "post"
    /\ MayBeWorkedOn
    /\ errors' = errors + 1
    /\ \/ /\ attempt < MaxRetries
          /\ attempt' = attempt + 1
          /\ UNCHANGED <<pc, outcome>>
       \/ /\ attempt = MaxRetries
          /\ pc' = "done"
          /\ outcome' = "AIInternalError"
          /\ UNCHANGED attempt
    /\ UNCHANGED <<path, key, drawn, limited>>

\* The caller takes the answer or the exception.
Return ==
    /\ pc = "done"
    /\ pc' = "idle"
    /\ UNCHANGED <<path, key, attempt, outcome, drawn, locked, plans, errors, limited>>

Post == Answered \/ Rejected \/ Conflict \/ Unavailable \/ Unreadable \/ RateLimited \/ Failed

Next == (\E p \in Paths : Call(p)) \/ Post \/ Return

Spec == Init /\ [][Next]_vars
FairSpec == Spec /\ WF_vars(Post)

-----------------------------------------------------------------------------
(* However often a call is retried, the engine makes at most one plan for  *)
(* it: two plans for one incident would be two changes to choose from.     *)
OnePlanPerCall == plans <= 1

(* The quota of retries is the contract's: a call gives up on 500 exactly  *)
(* when it has been answered 500 MaxRetries + 1 times, however many 429    *)
(* came in between.                                                        *)
GivesUpAfterRetries ==
    /\ errors <= MaxRetries + 1
    /\ outcome = "AIInternalError" <=> errors = MaxRetries + 1

(* A call is only ever refused for itself: the key of a 409 was locked by  *)
(* an attempt of the same call, which was answered 500 and may have made   *)
(* its plan.  handle_incident takes every 409 for another's work           *)
(* (main.py:143-145): by this property it never is, and the incident it    *)
(* closes without telling anybody is one whose plan may be lost.           *)
ConflictIsSelfInflicted ==
    outcome = "AIConflict" => path = "decide" /\ key \in locked /\ errors > 0

(* Every call ends, if the engine limits its rate only so often.           *)
CallEnds == pc = "post" ~> pc = "done"
=============================================================================
