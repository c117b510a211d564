-------------------------- MODULE RequestLifecycle --------------------------
(***************************************************************************)
(* What the queue promises the client of a request, with no queue, worker, *)
(* key or retry task in sight: a request is refused on submission or gets  *)
(* at most one answer; upstream is tried at most MaxTries times, never     *)
(* twice at a time, never again once the request is answered; and only a   *)
(* try that is running can produce a response.                             *)
(***************************************************************************)
EXTENDS Integers

CONSTANTS Requests, MaxTries

VARIABLES
    answer,    \* "none", "pending", "rejected" or the answer
    tries,     \* upstream attempts so far
    running    \* is an attempt under way?

lifecycle == <<answer, tries, running>>

Failures == {"failed", "cancelled"}

Responses == {"ok", "error"}

Init ==
    /\ answer = [r \in Requests |-> "none"]
    /\ tries = [r \in Requests |-> 0]
    /\ running = [r \in Requests |-> FALSE]

Submit(r) ==
    /\ answer[r] = "none"
    /\ \E a \in {"pending", "rejected"} : answer' = [answer EXCEPT ![r] = a]
    /\ UNCHANGED <<tries, running>>

Try(r) ==
    /\ answer[r] = "pending"
    /\ ~running[r]
    /\ tries[r] < MaxTries
    /\ tries' = [tries EXCEPT ![r] = @ + 1]
    /\ running' = [running EXCEPT ![r] = TRUE]
    /\ UNCHANGED answer

\* A try ends with a response, a failure, or nothing (to be retried, or the
\* client is gone).
EndTry(r) ==
    /\ running[r]
    /\ running' = [running EXCEPT ![r] = FALSE]
    /\ \/ UNCHANGED answer
       \/ /\ answer[r] = "pending"
          /\ \E a \in Responses \cup Failures : answer' = [answer EXCEPT ![r] = a]
    /\ UNCHANGED tries

\* Timeouts, expiry, quota and queue control fail any number of requests.
FailSome ==
    /\ \E a \in Failures :
         \E S \in SUBSET {r \in Requests : answer[r] = "pending"} :
            answer' = [r \in Requests |-> IF r \in S THEN a ELSE answer[r]]
    /\ UNCHANGED <<tries, running>>

\* Shutdown stops whatever runs; the requests are never tried again.
StopAll ==
    /\ running' = [r \in Requests |-> FALSE]
    /\ UNCHANGED <<answer, tries>>

Next ==
    \/ \E r \in Requests : Submit(r) \/ Try(r) \/ EndTry(r)
    \/ FailSome
    \/ StopAll

Spec == Init /\ [][Next]_lifecycle
============================================================================
