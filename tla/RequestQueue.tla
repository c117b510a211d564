---------------------------- MODULE RequestQueue ----------------------------
(***************************************************************************)
(* The request queue of one API (nya/core/queue.py) with its clients       *)
(* (NyaProxyCore.handle_request), its worker pool, its retry tasks, the     *)
(* concurrency locks and cool-downs of its keys (nya/core/control.py) and  *)
(* the streamed responses that keep a key locked after the worker is done  *)
(* (nya/core/streaming.py).                                                *)
(*                                                                         *)
(* asyncio runs one task at a time and switches only at an await that      *)
(* suspends.  An action is the code between two such points, so every      *)
(* interleaving the event loop can produce is a behaviour:                 *)
(*   - a worker's get(), the checks of _process_api_queue and the first    *)
(*     pass of the loop in _wait_for_key are one step, and so is every     *)
(*     later pass, with the grant and the start of the upstream call;      *)
(*   - the wait condition's lock is never held across a suspension, so it  *)
(*     needs no variable: a step is a critical section.                    *)
(*                                                                         *)
(* Abstracted: clock values (a deadline may pass at any time: TimerFires,  *)
(* LockExpires, CoolDownEnds, Expire), the rate-limit windows (they may    *)
(* refuse at any time: Park; TrafficManager models them), message          *)
(* contents, and which of the identical workers does a step.               *)
(***************************************************************************)
EXTENDS Integers, FiniteSets, Functions

CONSTANTS
    Requests,       \* the requests clients send
    Keys,           \* the API's keys
    Exempt,         \* requests with _rate_limited = False
    MaxWorkers,     \* queue.max_workers
    MaxSize,        \* queue.max_size
    MaxRetries,     \* retry.attempts
    KeyConcurrency, \* key_concurrency
    RetriesBelow400,\* does retry_status_codes name a status below 400?
    NoKey           \* request.api_key before the first grant

ASSUME QueueAssumption ==
    /\ IsFiniteSet(Requests)
    /\ Exempt \subseteq Requests
    /\ NoKey \notin Keys
    /\ MaxWorkers \in Nat \ {0}
    /\ MaxSize \in Nat \ {0}
    /\ MaxRetries \in Nat
    /\ KeyConcurrency \in BOOLEAN
    /\ RetriesBelow400 \in BOOLEAN

VARIABLES
    future,     \* request.future
    place,      \* where the request is, see Places
    key,        \* request.api_key; keeps its last value
    attempts,   \* request.attempts
    closing,    \* workers inside _close_response for the request
    locked,     \* RateLimiter.locked of each key's limiter
    cooling,    \* is the key's blocked_until in the future?
    notify,     \* is a _notify task scheduled?
    phase,      \* "open"; close() makes it "clearing", then "closed"
    \* History, read by properties only.
    charged,    \* window slots recorded for the request minus those refunded
    kept,       \* how often the request was retried without being freed
    left,       \* keys whose lock such a retry left behind
    raised,     \* how often _close_response raised for the request
    expiries,   \* how often the key's lock expired
    stolen      \* how often a failing close released the key's lock

vars == <<future, place, key, attempts, closing, locked, cooling, notify,
          phase, charged, kept, left, raised, expiries, stolen>>

Answers == {"ok",        \* set_result, status < 400
            "error",     \* set_result, status >= 400
            "failed",    \* set_exception
            "cancelled"} \* the client timed out or went away

Futures == {"none", "pending", "rejected"} \cup Answers

Places == {"new",        \* not submitted
           "heap",       \* in the priority queue
           "parked",     \* its worker is in cond.wait()
           "awake",      \* its worker was woken and runs the loop next
           "upstream",   \* its worker awaits the processor
           "delivered",  \* streamed response set as result, not yet picked up
           "streaming",  \* the client reads the body
           "retry",      \* in a _requeue_after_delay task
           "orphan",     \* the streamed response was dropped unread
           "lost",       \* its worker was cancelled by close()
           "gone"}       \* the queue is done with it

Done(r) == future[r] \in Answers

\* Workers that are not in get(): one per claimed request, and one per
\* upstream response that is being closed on behalf of nobody.
Busy == Cardinality({r \in Requests : place[r] \in {"parked", "awake", "upstream"}})
          + FoldFunction(+, 0, closing)

HeapSize == Cardinality({r \in Requests : place[r] = "heap"})

\* ProxyRequest.__lt__: a re-queued retry (priority 1) comes before the rest.
First(r) == attempts[r] > 0 \/ \A s \in Requests : place[s] = "heap" => attempts[s] = 0

Init ==
    /\ future = [r \in Requests |-> "none"]
    /\ place = [r \in Requests |-> "new"]
    /\ key = [r \in Requests |-> NoKey]
    /\ attempts = [r \in Requests |-> 0]
    /\ closing = [r \in Requests |-> 0]
    /\ locked = [k \in Keys |-> FALSE]
    /\ cooling = [k \in Keys |-> FALSE]
    /\ notify = FALSE
    /\ phase = "open"
    /\ charged = [r \in Requests |-> 0]
    /\ kept = [r \in Requests |-> 0]
    /\ left = {}
    /\ raised = [r \in Requests |-> 0]
    /\ expiries = [k \in Keys |-> 0]
    /\ stolen = [k \in Keys |-> 0]

---------------------------------------------------------------------------
(* Clients.                                                                *)

\* Mutant of Submit: an off-by-one in the size check.
SubmitOneMore(r) ==
    /\ place[r] = "new"
    /\ phase = "open"
    /\ HeapSize <= MaxSize
    /\ future' = [future EXCEPT ![r] = "pending"]
    /\ place' = [place EXCEPT ![r] = "heap"]
    /\ UNCHANGED <<key, attempts, closing, locked, cooling, notify, phase,
                   charged, kept, left, raised, expiries, stolen>>

\* enqueue_request up to its return.
Submit(r) ==
    /\ place[r] = "new"
    /\ phase = "open"
    /\ IF HeapSize >= MaxSize
       THEN /\ future' = [future EXCEPT ![r] = "rejected"]    \* QueueFullError
            /\ place' = [place EXCEPT ![r] = "gone"]
       ELSE /\ future' = [future EXCEPT ![r] = "pending"]
            /\ place' = [place EXCEPT ![r] = "heap"]
    /\ UNCHANGED <<key, attempts, closing, locked, cooling, notify, phase,
                   charged, kept, left, raised, expiries, stolen>>

\* Mutant of GiveUp: no done-callback.
GiveUpQuietly(r) ==
    /\ future[r] = "pending"
    /\ future' = [future EXCEPT ![r] = "cancelled"]
    /\ UNCHANGED <<place, key, attempts, closing, locked, cooling, notify,
                   phase, charged, kept, left, raised, expiries, stolen>>

\* wait_for cancels the future on a timeout; the done-callback of a request in
\* _wait_for_key schedules a notification.
GiveUp(r) ==
    /\ future[r] = "pending"
    /\ future' = [future EXCEPT ![r] = "cancelled"]
    /\ notify' = (notify \/ place[r] \in {"parked", "awake"})
    /\ UNCHANGED <<place, key, attempts, closing, locked, cooling, phase,
                   charged, kept, left, raised, expiries, stolen>>

\* The handler picks up a streamed response and the client starts reading ...
StartStream(r) ==
    /\ place[r] = "delivered"
    /\ place' = [place EXCEPT ![r] = "streaming"]
    /\ UNCHANGED <<future, key, attempts, closing, locked, cooling, notify,
                   phase, charged, kept, left, raised, expiries, stolen>>

\* ... or its timeout or disconnect comes after set_result and before the
\* first chunk: the body generator never starts, so nothing finalizes it.
DropStream(r) ==
    /\ place[r] = "delivered"
    /\ place' = [place EXCEPT ![r] = "orphan"]
    /\ UNCHANGED <<future, key, attempts, closing, locked, cooling, notify,
                   phase, charged, kept, left, raised, expiries, stolen>>

---------------------------------------------------------------------------
(* Waking.                                                                 *)

\* The _notify task: notify_all.
NotifyAll ==
    /\ notify
    /\ notify' = FALSE
    /\ place' = [r \in Requests |->
                    IF place[r] = "parked" THEN "awake" ELSE place[r]]
    /\ UNCHANGED <<future, key, attempts, closing, locked, cooling, phase,
                   charged, kept, left, raised, expiries, stolen>>

\* Mutant of TimerFires: cond.wait() without a timeout.
NoTimer(r) == place[r] = "parked" /\ notify /\ NotifyAll

\* wait_for(cond.wait(), timeout) times out.
TimerFires(r) ==
    /\ place[r] = "parked"
    /\ place' = [place EXCEPT ![r] = "awake"]
    /\ UNCHANGED <<future, key, attempts, closing, locked, cooling, notify,
                   phase, charged, kept, left, raised, expiries, stolen>>

---------------------------------------------------------------------------
(* A worker takes a request off the heap, or runs the wait loop again.     *)

\* get() may return r to some idle worker.
Claimable(r) ==
    /\ place[r] = "heap"
    /\ First(r)
    /\ Busy < MaxWorkers

Turn(r) == phase # "closed" /\ (Claimable(r) \/ place[r] = "awake")

\* Mutant of Available: the lock is not checked.
AvailableIfCool(k) == ~cooling[k]

Available(k) == ~locked[k] /\ ~cooling[k]

\* The future is done: dropped when claimed, or when no key was granted.
Drop(r) ==
    /\ Turn(r)
    /\ Done(r)
    /\ place' = [place EXCEPT ![r] = "gone"]
    /\ UNCHANGED <<future, key, attempts, closing, locked, cooling, notify,
                   phase, charged, kept, left, raised, expiries, stolen>>

\* The future is done but the loop grants a key first; _process_with_worker
\* gives it back before anything can see it.
GiveBack(r, k) ==
    /\ Turn(r)
    /\ place[r] = "awake"
    /\ Done(r)
    /\ Available(k)
    /\ key' = [key EXCEPT ![r] = k]
    /\ place' = [place EXCEPT ![r] = "gone"]
    /\ notify' = TRUE
    /\ UNCHANGED <<future, attempts, closing, locked, cooling, phase,
                   charged, kept, left, raised, expiries, stolen>>

\* RequestExpiredError, on claiming or in the loop.  Only the loop has the
\* callback that notifies.
Expire(r) ==
    /\ Turn(r)
    /\ future[r] = "pending"
    /\ future' = [future EXCEPT ![r] = "failed"]
    /\ place' = [place EXCEPT ![r] = "gone"]
    /\ \/ notify' = TRUE
       \/ place[r] = "heap" /\ UNCHANGED notify
    /\ UNCHANGED <<key, attempts, closing, locked, cooling, phase, charged,
                   kept, left, raised, expiries, stolen>>

\* ReachedMaxQuotaError: the client's IP or user quota outlasts the expiry.
OverQuota(r) ==
    /\ Turn(r)
    /\ future[r] = "pending"
    /\ r \notin Exempt
    /\ future' = [future EXCEPT ![r] = "failed"]
    /\ place' = [place EXCEPT ![r] = "gone"]
    /\ notify' = TRUE
    /\ UNCHANGED <<key, attempts, closing, locked, cooling, phase, charged,
                   kept, left, raised, expiries, stolen>>

\* record_key_usage, record_ip_request, record_user_request, and the endpoint.
Charge(r) == IF r \in Exempt THEN 0 ELSE 1

\* try_acquire_key grants k; the upstream attempt starts in the same step.
Grant(r, k) ==
    /\ Turn(r)
    /\ future[r] = "pending"
    /\ Available(k)
    /\ key' = [key EXCEPT ![r] = k]
    /\ locked' = [locked EXCEPT ![k] = ~KeyConcurrency]
    /\ charged' = [charged EXCEPT ![r] = @ + Charge(r)]
    /\ attempts' = [attempts EXCEPT ![r] = @ + 1]
    /\ place' = [place EXCEPT ![r] = "upstream"]
    /\ UNCHANGED <<future, closing, cooling, notify, phase, kept, left, raised,
                   expiries, stolen>>

\* No key, or a rate-limit window refuses: wait on the condition.
Park(r) ==
    /\ Turn(r)
    /\ future[r] = "pending"
    /\ place' = [place EXCEPT ![r] = "parked"]
    /\ UNCHANGED <<future, key, attempts, closing, locked, cooling, notify,
                   phase, charged, kept, left, raised, expiries, stolen>>

---------------------------------------------------------------------------
(* The processor returns to the worker.                                    *)

\* Mutant of Free: the refund without the unlock.
FreeKeepingLock(r) ==
    /\ charged' = [charged EXCEPT ![r] = @ - Charge(r)]
    /\ notify' = TRUE
    /\ UNCHANGED <<locked, kept, left>>

\* _free_resources_on_failure: refunds, unlock, notification.
Free(r) ==
    /\ charged' = [charged EXCEPT ![r] = @ - Charge(r)]
    /\ locked' = [locked EXCEPT ![key[r]] = FALSE]
    /\ left' = left \ {key[r]}
    /\ notify' = TRUE
    /\ UNCHANGED kept

\* Mutants of UnlockKey: with a refund, and without the notification.
UnlockRefunding(r) == Free(r)

UnlockQuietly(r) ==
    /\ locked' = [locked EXCEPT ![key[r]] = FALSE]
    /\ left' = left \ {key[r]}
    /\ UNCHANGED <<charged, kept, notify>>

\* unlock_key: no refund.
UnlockKey(r) ==
    /\ locked' = [locked EXCEPT ![key[r]] = FALSE]
    /\ left' = left \ {key[r]}
    /\ notify' = TRUE
    /\ UNCHANGED <<charged, kept>>

\* _close_response: only a streamed response has something to await.
Closes(r, streamed) ==
    closing' = [closing EXCEPT ![r] = IF streamed THEN @ + 1 ELSE @]

\* The client left during the call: give everything back.
Abandoned(r, streamed) ==
    /\ place[r] = "upstream"
    /\ phase # "closed"
    /\ Done(r)
    /\ Free(r)
    /\ Closes(r, streamed)
    /\ place' = [place EXCEPT ![r] = "gone"]
    /\ UNCHANGED <<future, key, attempts, cooling, phase, raised, expiries,
                   stolen>>

\* A complete response below 400: the key is released at once.
Success(r) ==
    /\ place[r] = "upstream"
    /\ phase # "closed"
    /\ future[r] = "pending"
    /\ future' = [future EXCEPT ![r] = "ok"]
    /\ UnlockKey(r)
    /\ place' = [place EXCEPT ![r] = "gone"]
    /\ UNCHANGED <<key, attempts, closing, cooling, phase, raised,
                   expiries, stolen>>

\* A streamed response below 400: a finalizer will release the key.
StreamedSuccess(r) ==
    /\ place[r] = "upstream"
    /\ phase # "closed"
    /\ future[r] = "pending"
    /\ future' = [future EXCEPT ![r] = "ok"]
    /\ place' = [place EXCEPT ![r] = "delivered"]
    /\ UNCHANGED <<key, attempts, closing, locked, cooling, notify, phase,
                   charged, kept, left, raised, expiries, stolen>>

\* Status >= 400 that is not retried: the key is given back at once, even when
\* the response is streamed and its upstream exchange stays open until the
\* client has read it.  "quarantine" is key_blocking.
ErrorStatus(r, streamed, quarantine) ==
    /\ place[r] = "upstream"
    /\ phase # "closed"
    /\ future[r] = "pending"
    /\ future' = [future EXCEPT ![r] = "error"]
    /\ Free(r)
    /\ cooling' = [cooling EXCEPT ![key[r]] = @ \/ quarantine]
    /\ place' = [place EXCEPT ![r] = IF streamed THEN "delivered" ELSE "gone"]
    /\ UNCHANGED <<key, attempts, closing, phase, raised, expiries,
                   stolen>>

\* _handle_user_defined_retry once its settings match: the key cools down, and
\* either a retry task is created or the request fails; then the worker closes
\* the response.
Retries(r, streamed) ==
    /\ cooling' = [cooling EXCEPT ![key[r]] = TRUE]
    /\ IF attempts[r] < MaxRetries
       THEN /\ place' = [place EXCEPT ![r] = "retry"]
            /\ UNCHANGED future
       ELSE /\ place' = [place EXCEPT ![r] = "gone"]
            /\ future' = [future EXCEPT ![r] = "failed"]
    /\ Closes(r, streamed)

\* Status >= 400 that is retried.
RetryStatus(r, streamed) ==
    /\ place[r] = "upstream"
    /\ phase # "closed"
    /\ future[r] = "pending"
    /\ Free(r)
    /\ Retries(r, streamed)
    /\ UNCHANGED <<key, attempts, phase, raised, expiries, stolen>>

\* Status below 400 that is retried: nothing is refunded, and nothing unlocks
\* the key.
RetryUnfreed(r, streamed) ==
    /\ RetriesBelow400
    /\ place[r] = "upstream"
    /\ phase # "closed"
    /\ future[r] = "pending"
    /\ Retries(r, streamed)
    /\ kept' = [kept EXCEPT ![r] = @ + 1]
    /\ left' = IF locked[key[r]] THEN left \cup {key[r]} ELSE left
    /\ UNCHANGED <<key, attempts, locked, notify, phase, charged, raised,
                   expiries, stolen>>

\* Mutant of Raises: the future is not checked before set_exception.
RaisesOverwriting(r) ==
    /\ place[r] = "upstream"
    /\ phase # "closed"
    /\ Free(r)
    /\ future' = [future EXCEPT ![r] = "failed"]
    /\ place' = [place EXCEPT ![r] = "gone"]
    /\ UNCHANGED <<key, attempts, closing, cooling, phase, raised,
                   expiries, stolen>>

\* The processor raises: transport error, timeout, bad body.
Raises(r) ==
    /\ place[r] = "upstream"
    /\ phase # "closed"
    /\ Free(r)
    /\ future' = [future EXCEPT ![r] = IF @ = "pending" THEN "failed" ELSE @]
    /\ place' = [place EXCEPT ![r] = "gone"]
    /\ UNCHANGED <<key, attempts, closing, cooling, phase, raised,
                   expiries, stolen>>

\* Mutant of CloseReturns: a worker that closes nothing "returns" as well.
CloseReturnsUnasked(r) ==
    /\ phase # "closed"
    /\ closing' = [closing EXCEPT ![r] = @ - 1]
    /\ UNCHANGED <<future, place, key, attempts, locked, cooling, notify,
                   phase, charged, kept, left, raised, expiries, stolen>>

\* _close_response returns; the worker goes back to get().
CloseReturns(r) ==
    /\ closing[r] > 0
    /\ phase # "closed"
    /\ closing' = [closing EXCEPT ![r] = @ - 1]
    /\ UNCHANGED <<future, place, key, attempts, locked, cooling, notify,
                   phase, charged, kept, left, raised, expiries, stolen>>

\* _close_response raises: "except Exception" frees the resources a second
\* time, under whatever api_key the request has by now.
CloseRaises(r) ==
    /\ closing[r] > 0
    /\ phase # "closed"
    /\ closing' = [closing EXCEPT ![r] = @ - 1]
    /\ Free(r)
    /\ future' = [future EXCEPT ![r] = IF @ = "pending" THEN "failed" ELSE @]
    /\ raised' = [raised EXCEPT ![r] = @ + 1]
    /\ stolen' = [stolen EXCEPT ![key[r]] = IF locked[key[r]] THEN @ + 1 ELSE @]
    /\ UNCHANGED <<place, key, attempts, cooling, phase, expiries>>

\* The body is complete, broken, or cut by a disconnect: finalize runs
\* _finish_streaming_request once, which only a success has as a finalizer.
EndStream(r) ==
    /\ place[r] = "streaming"
    /\ \/ future[r] = "ok" /\ UnlockKey(r)
       \/ future[r] = "error" /\ UNCHANGED <<locked, left, charged, kept, notify>>
    /\ place' = [place EXCEPT ![r] = "gone"]
    /\ UNCHANGED <<future, key, attempts, closing, cooling, phase, raised,
                   expiries, stolen>>

---------------------------------------------------------------------------
(* Retry tasks, time, queue control and shutdown.                          *)

\* _requeue_after_delay: put() without a size check.
Requeue(r) ==
    /\ place[r] = "retry"
    /\ place' = [place EXCEPT ![r] = IF Done(r) THEN "gone" ELSE "heap"]
    /\ UNCHANGED <<future, key, attempts, closing, locked, cooling, notify,
                   phase, charged, kept, left, raised, expiries, stolen>>

LockExpires(k) ==
    /\ locked[k]
    /\ locked' = [locked EXCEPT ![k] = FALSE]
    /\ left' = left \ {k}
    /\ expiries' = [expiries EXCEPT ![k] = @ + 1]
    /\ UNCHANGED <<future, place, key, attempts, closing, cooling, notify,
                   phase, charged, kept, raised, stolen>>

CoolDownEnds(k) ==
    /\ cooling[k]
    /\ cooling' = [cooling EXCEPT ![k] = FALSE]
    /\ UNCHANGED <<future, place, key, attempts, closing, locked, notify,
                   phase, charged, kept, left, raised, expiries, stolen>>

\* Mutant of Clear: retry tasks are cancelled but their futures forgotten.
ClearForgettingRetries ==
    LET cleared == {r \in Requests : place[r] \in {"heap", "retry"}}
    IN  /\ future' = [r \in Requests |->
                        IF place[r] = "heap" /\ future[r] = "pending"
                        THEN "failed" ELSE future[r]]
        /\ place' = [r \in Requests |-> IF r \in cleared THEN "gone" ELSE place[r]]

\* clear_queue up to its await: the heap and the retry tasks are emptied.
Clear ==
    LET cleared == {r \in Requests : place[r] \in {"heap", "retry"}}
    IN  /\ future' = [r \in Requests |->
                        IF r \in cleared /\ future[r] = "pending"
                        THEN "failed" ELSE future[r]]
        /\ place' = [r \in Requests |-> IF r \in cleared THEN "gone" ELSE place[r]]

\* The dashboard's queue-clear endpoint.
ClearQueue ==
    /\ phase = "open"
    /\ \E r \in Requests : place[r] \in {"heap", "retry"}
    /\ Clear
    /\ UNCHANGED <<key, attempts, closing, locked, cooling, notify, phase,
                   charged, kept, left, raised, expiries, stolen>>

\* close(): first clear_all_queues ...
BeginClose ==
    /\ phase = "open"
    /\ Clear
    /\ phase' = "clearing"
    /\ UNCHANGED <<key, attempts, closing, locked, cooling, notify,
                   charged, kept, left, raised, expiries, stolen>>

\* ... then every worker and every retry task created meanwhile is cancelled.
EndClose ==
    /\ phase = "clearing"
    /\ phase' = "closed"
    /\ place' = [r \in Requests |->
                    IF place[r] \in {"parked", "awake", "upstream", "retry"}
                    THEN "lost" ELSE place[r]]
    /\ closing' = [r \in Requests |-> 0]
    /\ UNCHANGED <<future, key, attempts, locked, cooling, notify, charged,
                   kept, left, raised, expiries, stolen>>

---------------------------------------------------------------------------

Client == \E r \in Requests : Submit(r) \/ GiveUp(r) \/ StartStream(r) \/ DropStream(r)

Worker(r) ==
    \/ Drop(r)
    \/ Expire(r)
    \/ OverQuota(r)
    \/ Park(r)
    \/ \E k \in Keys : GiveBack(r, k) \/ Grant(r, k)

Upstream(r) ==
    \/ Success(r)
    \/ StreamedSuccess(r)
    \/ Raises(r)
    \/ \E streamed \in BOOLEAN : \/ Abandoned(r, streamed)
                                \/ RetryStatus(r, streamed)
                                \/ RetryUnfreed(r, streamed)
    \/ \E streamed, quarantine \in BOOLEAN : ErrorStatus(r, streamed, quarantine)

Closing(r) == CloseReturns(r) \/ CloseRaises(r)

Clock ==
    \/ \E r \in Requests : TimerFires(r) \/ Requeue(r)
    \/ \E k \in Keys : LockExpires(k) \/ CoolDownEnds(k)

Next ==
    \/ Client
    \/ NotifyAll
    \/ \E r \in Requests : Worker(r) \/ Upstream(r) \/ Closing(r) \/ EndStream(r)
    \/ Clock
    \/ ClearQueue
    \/ BeginClose
    \/ EndClose

Spec == Init /\ [][Next]_vars

\* Fairness, for liveness.  The event loop runs every task that is ready, an
\* upstream exchange and a body end (every httpx call carries a timeout), and
\* the clock advances: a retry delay passes, a waiter's timed wake-up comes,
\* and a request that is looked at again and again is one day found expired.
\* Nothing is assumed of clients, and no timed wake-up is granted to a request
\* whose client has left, so that WakeOnClientExit depends on the callback.
Fairness ==
    /\ WF_vars(NotifyAll)
    /\ \A r \in Requests :
         /\ WF_vars(Worker(r))
         /\ SF_vars(Expire(r))
         /\ WF_vars(Upstream(r))
         /\ WF_vars(Closing(r))
         /\ WF_vars(EndStream(r))
         /\ WF_vars(Requeue(r))
         /\ WF_vars(future[r] = "pending" /\ TimerFires(r))

FairSpec == Spec /\ Fairness

---------------------------------------------------------------------------
(* Properties.                                                             *)

\* Every variable has its type.
TypeOK ==
    /\ future \in [Requests -> Futures]
    /\ place \in [Requests -> Places]
    /\ key \in [Requests -> Keys \cup {NoKey}]
    /\ attempts \in [Requests -> Nat]
    /\ closing \in [Requests -> Nat]
    /\ locked \in [Keys -> BOOLEAN]
    /\ cooling \in [Keys -> BOOLEAN]
    /\ notify \in BOOLEAN
    /\ phase \in {"open", "clearing", "closed"}
    /\ charged \in [Requests -> Int]
    /\ kept \in [Requests -> Nat]
    /\ left \subseteq Keys
    /\ raised \in [Requests -> Nat]
    /\ expiries \in [Keys -> Nat]
    /\ stolen \in [Keys -> Nat]

\* The upstream exchange of the request's last try is open (a response that
\* only remains to be closed is not counted: see "closing").
Using == {"upstream", "delivered", "streaming", "orphan"}

\* A request holds its key from the grant until the code gives the key back: at
\* the end of the exchange, or with the status of a response >= 400, which may
\* still be streamed to the client afterwards.
Holds(r) == place[r] \in Using /\ future[r] # "error"

Users(k) == {r \in Requests : Holds(r) /\ key[r] = k}

\* key_concurrency: false means one holder per key.  Every further concurrent
\* holder was let in by the lock expiring under the one before, or by a failing
\* close releasing it: by nothing else, and each such event lets in one.  (It
\* bounds the holders, not the open exchanges: a streamed error response that
\* is being delivered, or a response being closed, no longer holds its key.)
HoldersBounded ==
    ~KeyConcurrency =>
        \A k \in Keys :
            Cardinality(Users(k)) <=
                (IF locked[k] THEN 1 ELSE 0) + expiries[k] + stolen[k]

\* "key_concurrency: false" with no expired lock: never two holders of a key.
ExclusiveKey ==
    ~KeyConcurrency =>
        \A k \in Keys : expiries[k] = 0 => Cardinality(Users(k)) <= 1

\* No exit from a request leaves its key locked, but for a retry of a status
\* below 400: any other locked key has a holder.
LockHasUser ==
    phase # "closed" =>
        \A k \in Keys : locked[k] => Users(k) # {} \/ k \in left

\* "Every exit from a request releases it explicitly" (limit.py:144-146): the
\* holder of a locked key is one that can still release it.
LockHasReleaser ==
    phase # "closed" =>
        \A k \in Keys : locked[k] => \E r \in Users(k) : place[r] # "orphan"

\* While the queue runs, a request whose client waits is in the heap, with a
\* worker, or with a retry task: nobody waits for a request that was dropped.
NotLost ==
    phase # "closed" =>
        \A r \in Requests :
            future[r] = "pending" =>
                place[r] \in {"heap", "parked", "awake", "upstream", "retry"}

\* The window slots a request took are refunded unless it succeeded, and only
\* once, but for one more refund each time closing its response raised, and
\* none for a try whose status below 400 was retried.
Accounting ==
    phase # "closed" =>
        \A r \in Requests :
            charged[r] =
                IF r \in Exempt THEN 0
                ELSE (IF Holds(r) \/ future[r] = "ok" THEN 1 ELSE 0)
                        + kept[r] - raised[r]

\* queue.max_size bounds the requests waiting for their first attempt (a retry
\* is put back without a size check).
FreshBounded ==
    Cardinality({r \in Requests : place[r] = "heap" /\ attempts[r] = 0}) <= MaxSize

\* An explicit release schedules a notification, and a notification leaves
\* nobody parked: a release cannot slip between "no key" and "wait".
ReleaseWakes ==
    [][/\ \A k \in Keys : locked[k] /\ ~locked'[k] /\ expiries'[k] = expiries[k]
                            => notify'
       /\ notify /\ ~notify' => \A r \in Requests : place'[r] # "parked"]_vars

\* Every request that was accepted is answered: no waiter is stranded on a key
\* that never frees, in a retry, or behind workers that never come back.
Answered ==
    \A r \in Requests : future[r] = "pending" ~> Done(r) \/ phase = "closed"

\* A worker parked for a client that has gone is freed by that client's exit,
\* "instead of holding a slot until its next timed wake-up" (queue.py:187-189).
WakeOnClientExit ==
    \A r \in Requests : place[r] = "parked" /\ Done(r) ~> place[r] # "parked"

\* The queue keeps the promise of RequestLifecycle.
MaxTries == IF MaxRetries > 1 THEN MaxRetries ELSE 1

Lifecycle == INSTANCE RequestLifecycle
             WITH answer <- future, tries <- attempts,
                  running <- [r \in Requests |-> place[r] = "upstream"]

KeepsPromise == Lifecycle!Spec
============================================================================
