------------------------------ MODULE Traffic ------------------------------
(***************************************************************************)
(* The TrafficManager of nya/core/control.py for one API: the limiters of  *)
(* its keys, its endpoint and its clients, and the load balancer of        *)
(* nya/services/lb.py that picks the key.  A queued request is granted a   *)
(* key when its client, the endpoint and a key all have quota; the grant   *)
(* is one step, because the caller holds the traffic lock and nothing in   *)
(* it awaits.                                                              *)
(*                                                                         *)
(* A call of a client is made of attempts: the first and its retries, one  *)
(* after the other.  Closing the response of an attempt that was given up  *)
(* may raise while a later attempt of the call is under way, and releases  *)
(* once more everything the call has by then.                              *)
(*                                                                         *)
(* The limiter of a user is used exactly as the limiter of an IP address   *)
(* is: "client" stands for either.  The clock advances in steps of Step,   *)
(* so that a window that is no multiple of Step never ends exactly at a    *)
(* call, and one that is can.                                              *)
(***************************************************************************)
EXTENDS Limiter

CONSTANTS
    Requests,     \* attempts, each granted a key at most once
    Calls,        \* calls of clients: what an attempt is an attempt of
    CallOf,       \* the call of each attempt
    Exempt,       \* attempts of calls with _rate_limited = False
    Keys,         \* the API's keys
    KeyOrder,     \* LoadBalancer.keys, the keys in configuration order
    Weight,       \* LoadBalancer.weights
    Clients,
    ClientOf,     \* the client of each attempt
    Setups,       \* configurations to consider, see Setup
    LockTTL,      \* _lock_ttl
    CoolDowns,    \* durations block_key is called with
    Speeds,       \* average response times to tell apart, see speed
    NoKey,        \* None
    Step,         \* length of a clock tick
    MaxTime       \* bound on the clock

Strategies == {"round_robin", "random", "least_requests", "fastest_response", "weighted"}

Setup == [key : LimiterConfig, endpoint : LimiterConfig, client : LimiterConfig,
          concurrency : BOOLEAN, strategy : Strategies]

N == Len(KeyOrder)

ASSUME TrafficAssumption ==
    /\ IsFiniteSet(Requests)
    /\ KeyOrder \in Seq(Keys)
    /\ \A k \in Keys : \E i \in 1..N : KeyOrder[i] = k
    /\ N > 0
    /\ Weight \in [Keys -> Nat]
    /\ ClientOf \in [Requests -> Clients]
    /\ Exempt \subseteq Requests
    /\ CallOf \in [Requests -> Calls]
    /\ Setups \subseteq Setup
    /\ LockTTL \in Nat \ {0}
    /\ CoolDowns \subseteq Nat
    /\ Speeds \subseteq Nat \ {0}
    /\ NoKey \notin Keys
    /\ Step \in Nat \ {0}

\* All attempts of a call are of one client, and exempt or not together.
ASSUME CallAssumption ==
    \A p, q \in Requests :
        CallOf[p] = CallOf[q] => /\ ClientOf[p] = ClientOf[q]
                                 /\ p \in Exempt <=> q \in Exempt

VARIABLES
    now,          \* the clock
    setup,        \* the configuration; never changes
    keyLimiter,   \* limiter of each key
    endpoint,     \* limiter of the endpoint
    client,       \* limiter of each client
    index,        \* LoadBalancer.current_index, from 1
    count,        \* LoadBalancer.requests_count
    speed,        \* mean of LoadBalancer.response_times, 0 while empty
    status,       \* what became of each attempt, see Statuses
    key,          \* the key each attempt was granted
    apiKey,       \* request.api_key: the key a call was granted last
    \* History, read by properties only, but for one guard of CloseFails.
    grantedAt,    \* when each attempt was granted its key, 0 before
    refundedAt,   \* when each failed attempt was refunded, 0 before
    closedAt,     \* when closing its response made a second release, 0 before
    closedKey,    \* of which key
    expiries,     \* how often the lock of each key ran out by its TTL
    stolen        \* how often a second release took its running lock

history == <<grantedAt, refundedAt, closedAt, closedKey, expiries, stolen>>

vars == <<now, setup, keyLimiter, endpoint, client, index, count, speed,
          status, key, apiKey, history>>

Statuses == {"new", "held", "ok", "failed", "kept"}

Enforced(r) == r \notin Exempt

Init ==
    /\ now = Step
    /\ setup \in Setups
    /\ keyLimiter = [k \in Keys |-> NewLimiter]
    /\ endpoint = NewLimiter
    /\ client = [c \in Clients |-> NewLimiter]
    /\ index = 1
    /\ count = [k \in Keys |-> 0]
    /\ speed = [k \in Keys |-> 0]
    /\ status = [r \in Requests |-> "new"]
    /\ key = [r \in Requests |-> NoKey]
    /\ grantedAt = [r \in Requests |-> 0]
    /\ refundedAt = [r \in Requests |-> 0]
    /\ apiKey = [c \in Calls |-> NoKey]
    /\ closedAt = [r \in Requests |-> 0]
    /\ closedKey = [r \in Requests |-> NoKey]
    /\ expiries = [k \in Keys |-> 0]
    /\ stolen = [k \in Keys |-> 0]

---------------------------------------------------------------------------
(* Waits.                                                                  *)

\* Mutant of ClientWait: only exempt requests are checked.
ClientWaitIfExempt(r) ==
    IF Enforced(r) THEN 0 ELSE TimeUntilReset(client[ClientOf[r]], setup.client, now)

\* _check_for_proxy_limit.
ClientWait(r) ==
    IF Enforced(r) THEN TimeUntilReset(client[ClientOf[r]], setup.client, now) ELSE 0

\* Mutant of EndpointWait: a cool-down is checked, the window is not.
EndpointBlockedOnly(r) == Larger(0, endpoint.blockedUntil - now)

EndpointWait(r) ==
    IF Enforced(r) THEN TimeUntilReset(endpoint, setup.endpoint, now) ELSE 0

\* time_to_key_ready: the shortest wait of all keys.
KeyWaits(r) ==
    {KeyWait(keyLimiter[k], setup.key, now, Enforced(r)) : k \in Keys}

ShortestKeyWait(r) == CHOOSE w \in KeyWaits(r) : \A v \in KeyWaits(r) : w <= v

\* What _wait_for_key sleeps before it tries again: try_acquire_key is not
\* asked while the client itself has to wait.
Wait(r) ==
    IF ClientWait(r) > 0 THEN ClientWait(r)
    ELSE Larger(EndpointWait(r), ShortestKeyWait(r))

---------------------------------------------------------------------------
(* Load balancing.                                                         *)

Usable(r, k) == ~KeyUnavailable(keyLimiter[k], setup.key, now, Enforced(r))

\* The keys one call of next() may return, round robin aside.
Drawn ==
    CASE setup.strategy = "random" -> Keys
      [] setup.strategy = "least_requests" ->
           {k \in Keys : \A j \in Keys : count[k] <= count[j]}
      [] setup.strategy = "fastest_response" ->
           LET fastest(i) == \A j \in 1..N : \/ speed[KeyOrder[i]] < speed[KeyOrder[j]]
                                             \/ /\ speed[KeyOrder[i]] = speed[KeyOrder[j]]
                                                /\ i <= j
           IN  {KeyOrder[i] : i \in {i \in 1..N : fastest(i)}}
      [] setup.strategy = "weighted" ->
           IF \E k \in Keys : Weight[k] > 0 THEN {k \in Keys : Weight[k] > 0} ELSE Keys

\* The index of the d-th key that N calls of round robin's next() return.
Turned(d) == ((index - 1 + d) % N) + 1

\* Round robin takes the first usable key of a full turn.
RoundRobin(r) ==
    LET usable == {d \in 0..(N - 1) : Usable(r, KeyOrder[Turned(d)])}
    IN  IF usable = {} THEN {NoKey}
        ELSE {KeyOrder[Turned(CHOOSE d \in usable : \A e \in usable : d <= e)]}

\* The other strategies draw N times from the same set: any usable key in it
\* may come out, and no key if it holds one that is not usable.
Draws(r) ==
    {k \in Drawn : Usable(r, k)}
      \cup (IF \E k \in Drawn : ~Usable(r, k) THEN {NoKey} ELSE {})

\* The outcomes of a pass of _wait_for_key: a key, or NoKey.
Outcomes(r) ==
    IF Wait(r) > 0 THEN {NoKey}
    ELSE IF setup.strategy = "round_robin" THEN RoundRobin(r) ELSE Draws(r)

---------------------------------------------------------------------------
(* Operations.                                                             *)

\* The checks clean the deques they look at.  (A check that finds a usable key
\* early leaves later deques as they are; a later check cleans them first, so
\* none can tell.)
Checked(l, c, r) == IF Enforced(r) THEN AfterIsLimited(l, c, now) ELSE l

Recorded(l, r) == IF Enforced(r) THEN Record(l, now) ELSE l

\* Mutant of RecordedAndLocked: exempt requests take no lock.
RecordedAndLockedIfEnforced(l, r) ==
    IF setup.concurrency \/ ~Enforced(r) THEN Recorded(l, r)
    ELSE Lock(Recorded(l, r), now, LockTTL)

\* record_key_usage: the lock is taken for exempt requests as well.
RecordedAndLocked(l, r) ==
    IF setup.concurrency THEN Recorded(l, r) ELSE Lock(Recorded(l, r), now, LockTTL)

\* An attempt waits for a key when the ones before it were given up.
Waiting(r) ==
    /\ status[r] = "new"
    /\ \A q \in Requests \ {r} :
         CallOf[q] = CallOf[r] => status[q] \in {"new", "failed", "kept"}

\* try_acquire_key grants k; the client's quota is recorded in the same pass.
Acquire(r, k) ==
    /\ Waiting(r)
    /\ k \in Outcomes(r) \ {NoKey}
    /\ keyLimiter' =
         [j \in Keys |->
            LET l == Checked(keyLimiter[j], setup.key, r)
            IN  IF j = k THEN RecordedAndLocked(l, r) ELSE l]
    /\ endpoint' = Recorded(Checked(endpoint, setup.endpoint, r), r)
    /\ client' = [client EXCEPT ![ClientOf[r]] =
                    Recorded(Checked(@, setup.client, r), r)]
    /\ count' = [count EXCEPT ![k] = @ + 1]
    /\ index' = IF setup.strategy = "round_robin"
                THEN ((CHOOSE i \in 1..N : KeyOrder[i] = k) % N) + 1
                ELSE index
    /\ status' = [status EXCEPT ![r] = "held"]
    /\ key' = [key EXCEPT ![r] = k]
    /\ apiKey' = [apiKey EXCEPT ![CallOf[r]] = k]
    /\ grantedAt' = [grantedAt EXCEPT ![r] = now]
    /\ UNCHANGED <<now, setup, speed, refundedAt, closedAt, closedKey, expiries, stolen>>

\* The pass ends without a key: it has cleaned the deques it looked at.
Refuse(r) ==
    /\ Waiting(r)
    /\ NoKey \in Outcomes(r)
    /\ client' = [client EXCEPT ![ClientOf[r]] = Checked(@, setup.client, r)]
    /\ IF ClientWait(r) > 0
       THEN UNCHANGED <<endpoint, keyLimiter>>
       ELSE /\ endpoint' = Checked(endpoint, setup.endpoint, r)
            /\ keyLimiter' = [k \in Keys |-> Checked(keyLimiter[k], setup.key, r)]
    /\ UNCHANGED <<now, setup, index, count, speed, status, key, apiKey, history>>

\* _finish_streaming_request: record_response_time, then unlock_key.
Succeed(r) ==
    /\ status[r] = "held"
    /\ \E s \in Speeds : speed' = [speed EXCEPT ![key[r]] = s]
    /\ keyLimiter' = [keyLimiter EXCEPT ![key[r]] = Unlock(@)]
    /\ status' = [status EXCEPT ![r] = "ok"]
    /\ UNCHANGED <<now, setup, endpoint, client, index, count, key, apiKey, history>>

\* release_ip, release_user and release_endpoint.
Refund(r) ==
    IF Enforced(r)
    THEN /\ client' = [client EXCEPT ![ClientOf[r]] = Release(@)]
         /\ endpoint' = Release(endpoint)
    ELSE UNCHANGED <<client, endpoint>>

\* release_key.
ReleasedKey(k, r) ==
    LET l == keyLimiter[k]
    IN  IF Enforced(r) THEN Unlock(Release(l)) ELSE Unlock(l)

\* _free_resources_on_failure.
Fail(r) ==
    /\ status[r] = "held"
    /\ Refund(r)
    /\ keyLimiter' = [keyLimiter EXCEPT ![key[r]] = ReleasedKey(key[r], r)]
    /\ status' = [status EXCEPT ![r] = "failed"]
    /\ refundedAt' = [refundedAt EXCEPT ![r] = now]
    /\ UNCHANGED <<now, setup, index, count, speed, key, apiKey, grantedAt, closedAt,
                   closedKey, expiries, stolen>>

\* The same for a status that is retried or quarantined: block_key follows.
FailAndBlock(r, d) ==
    /\ status[r] = "held"
    /\ Refund(r)
    /\ keyLimiter' = [keyLimiter EXCEPT ![key[r]] = BlockFor(ReleasedKey(key[r], r), now, d)]
    /\ status' = [status EXCEPT ![r] = "failed"]
    /\ refundedAt' = [refundedAt EXCEPT ![r] = now]
    /\ UNCHANGED <<now, setup, index, count, speed, key, apiKey, grantedAt, closedAt,
                   closedKey, expiries, stolen>>

\* A status below 400 that is retried: block_key alone, the key stays locked.
Keep(r, d) ==
    /\ status[r] = "held"
    /\ keyLimiter' = [keyLimiter EXCEPT ![key[r]] = BlockFor(@, now, d)]
    /\ status' = [status EXCEPT ![r] = "kept"]
    /\ UNCHANGED <<now, setup, endpoint, client, index, count, speed, key, apiKey, history>>

\* Closing the response of an attempt that was given up raises, and the worker
\* runs _free_resources_on_failure (again) for the key its call has by then,
\* which may be in use: by a later attempt of the call or by another call.
CloseFails(r) ==
    LET k == apiKey[CallOf[r]]
    IN  /\ status[r] \in {"failed", "kept"}
        /\ closedAt[r] = 0
        /\ Refund(r)
        /\ keyLimiter' = [keyLimiter EXCEPT ![k] = ReleasedKey(k, r)]
        /\ closedAt' = [closedAt EXCEPT ![r] = now]
        /\ closedKey' = [closedKey EXCEPT ![r] = k]
        /\ stolen' = [stolen EXCEPT ![k] = IF Locked(keyLimiter[k], now) THEN @ + 1 ELSE @]
        /\ UNCHANGED <<now, setup, index, count, speed, status, key, apiKey, grantedAt,
                       refundedAt, expiries>>

Tick ==
    /\ now + Step <= MaxTime
    /\ now' = now + Step
    /\ expiries' = [k \in Keys |->
                      IF Locked(keyLimiter[k], now) /\ ~Locked(keyLimiter[k], now')
                      THEN expiries[k] + 1 ELSE expiries[k]]
    /\ UNCHANGED <<setup, keyLimiter, endpoint, client, index, count, speed,
                   status, key, apiKey, grantedAt, refundedAt, closedAt, closedKey, stolen>>

Next ==
    \/ \E r \in Requests, k \in Keys : Acquire(r, k)
    \/ \E r \in Requests : Refuse(r)
    \/ \E r \in Requests : Succeed(r)
    \/ \E r \in Requests : Fail(r)
    \/ \E r \in Requests, d \in CoolDowns : FailAndBlock(r, d)
    \/ \E r \in Requests, d \in CoolDowns : Keep(r, d)
    \/ \E r \in Requests : CloseFails(r)
    \/ Tick

Spec == Init /\ [][Next]_vars

---------------------------------------------------------------------------
(* Properties.                                                             *)

\* Every variable has its type.
TypeOK ==
    /\ now \in Time
    /\ setup \in Setup
    /\ keyLimiter \in [Keys -> LimiterState]
    /\ endpoint \in LimiterState
    /\ client \in [Clients -> LimiterState]
    /\ index \in 1..N
    /\ count \in [Keys -> Nat]
    /\ speed \in [Keys -> Nat]
    /\ status \in [Requests -> Statuses]
    /\ key \in [Requests -> Keys \cup {NoKey}]
    /\ apiKey \in [Calls -> Keys \cup {NoKey}]
    /\ grantedAt \in [Requests -> Time]
    /\ refundedAt \in [Requests -> Time]
    /\ closedAt \in [Requests -> Time]
    /\ closedKey \in [Requests -> Keys \cup {NoKey}]
    /\ expiries \in [Keys -> Nat]
    /\ stolen \in [Keys -> Nat]

\* The attempts that count and for which something happened in the window that
\* ends now.
Within(at, c) == {r \in Requests \ Exempt : at[r] # 0 /\ now - at[r] < c.window}

\* The attempts S were granted at most what c allows plus their refunds and the
\* second refunds of the attempts U, all within a window.
Admitted(S, U, c) ==
    ~Unlimited(c) =>
        Cardinality(S \cap Within(grantedAt, c)) <=
            c.limit + Cardinality(S \cap Within(refundedAt, c))
                    + Cardinality(U \cap Within(closedAt, c))

\* Whatever the order of grants and refunds on the three levels, neither the
\* endpoint, nor a client, nor a key admits more in a window than its limit
\* plus the refunds made in that window, the second refunds of failing closes
\* included: "1/15s (one request per 15 seconds)" (README.md:234).
EndpointWindow == Admitted(Requests, Requests, setup.endpoint)

AttemptsOf(c) == {r \in Requests : ClientOf[r] = c}

\* The same for each client.
ClientWindow == \A c \in Clients : Admitted(AttemptsOf(c), AttemptsOf(c), setup.client)

GrantedBy(k) == {r \in Requests : key[r] = k}

ClosedOn(k) == {r \in Requests : closedKey[r] = k}

\* The same for each key; a failing close refunds the key its call has by then.
KeyWindow == \A k \in Keys : Admitted(GrantedBy(k), ClosedOn(k), setup.key)

\* What key k sees of the attempts: those of other keys are new to it, until
\* the close of one releases it.
StatusAt(k) ==
    [r \in Requests |-> IF key[r] = k THEN status[r]
                        ELSE IF closedKey[r] = k THEN "elsewhere" ELSE "new"]

TimesAt(k, keys, at) == [r \in Requests |-> IF keys[r] = k THEN at[r] ELSE 0]

ConfigOf(s) == [limit |-> s.key.limit, window |-> s.key.window,
                concurrency |-> s.concurrency]

\* The limiter of key k and the attempts that use it, as RateLimiter specifies
\* them.  Its deadline is the latest end of the cool-downs asked for.
KeyLimiter(k) == INSTANCE RateLimiter WITH
    Configs    <- {ConfigOf(s) : s \in Setups},
    config     <- ConfigOf(setup),
    limiter    <- keyLimiter[k],
    status     <- StatusAt(k),
    grantedAt  <- TimesAt(k, key, grantedAt),
    refundedAt <- TimesAt(k, key, refundedAt),
    closedAt   <- TimesAt(k, closedKey, closedAt),
    coolUntil  <- keyLimiter[k].blockedUntil,
    expiries   <- expiries[k],
    stolen     <- stolen[k]

\* The manager implements RateLimiter for every key at once: whatever clients,
\* endpoint and balancer do, and whichever key a failing close releases, a key's
\* limiter is checked, used, refunded, locked and blocked as that specification
\* says, and so keeps its window, its cool-downs and its bound on the holders.
KeysAsSpecified ==
    /\ \A k \in Keys : KeyLimiter(k)!Init
    /\ [][\A k \in Keys : [KeyLimiter(k)!Next]_(KeyLimiter(k)!vars)]_vars

\* The wait computed from the clients', the endpoint's and all keys' deadlines
\* is enough: if nobody acts meanwhile, the client's part is over one tick
\* later, and, the client being ready, so are the endpoint and some key.
WaitSuffices ==
    \A r \in Requests :
        LET then == now + Wait(r) + 1
        IN  status[r] = "new" =>
              IF ClientWait(r) > 0
              THEN ~IsLimited(client[ClientOf[r]], setup.client, then)
              ELSE /\ Enforced(r) => ~IsLimited(endpoint, setup.endpoint, then)
                   /\ \E k \in Keys :
                        ~KeyUnavailable(keyLimiter[k], setup.key, then, Enforced(r))
============================================================================
