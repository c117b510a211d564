---------------------------- MODULE RateLimiter ----------------------------
(***************************************************************************)
(* One key's RateLimiter driven by the calls TrafficManager makes on it    *)
(* for the attempts that use the key: the check-and-grant of               *)
(* try_acquire_key, the release after a success (unlock_key), the refund   *)
(* after a failure (release_key), the cool-down of a retry or of a         *)
(* quarantined status (block_key), and the second release_key that follows *)
(* when closing the discarded response of an attempt raises.               *)
(*                                                                         *)
(* Attempts of requests exempt from rate limits neither count in the   *)
(* window nor look at it, but respect the lock and the cool-down.          *)
(*                                                                         *)
(* Time is a counter; each call is atomic because nothing in the class and *)
(* nothing between the check and the grant awaits.                         *)
(***************************************************************************)
EXTENDS Limiter

CONSTANTS
    Requests,     \* upstream attempts: a retry of a request is another one
    Exempt,       \* those with _rate_limited = False
    Configs,      \* key configurations to consider, see KeyConfig
    LockTTL,      \* TrafficManager._lock_ttl
    CoolDowns,    \* durations block_key is called with
    Step,         \* length of a clock tick
    MaxTime       \* bound on the clock

KeyConfig == [limit : Nat, window : Nat, concurrency : BOOLEAN]

ASSUME RateLimiterAssumption ==
    /\ IsFiniteSet(Requests)
    /\ Configs \subseteq KeyConfig
    /\ LockTTL \in Nat \ {0}
    /\ CoolDowns \subseteq Nat
    /\ Step \in Nat \ {0}

VARIABLES
    now,          \* the clock
    config,       \* the key's configuration; never changes
    limiter,      \* the RateLimiter instance
    status,       \* what became of each attempt, see Statuses
    grantedAt,    \* when each attempt was granted the key, 0 before
    \* History, read by properties only.
    refundedAt,   \* when each failed attempt was refunded, 0 before
    closedAt,     \* when closing its response made a second release, 0 before
    coolUntil,    \* latest end of all cool-downs asked for
    expiries,     \* how often the lock ran out by its TTL
    stolen        \* how often a second release took a running lock

Statuses == {"new",        \* not granted this key
             "held",       \* granted, under way
             "ok",         \* succeeded
             "failed",     \* failed, and refunded
             "kept",       \* status below 400 that is retried: not refunded
             "elsewhere"}  \* failed at another key, released this one

vars == <<now, config, limiter, status, grantedAt, refundedAt, closedAt,
          coolUntil, expiries, stolen>>

Exclusive == ~config.concurrency

Enforced(r) == r \notin Exempt

Init ==
    /\ now = Step
    /\ config \in Configs
    /\ limiter = NewLimiter
    /\ status = [r \in Requests |-> "new"]
    /\ grantedAt = [r \in Requests |-> 0]
    /\ refundedAt = [r \in Requests |-> 0]
    /\ closedAt = [r \in Requests |-> 0]
    /\ coolUntil = 0
    /\ expiries = 0
    /\ stolen = 0

---------------------------------------------------------------------------

\* Mutant of Used: the lock is never taken.
UsedWithoutLock(l, r) == IF Enforced(r) THEN Record(l, now) ELSE l

\* record_key_usage: the lock is taken for exempt requests as well.
Used(l, r) ==
    LET m == IF Enforced(r) THEN Record(l, now) ELSE l
    IN  IF Exclusive THEN Lock(m, now, LockTTL) ELSE m

\* The limiter that the check of the window leaves behind.
Looked(r) == IF Enforced(r) THEN AfterIsLimited(limiter, config, now) ELSE limiter

\* try_acquire_key found the key available.
Acquire(r) ==
    /\ status[r] = "new"
    /\ KeyWait(limiter, config, now, Enforced(r)) = 0
    /\ ~KeyUnavailable(limiter, config, now, Enforced(r))
    /\ limiter' = Used(Looked(r), r)
    /\ status' = [status EXCEPT ![r] = "held"]
    /\ grantedAt' = [grantedAt EXCEPT ![r] = now]
    /\ UNCHANGED <<now, config, refundedAt, closedAt, coolUntil, expiries, stolen>>

\* The key was checked but not granted: the check alone cleans the deque.  (A
\* check that finds the key unavailable has nothing to clean; this is the check
\* of a key that is free while the endpoint or the balancer decides otherwise.)
Check ==
    /\ limiter' = AfterIsLimited(limiter, config, now)
    /\ limiter' # limiter
    /\ UNCHANGED <<now, config, status, grantedAt, refundedAt, closedAt, coolUntil,
                   expiries, stolen>>

\* unlock_key: a successful request keeps the window slot it consumed.
Succeed(r) ==
    /\ status[r] = "held"
    /\ limiter' = Unlock(limiter)
    /\ status' = [status EXCEPT ![r] = "ok"]
    /\ UNCHANGED <<now, config, grantedAt, refundedAt, closedAt, coolUntil,
                   expiries, stolen>>

\* release_key: refund what was recorded, then unlock.
Refunded(l, r) == Unlock(IF Enforced(r) THEN Release(l) ELSE l)

Fail(r) ==
    /\ status[r] = "held"
    /\ limiter' = Refunded(limiter, r)
    /\ status' = [status EXCEPT ![r] = "failed"]
    /\ refundedAt' = [refundedAt EXCEPT ![r] = now]
    /\ UNCHANGED <<now, config, grantedAt, closedAt, coolUntil, expiries, stolen>>

\* release_key followed by block_key in the same step (retryable status).
FailAndBlock(r, d) ==
    /\ status[r] = "held"
    /\ limiter' = BlockFor(Refunded(limiter, r), now, d)
    /\ status' = [status EXCEPT ![r] = "failed"]
    /\ refundedAt' = [refundedAt EXCEPT ![r] = now]
    /\ coolUntil' = Larger(coolUntil, now + d)
    /\ UNCHANGED <<now, config, grantedAt, closedAt, expiries, stolen>>

\* block_key alone: a status below 400 is retried without a release, so the key
\* stays locked.
Keep(r, d) ==
    /\ status[r] = "held"
    /\ limiter' = BlockFor(limiter, now, d)
    /\ status' = [status EXCEPT ![r] = "kept"]
    /\ coolUntil' = Larger(coolUntil, now + d)
    /\ UNCHANGED <<now, config, grantedAt, refundedAt, closedAt, expiries, stolen>>

\* The retry of attempt r's request may have been granted this key.
RetriedHere(r) ==
    \E q \in Requests : /\ status[q] \notin {"new", "elsewhere"}
                        /\ Enforced(q) = Enforced(r)

\* Closing the discarded response of attempt r raised, and the worker releases
\* once more, whatever key the request has by then: r failed here, or at another
\* key while its request's retry got this one.  The lock may be anybody's.
CloseFails(r) ==
    /\ closedAt[r] = 0
    /\ \/ status[r] \in {"failed", "kept"} /\ UNCHANGED status
       \/ /\ status[r] = "new"
          /\ RetriedHere(r)
          /\ status' = [status EXCEPT ![r] = "elsewhere"]
    /\ limiter' = Refunded(limiter, r)
    /\ closedAt' = [closedAt EXCEPT ![r] = now]
    /\ stolen' = IF Locked(limiter, now) THEN stolen + 1 ELSE stolen
    /\ UNCHANGED <<now, config, grantedAt, refundedAt, coolUntil, expiries>>

Tick ==
    /\ now + Step <= MaxTime
    /\ now' = now + Step
    /\ expiries' = IF Locked(limiter, now) /\ ~Locked(limiter, now')
                   THEN expiries + 1 ELSE expiries
    /\ UNCHANGED <<config, limiter, status, grantedAt, refundedAt, closedAt,
                   coolUntil, stolen>>

Next ==
    \/ \E r \in Requests : Acquire(r)
    \/ Check
    \/ \E r \in Requests : Succeed(r)
    \/ \E r \in Requests : Fail(r)
    \/ \E r \in Requests, d \in CoolDowns : FailAndBlock(r, d)
    \/ \E r \in Requests, d \in CoolDowns : Keep(r, d)
    \/ \E r \in Requests : CloseFails(r)
    \/ Tick

Spec == Init /\ [][Next]_vars

---------------------------------------------------------------------------
(* Properties.                                                             *)

\* Every variable has its type.
TypeOK ==
    /\ now \in Time
    /\ config \in KeyConfig
    /\ limiter \in LimiterState
    /\ status \in [Requests -> Statuses]
    /\ grantedAt \in [Requests -> Time]
    /\ refundedAt \in [Requests -> Time]
    /\ closedAt \in [Requests -> Time]
    /\ coolUntil \in Time
    /\ expiries \in Nat
    /\ stolen \in Nat

\* The deque is in order and holds no time from the future: popping from the
\* left in _clean_old_timestamps and reading [0] in time_until_reset rely on it.
DequeSorted ==
    /\ \A i \in DOMAIN limiter.ts : limiter.ts[i] <= now
    /\ \A i, j \in DOMAIN limiter.ts : i <= j => limiter.ts[i] <= limiter.ts[j]

\* A rate limit of n never lets the deque grow past n, whatever the order of
\* grants, refunds and cleanings.
DequeBounded == ~Unlimited(config) => Len(limiter.ts) <= config.limit

\* The attempts for which something happened in the window that ends now, both
\* ends included, and that count.
Charged == Requests \ Exempt

InWindow(at) == {r \in Charged : at[r] # 0 /\ now - at[r] <= config.window}

\* Over-admission is bounded by the refunds: within any window the key is
\* granted at most limit times plus once for each refund made in that window,
\* the second refunds of failing closes included.
NetWindow ==
    ~Unlimited(config) =>
        Cardinality(InWindow(grantedAt)) <=
            config.limit + Cardinality(InWindow(refundedAt))
                         + Cardinality(InWindow(closedAt))

Holders == {r \in Requests : status[r] = "held"}

\* An exclusive key has one holder, and one more only for each lock that ran
\* out by its TTL and each running lock that a failing close released.
ExclusiveHolder ==
    Exclusive =>
        Cardinality(Holders) <=
            (IF Locked(limiter, now) THEN 1 ELSE 0) + expiries + stolen

\* No grant during a cool-down, even when a later and shorter cool-down was
\* asked for after it, and even when the refund emptied the deque.
CoolDownKept ==
    [][(\E r \in Requests : status[r] = "new" /\ status'[r] = "held")
         => now >= coolUntil]_vars

\* A waiter that sleeps as long as time_to_key_ready says finds the key free
\* one tick later at the latest, if nobody else used it meanwhile.
SleptEnough ==
    \A enforce \in BOOLEAN :
        LET wait == KeyWait(limiter, config, now, enforce)
        IN  ~KeyUnavailable(limiter, config, now + wait + 1, enforce)
============================================================================
