------------------------------ MODULE Limiter ------------------------------
(***************************************************************************)
(* The RateLimiter class of nya/services/limit.py as operators over a      *)
(* record: the deque of request timestamps (oldest first), the deadline of *)
(* the concurrency lock and the deadline of the cool-down.  Every method   *)
(* reads the clock, so every operator takes "now".  A deadline of 0 stands *)
(* for None / 0.0: the clock is never negative, so such a deadline is over.*)
(*                                                                         *)
(* A configuration c = [limit, window] is the parsed rate limit; a zero in *)
(* either field means "no limit".  The module holds no state and nothing   *)
(* recursive, so the proof modules can use it.                             *)
(***************************************************************************)
EXTENDS Integers, Sequences, FiniteSets

Time == Nat

LimiterState == [ts : Seq(Time), lockedUntil : Time, blockedUntil : Time]

LimiterConfig == [limit : Nat, window : Nat]

NewLimiter == [ts |-> <<>>, lockedUntil |-> 0, blockedUntil |-> 0]

Larger(a, b) == IF a >= b THEN a ELSE b

Unlimited(c) == c.limit = 0 \/ c.window = 0

---------------------------------------------------------------------------
(* Queries.                                                                *)

Locked(l, now) == now < l.lockedUntil

Blocked(l, now) == now < l.blockedUntil

\* How many timestamps _clean_old_timestamps pops: the loop pops from the left
\* while the front is strictly before the window.
\* Mutant of Popped: the window's own boundary is popped as well.
PoppedAtBoundary(ts, start) ==
    Cardinality({i \in DOMAIN ts : \A j \in 1..i : ts[j] <= start})

Popped(ts, start) ==
    Cardinality({i \in DOMAIN ts : \A j \in 1..i : ts[j] < start})

Cleaned(ts, start) == SubSeq(ts, Popped(ts, start) + 1, Len(ts))

\* Mutant of IsLimited: an off-by-one in the count.
IsLimitedLate(l, c, now) ==
    \/ Locked(l, now)
    \/ Blocked(l, now)
    \/ /\ ~Unlimited(c)
       /\ Len(Cleaned(l.ts, now - c.window)) > c.limit

\* What is_limited answers ...
IsLimited(l, c, now) ==
    \/ Locked(l, now)
    \/ Blocked(l, now)
    \/ /\ ~Unlimited(c)
       /\ Len(Cleaned(l.ts, now - c.window)) >= c.limit

\* ... and the limiter it leaves behind.  The early returns skip the cleaning.
AfterIsLimited(l, c, now) ==
    IF Locked(l, now) \/ Blocked(l, now) \/ Unlimited(c)
    THEN l
    ELSE [l EXCEPT !.ts = Cleaned(@, now - c.window)]

TimeUntilUnlocked(l, now) == Larger(0, l.lockedUntil - now)

\* time_until_reset reads the deque that is_limited may just have cleaned.
TimeUntilReset(l, c, now) ==
    LET ts      == AfterIsLimited(l, c, now).ts
        blocked == Larger(0, l.blockedUntil - now)
    IN  IF ~IsLimited(l, c, now) THEN 0
        ELSE IF ts = <<>> THEN blocked
        ELSE Larger(blocked, ts[1] + c.window - now)

\* Mutant of KeyWait: the lock's deadline is left out.
KeyWaitWithoutLock(l, c, now, enforce) ==
    IF enforce THEN TimeUntilReset(l, c, now) ELSE Larger(0, l.blockedUntil - now)

\* The term of one key in TrafficManager.time_to_key_ready: how long a waiter
\* is told to sleep for this key.
KeyWait(l, c, now, enforce) ==
    LET reset == IF enforce THEN TimeUntilReset(l, c, now)
                            ELSE Larger(0, l.blockedUntil - now)
    IN  IF Locked(l, now) THEN Larger(reset, TimeUntilUnlocked(l, now)) ELSE reset

\* TrafficManager._key_is_unavailable.
KeyUnavailable(l, c, now, enforce) ==
    Locked(l, now) \/ Blocked(l, now) \/ (enforce /\ IsLimited(l, c, now))

---------------------------------------------------------------------------
(* Updates.                                                                *)

Record(l, now) == [l EXCEPT !.ts = Append(@, now)]

\* release: drop the most recent timestamp, whoever recorded it.
Release(l) ==
    IF l.ts = <<>> THEN l ELSE [l EXCEPT !.ts = SubSeq(@, 1, Len(@) - 1)]

\* Mutant of Lock: the deadline lies in the past.
LockBackwards(l, now, ttl) == [l EXCEPT !.lockedUntil = now - ttl]

Lock(l, now, ttl) == [l EXCEPT !.lockedUntil = now + ttl]

Unlock(l) == [l EXCEPT !.lockedUntil = 0]

\* Mutant of BlockFor: the last caller wins.
BlockForLast(l, now, duration) == [l EXCEPT !.blockedUntil = now + duration]

\* block_for never shortens a cool-down that is already running.
BlockFor(l, now, duration) ==
    [l EXCEPT !.blockedUntil = Larger(@, now + duration)]
============================================================================
