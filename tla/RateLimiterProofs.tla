-------------------------- MODULE RateLimiterProofs --------------------------
(***************************************************************************)
(* Safety of one key's limiter, for every set of requests, configuration,  *)
(* lock TTL and set of cool-downs.                                         *)
(***************************************************************************)
EXTENDS RateLimiter, LimiterProofs

\* block_key's longest promise is what blocked_until holds.
CoolDownRecorded == coolUntil <= limiter.blockedUntil

\* The inductive invariant.
IInv ==
    /\ TypeOK
    /\ DequeSorted
    /\ DequeBounded
    /\ CoolDownRecorded

---------------------------------------------------------------------------

LEMMA InitInv == Init => IInv
  <1> SUFFICES ASSUME Init PROVE IInv
    OBVIOUS
  <1>1. limiter \in LimiterState /\ limiter.ts = <<>> /\ limiter.blockedUntil = 0
    BY NewLimiterProperties DEF Init, NewLimiter
  <1>2. TypeOK
    BY <1>1, RateLimiterAssumption DEF Init, TypeOK, Time, Statuses
  <1>3. DequeSorted
    BY <1>1 DEF DequeSorted
  <1>4. DequeBounded
    BY <1>1, <1>2, EmptySeq DEF DequeBounded, TypeOK, KeyConfig
  <1>5. CoolDownRecorded
    BY <1>1 DEF Init, CoolDownRecorded
  <1> QED
    BY <1>2, <1>3, <1>4, <1>5 DEF IInv

\* What the grant does to the limiter: it counts only if the request is charged.
LEMMA UsedProperties ==
    ASSUME TypeOK, NEW r \in Requests, NEW l \in LimiterState
    PROVE  /\ Used(l, r) \in LimiterState
           /\ Used(l, r).blockedUntil = l.blockedUntil
           /\ Exclusive => Used(l, r).lockedUntil = now + LockTTL
           /\ Used(l, r).ts = IF Enforced(r) THEN Append(l.ts, now) ELSE l.ts
           /\ InOrder(l.ts, now) => InOrder(Used(l, r).ts, now)
  <1> DEFINE m == IF Enforced(r) THEN Record(l, now) ELSE l
  <1>1. /\ m \in LimiterState
        /\ m.blockedUntil = l.blockedUntil
        /\ m.ts = IF Enforced(r) THEN Append(l.ts, now) ELSE l.ts
        /\ InOrder(l.ts, now) => InOrder(m.ts, now)
    <2>1. /\ Record(l, now) \in LimiterState
          /\ Record(l, now).blockedUntil = l.blockedUntil
          /\ InOrder(l.ts, now) => InOrder(Record(l, now).ts, now)
      BY RecordProperties DEF TypeOK
    <2>2. Record(l, now).ts = Append(l.ts, now)
      BY DEF Record, LimiterState
    <2> QED  BY <2>1, <2>2
  <1>2. now + LockTTL \in Time
    BY RateLimiterAssumption DEF TypeOK, Time
  <1>3. Used(l, r) = IF Exclusive THEN [m EXCEPT !.lockedUntil = now + LockTTL] ELSE m
    BY DEF Used, Lock
  <1> HIDE DEF m
  <1> QED
    BY <1>1, <1>2, <1>3 DEF LimiterState

\* What the refund does to the limiter.
LEMMA RefundedProperties ==
    ASSUME TypeOK, NEW r \in Requests
    PROVE  /\ Refunded(limiter, r) \in LimiterState
           /\ Refunded(limiter, r).blockedUntil = limiter.blockedUntil
           /\ Refunded(limiter, r).lockedUntil = 0
           /\ Refunded(limiter, r).ts = IF Enforced(r) THEN Release(limiter).ts ELSE limiter.ts
           /\ Len(Refunded(limiter, r).ts) <= Len(limiter.ts)
           /\ InOrder(limiter.ts, now) => InOrder(Refunded(limiter, r).ts, now)
  <1> DEFINE m == IF Enforced(r) THEN Release(limiter) ELSE limiter
  <1>1. Len(limiter.ts) \in Nat
    BY LenProperties DEF TypeOK, LimiterState
  <1>2. /\ m \in LimiterState
        /\ m.blockedUntil = limiter.blockedUntil
        /\ m.ts = IF Enforced(r) THEN Release(limiter).ts ELSE limiter.ts
        /\ Len(m.ts) <= Len(limiter.ts)
        /\ InOrder(limiter.ts, now) => InOrder(m.ts, now)
    BY <1>1, ReleaseProperties DEF TypeOK, Time
  <1>3. Refunded(limiter, r) = [m EXCEPT !.lockedUntil = 0]
    BY DEF Refunded, Unlock
  <1> HIDE DEF m
  <1> QED
    BY <1>2, <1>3 DEF LimiterState, Time

\* What the check leaves behind.
LEMMA LookedProperties ==
    ASSUME TypeOK, NEW r \in Requests
    PROVE  /\ Looked(r) \in LimiterState
           /\ Looked(r).blockedUntil = limiter.blockedUntil
           /\ Looked(r).lockedUntil = limiter.lockedUntil
           /\ Looked(r).ts \in {limiter.ts, Cleaned(limiter.ts, now - config.window)}
           /\ InOrder(limiter.ts, now) => InOrder(Looked(r).ts, now)
  <1>1. limiter \in LimiterState /\ config.window \in Int /\ now \in Int
    BY DEF TypeOK, KeyConfig, Time
  <1> QED
    BY <1>1, AfterIsLimitedProperties DEF Looked

---------------------------------------------------------------------------

LEMMA AcquireInv == ASSUME IInv, NEW r \in Requests, Acquire(r) PROVE IInv'
  <1> DEFINE m == Looked(r)
  <1> USE DEF IInv, TypeOK, KeyConfig
  <1>1. config.window \in Int /\ config.limit \in Nat /\ now \in Int
    BY DEF Time
  <1>2. InOrder(limiter.ts, now)
    BY DEF DequeSorted, InOrder
  <1>3. /\ m \in LimiterState
        /\ m.blockedUntil = limiter.blockedUntil
        /\ InOrder(m.ts, now)
    BY <1>2, LookedProperties
  <1>4. /\ limiter' \in LimiterState
        /\ limiter'.blockedUntil = limiter.blockedUntil
        /\ Exclusive => limiter'.lockedUntil = now + LockTTL
        /\ limiter'.ts = IF Enforced(r) THEN Append(m.ts, now) ELSE m.ts
        /\ InOrder(limiter'.ts, now)
    BY <1>3, UsedProperties DEF Acquire
  <1>5. /\ ~Locked(limiter, now) /\ ~Blocked(limiter, now)
        /\ Enforced(r) => ~IsLimited(limiter, config, now)
    BY DEF Acquire, KeyUnavailable
  <1>6. TypeOK'
    BY <1>4 DEF Acquire, Statuses
  <1>7. DequeSorted'
    BY <1>4 DEF DequeSorted, InOrder, Acquire
  <1>8. DequeBounded'
    <2> SUFFICES ASSUME ~Unlimited(config) PROVE Len(limiter'.ts) <= config.limit
      BY DEF Acquire, DequeBounded, Unlimited
    <2>1. CASE ~Enforced(r)
      <3>1. limiter'.ts = limiter.ts
        BY <1>4, <2>1 DEF Looked
      <3> QED  BY <3>1 DEF DequeBounded
    <2>2. CASE Enforced(r)
      <3>1. Len(Cleaned(limiter.ts, now - config.window)) < config.limit
        <4>1. limiter.ts \in Seq(Time) /\ now - config.window \in Int
          BY <1>1 DEF LimiterState
        <4>2. Len(Cleaned(limiter.ts, now - config.window)) \in Nat
          BY <4>1, CleanedProperties, LenProperties
        <4> QED
          BY <1>1, <1>5, <2>2, <4>2 DEF IsLimited
      <3>2. m = [limiter EXCEPT !.ts = Cleaned(limiter.ts, now - config.window)]
        BY <1>5, <2>2 DEF AfterIsLimited, Looked
      <3>3. m.ts = Cleaned(limiter.ts, now - config.window)
        BY <3>2 DEF LimiterState
      <3>4. m.ts \in Seq(Time) /\ Len(m.ts) \in Nat
        BY <1>3, LenProperties DEF LimiterState
      <3> HIDE DEF m
      <3>5. Len(limiter'.ts) = Len(m.ts) + 1
        BY <1>4, <2>2, <3>4, AppendProperties
      <3> QED
        BY <1>1, <3>1, <3>3, <3>4, <3>5
    <2> QED  BY <2>1, <2>2
  <1>9. CoolDownRecorded'
    BY <1>4 DEF Acquire, CoolDownRecorded
  <1> QED
    BY <1>6, <1>7, <1>8, <1>9

LEMMA CheckInv == ASSUME IInv, Check PROVE IInv'
  <1> USE DEF IInv, TypeOK, KeyConfig
  <1>1. config.window \in Int /\ config.limit \in Nat /\ now \in Int
    BY DEF Time
  <1>2. InOrder(limiter.ts, now)
    BY DEF DequeSorted, InOrder
  <1>3. /\ limiter' \in LimiterState
        /\ limiter'.lockedUntil = limiter.lockedUntil
        /\ limiter'.blockedUntil = limiter.blockedUntil
        /\ Len(limiter'.ts) <= Len(limiter.ts)
        /\ InOrder(limiter'.ts, now)
    BY <1>1, <1>2, AfterIsLimitedProperties DEF Check
  <1>4. TypeOK' /\ DequeSorted' /\ CoolDownRecorded'
    BY <1>3 DEF Check, DequeSorted, InOrder, CoolDownRecorded
  <1>5. DequeBounded'
    <2>1. Len(limiter.ts) \in Nat /\ Len(limiter'.ts) \in Nat
      BY <1>3, LenProperties DEF LimiterState
    <2> QED
      BY <1>1, <1>3, <2>1 DEF Check, DequeBounded, Unlimited
  <1> QED
    BY <1>4, <1>5

LEMMA SucceedInv == ASSUME IInv, NEW r \in Requests, Succeed(r) PROVE IInv'
  <1> USE DEF IInv, TypeOK, KeyConfig
  <1>1. limiter' = [limiter EXCEPT !.lockedUntil = 0]
    BY DEF Succeed, Unlock
  <1>2. /\ limiter' \in LimiterState
        /\ limiter'.ts = limiter.ts
        /\ limiter'.blockedUntil = limiter.blockedUntil
    BY <1>1 DEF LimiterState, Time
  <1>3. TypeOK'
    BY <1>2 DEF Succeed, Statuses
  <1>4. DequeSorted' /\ DequeBounded' /\ CoolDownRecorded'
    BY <1>2 DEF Succeed, DequeSorted, DequeBounded, Unlimited, CoolDownRecorded
  <1> QED
    BY <1>3, <1>4

\* What ends an attempt without success, or follows its end, leaves a shorter
\* deque and a cool-down at least as long as the ones asked for.
LEMMA EndInv ==
    ASSUME IInv,
           limiter' \in LimiterState,
           Len(limiter'.ts) <= Len(limiter.ts),
           InOrder(limiter.ts, now) => InOrder(limiter'.ts, now),
           limiter'.blockedUntil >= coolUntil',
           coolUntil' \in Time,
           status' \in [Requests -> Statuses],
           refundedAt' \in [Requests -> Time],
           closedAt' \in [Requests -> Time],
           stolen' \in Nat,
           UNCHANGED <<now, config, grantedAt, expiries>>
    PROVE  IInv'
  <1> USE DEF IInv, TypeOK, KeyConfig
  <1>1. TypeOK'
    OBVIOUS
  <1>2. DequeSorted'
    BY DEF DequeSorted, InOrder
  <1>3. DequeBounded'
    <2>1. Len(limiter.ts) \in Nat /\ Len(limiter'.ts) \in Nat
      BY LenProperties DEF LimiterState
    <2> QED
      BY <2>1 DEF DequeBounded, Unlimited
  <1>4. CoolDownRecorded'
    BY DEF CoolDownRecorded, LimiterState, Time
  <1> QED
    BY <1>1, <1>2, <1>3, <1>4

LEMMA FailInv == ASSUME IInv, NEW r \in Requests, Fail(r) PROVE IInv'
  <1>1. TypeOK /\ coolUntil <= limiter.blockedUntil
    BY DEF IInv, CoolDownRecorded
  <1>2. /\ limiter' \in LimiterState
        /\ limiter'.blockedUntil = limiter.blockedUntil
        /\ Len(limiter'.ts) <= Len(limiter.ts)
        /\ InOrder(limiter.ts, now) => InOrder(limiter'.ts, now)
    BY <1>1, RefundedProperties DEF Fail
  <1>3. coolUntil' \in Time /\ limiter'.blockedUntil >= coolUntil'
    BY <1>1, <1>2 DEF Fail, TypeOK, LimiterState, Time
  <1>4. /\ status' \in [Requests -> Statuses] /\ refundedAt' \in [Requests -> Time]
        /\ closedAt' \in [Requests -> Time] /\ stolen' \in Nat
    BY <1>1 DEF Fail, TypeOK, Statuses
  <1> QED
    BY <1>2, <1>3, <1>4, EndInv DEF Fail

LEMMA CloseFailsInv == ASSUME IInv, NEW r \in Requests, CloseFails(r) PROVE IInv'
  <1>1. TypeOK /\ coolUntil <= limiter.blockedUntil
    BY DEF IInv, CoolDownRecorded
  <1>2. /\ limiter' \in LimiterState
        /\ limiter'.blockedUntil = limiter.blockedUntil
        /\ Len(limiter'.ts) <= Len(limiter.ts)
        /\ InOrder(limiter.ts, now) => InOrder(limiter'.ts, now)
    BY <1>1, RefundedProperties DEF CloseFails
  <1>3. coolUntil' \in Time /\ limiter'.blockedUntil >= coolUntil'
    BY <1>1, <1>2 DEF CloseFails, TypeOK, LimiterState, Time
  <1>4. /\ status' \in [Requests -> Statuses] /\ refundedAt' \in [Requests -> Time]
        /\ closedAt' \in [Requests -> Time] /\ stolen' \in Nat
    BY <1>1 DEF CloseFails, TypeOK, Statuses
  <1> QED
    BY <1>2, <1>3, <1>4, EndInv DEF CloseFails

\* A cool-down on top of a limiter that recorded the ones before.
LEMMA BlockedProperties ==
    ASSUME TypeOK, NEW m \in LimiterState, coolUntil <= m.blockedUntil,
           NEW d \in CoolDowns
    PROVE  /\ BlockFor(m, now, d) \in LimiterState
           /\ BlockFor(m, now, d).ts = m.ts
           /\ BlockFor(m, now, d).lockedUntil = m.lockedUntil
           /\ BlockFor(m, now, d).blockedUntil >= Larger(coolUntil, now + d)
           /\ Larger(coolUntil, now + d) \in Time
  <1>1. now + d \in Time /\ coolUntil \in Time /\ m.blockedUntil \in Time
    BY RateLimiterAssumption DEF TypeOK, Time, LimiterState
  <1>2. BlockFor(m, now, d) = [m EXCEPT !.blockedUntil = Larger(m.blockedUntil, now + d)]
    BY DEF BlockFor, LimiterState
  <1>3. /\ Larger(m.blockedUntil, now + d) \in Time
        /\ Larger(coolUntil, now + d) \in Time
        /\ Larger(m.blockedUntil, now + d) >= Larger(coolUntil, now + d)
    BY <1>1 DEF Larger, Time
  <1> QED
    BY <1>2, <1>3 DEF LimiterState

LEMMA FailAndBlockInv ==
    ASSUME IInv, NEW r \in Requests, NEW d \in CoolDowns, FailAndBlock(r, d)
    PROVE  IInv'
  <1> DEFINE m == Refunded(limiter, r)
  <1>1. TypeOK /\ coolUntil <= limiter.blockedUntil
    BY DEF IInv, CoolDownRecorded
  <1>2. /\ m \in LimiterState
        /\ coolUntil <= m.blockedUntil
        /\ Len(m.ts) <= Len(limiter.ts)
        /\ InOrder(limiter.ts, now) => InOrder(m.ts, now)
    BY <1>1, RefundedProperties
  <1>3. limiter' = BlockFor(m, now, d) /\ coolUntil' = Larger(coolUntil, now + d)
    BY DEF FailAndBlock
  <1> HIDE DEF m
  <1>4. /\ BlockFor(m, now, d) \in LimiterState
        /\ BlockFor(m, now, d).ts = m.ts
        /\ BlockFor(m, now, d).blockedUntil >= Larger(coolUntil, now + d)
        /\ Larger(coolUntil, now + d) \in Time
    BY <1>1, <1>2, BlockedProperties
  <1>5. /\ status' \in [Requests -> Statuses] /\ refundedAt' \in [Requests -> Time]
        /\ closedAt' \in [Requests -> Time] /\ stolen' \in Nat
    BY <1>1 DEF FailAndBlock, TypeOK, Statuses
  <1>6. UNCHANGED <<now, config, grantedAt, expiries>>
    BY DEF FailAndBlock
  <1> QED
    BY <1>2, <1>3, <1>4, <1>5, <1>6, EndInv

LEMMA KeepInv ==
    ASSUME IInv, NEW r \in Requests, NEW d \in CoolDowns, Keep(r, d)
    PROVE  IInv'
  <1>1. TypeOK /\ coolUntil <= limiter.blockedUntil /\ limiter \in LimiterState
    BY DEF IInv, CoolDownRecorded, TypeOK
  <1>2. limiter' = BlockFor(limiter, now, d) /\ coolUntil' = Larger(coolUntil, now + d)
    BY DEF Keep
  <1>3. /\ BlockFor(limiter, now, d) \in LimiterState
        /\ BlockFor(limiter, now, d).ts = limiter.ts
        /\ BlockFor(limiter, now, d).blockedUntil >= Larger(coolUntil, now + d)
        /\ Larger(coolUntil, now + d) \in Time
    BY <1>1, BlockedProperties
  <1>4. /\ status' \in [Requests -> Statuses] /\ refundedAt' \in [Requests -> Time]
        /\ closedAt' \in [Requests -> Time] /\ stolen' \in Nat
    BY <1>1 DEF Keep, TypeOK, Statuses
  <1>5. UNCHANGED <<now, config, grantedAt, expiries>>
    BY DEF Keep
  <1>6. Len(limiter.ts) \in Nat
    BY <1>1, LenProperties DEF LimiterState
  <1> QED
    BY <1>2, <1>3, <1>4, <1>5, <1>6, EndInv

LEMMA TickInv == ASSUME IInv, Tick PROVE IInv'
  <1> USE DEF IInv, TypeOK, Time
  <1>1. now' \in Nat /\ now <= now'
    BY RateLimiterAssumption DEF Tick
  <1>2. TypeOK'
    BY <1>1 DEF Tick
  <1>3. DequeSorted'
    <2>1. \A i \in DOMAIN limiter.ts : limiter.ts[i] \in Nat
      BY LenProperties, ElementOfSeq DEF LimiterState
    <2> QED
      BY <2>1, <1>1 DEF Tick, DequeSorted
  <1>4. DequeBounded' /\ CoolDownRecorded'
    BY DEF Tick, DequeBounded, Unlimited, CoolDownRecorded
  <1> QED
    BY <1>2, <1>3, <1>4

\* IInv is inductive.
LEMMA NextInv == IInv /\ [Next]_vars => IInv'
  <1> SUFFICES ASSUME IInv, [Next]_vars PROVE IInv'
    OBVIOUS
  <1>1. CASE \E r \in Requests : Acquire(r)
    BY <1>1, AcquireInv
  <1>2. CASE Check
    BY <1>2, CheckInv
  <1>3. CASE \E r \in Requests : Succeed(r)
    BY <1>3, SucceedInv
  <1>4. CASE \E r \in Requests : Fail(r)
    BY <1>4, FailInv
  <1>5. CASE \E r \in Requests, d \in CoolDowns : FailAndBlock(r, d)
    BY <1>5, FailAndBlockInv
  <1>6. CASE \E r \in Requests, d \in CoolDowns : Keep(r, d)
    BY <1>6, KeepInv
  <1>7. CASE \E r \in Requests : CloseFails(r)
    BY <1>7, CloseFailsInv
  <1>8. CASE Tick
    BY <1>8, TickInv
  <1>9. CASE UNCHANGED vars
    BY <1>9 DEF vars, IInv, TypeOK, DequeSorted, DequeBounded, Unlimited,
                CoolDownRecorded
  <1> QED
    BY <1>1, <1>2, <1>3, <1>4, <1>5, <1>6, <1>7, <1>8, <1>9 DEF Next

\* IInv holds in every reachable state.
THEOREM Invariance == Spec => []IInv
  <1> QED
    BY InitInv, NextInv, PTL DEF Spec

---------------------------------------------------------------------------

\* Every variable of the limiter's world has its type.
THEOREM TypeCorrect == Spec => []TypeOK
  <1>1. IInv => TypeOK
    BY DEF IInv
  <1> QED
    BY <1>1, Invariance, PTL

\* The deque is sorted and never holds a time from the future, so cleaning
\* from the left and reading its front are right (limit.py _clean_old_timestamps).
THEOREM Sorted == Spec => []DequeSorted
  <1>1. IInv => DequeSorted
    BY DEF IInv
  <1> QED
    BY <1>1, Invariance, PTL

\* A limit of n bounds the deque by n, for every configuration.
THEOREM Bounded == Spec => []DequeBounded
  <1>1. IInv => DequeBounded
    BY DEF IInv
  <1> QED
    BY <1>1, Invariance, PTL

LEMMA HoldersFinite ==
    /\ IsFiniteSet(Holders) /\ Cardinality(Holders) \in Nat
    /\ IsFiniteSet(Holders') /\ Cardinality(Holders') \in Nat
  BY RateLimiterAssumption, FS_Subset, FS_CardinalityType DEF Holders

\* A grant adds one holder.
LEMMA HolderEnters ==
    ASSUME NEW r \in Requests, status \in [Requests -> Statuses], status[r] = "new",
           status' = [status EXCEPT ![r] = "held"]
    PROVE  Cardinality(Holders') = Cardinality(Holders) + 1
  <1>1. Holders' = Holders \cup {r} /\ r \notin Holders
    BY DEF Holders
  <1>2. Cardinality(Holders \cup {r}) =
           IF r \in Holders THEN Cardinality(Holders) ELSE Cardinality(Holders) + 1
    BY HoldersFinite, FS_AddElement, Zenon
  <1> QED  BY <1>1, <1>2, Zenon

\* The end of an attempt removes one.
LEMMA HolderLeaves ==
    ASSUME NEW r \in Requests, status \in [Requests -> Statuses], status[r] = "held",
           NEW s, s # "held", status' = [status EXCEPT ![r] = s]
    PROVE  Cardinality(Holders') = Cardinality(Holders) - 1
  <1>1. Holders' = Holders \ {r} /\ r \in Holders
    BY DEF Holders
  <1> QED  BY <1>1, HoldersFinite, FS_RemoveElement

\* A bound on the holders survives when the lock stays, or is counted as it goes.
LEMMA BoundFollows ==
    ASSUME NEW n \in Nat, NEW e \in Nat, NEW e2 \in Nat, NEW s \in Nat, NEW s2 \in Nat,
           NEW L \in BOOLEAN, NEW L2 \in BOOLEAN,
           n <= (IF L THEN 1 ELSE 0) + e + s,
           e2 + s2 >= e + s,
           ~L \/ L2 \/ e2 + s2 = e + s + 1
    PROVE  n <= (IF L2 THEN 1 ELSE 0) + e2 + s2
  OBVIOUS

\* The count of holders follows the lock: a grant needs a free key and takes
\* it, the end of an attempt takes one holder away with the lock.
LEMMA ExclusiveStep ==
    ASSUME IInv, ExclusiveHolder, [Next]_vars PROVE ExclusiveHolder'
  <1> DEFINE n == Cardinality(Holders)
             n2 == Cardinality(Holders')
  <1> SUFFICES ASSUME Exclusive
               PROVE  n2 <= (IF Locked(limiter', now') THEN 1 ELSE 0) + expiries' + stolen'
    <2>1. config' = config
      BY DEF Next, vars, Acquire, Check, Succeed, Fail, FailAndBlock, Keep, CloseFails, Tick
    <2> QED  BY <2>1 DEF ExclusiveHolder, Exclusive
  <1>1. TypeOK /\ TypeOK'
    BY NextInv DEF IInv
  <1>2. /\ status \in [Requests -> Statuses] /\ expiries \in Nat /\ stolen \in Nat
        /\ now \in Nat /\ limiter \in LimiterState /\ limiter.lockedUntil \in Nat
    BY <1>1 DEF TypeOK, Time, LimiterState
  <1>3. n <= (IF Locked(limiter, now) THEN 1 ELSE 0) + expiries + stolen
    BY DEF ExclusiveHolder
  <1>4. n \in Nat /\ n2 \in Nat
    BY HoldersFinite
  <1>5. ASSUME NEW r \in Requests, Acquire(r)
        PROVE  n2 <= (IF Locked(limiter', now') THEN 1 ELSE 0) + expiries' + stolen'
    <2>1. n2 = n + 1
      BY <1>2, <1>5, HolderEnters DEF Acquire
    <2>2. ~Locked(limiter, now)
      BY <1>5 DEF Acquire, KeyUnavailable
    <2>3. limiter'.lockedUntil = now + LockTTL
      <3>1. Looked(r) \in LimiterState
        BY <1>1, LookedProperties
      <3> QED  BY <1>1, <1>5, <3>1, UsedProperties DEF Acquire
    <2>4. Locked(limiter', now)
      BY <1>2, <2>3, RateLimiterAssumption DEF Locked
    <2>5. UNCHANGED <<now, expiries, stolen>>
      BY <1>5 DEF Acquire
    <2> HIDE DEF n, n2
    <2> QED  BY <1>2, <1>3, <1>4, <2>1, <2>2, <2>4, <2>5
  <1>6. ASSUME NEW r \in Requests, NEW s, status[r] = "held", s # "held",
               status' = [status EXCEPT ![r] = s],
               UNCHANGED <<now, expiries, stolen>>
        PROVE  n2 <= (IF Locked(limiter', now') THEN 1 ELSE 0) + expiries' + stolen'
    <2>1. n2 = n - 1
      BY <1>2, <1>6, HolderLeaves
    <2> HIDE DEF n, n2
    <2> QED  BY <1>2, <1>3, <1>4, <1>6, <2>1
  <1>7. ASSUME status' = status \/ (\E r \in Requests : /\ status[r] = "new"
                                                      /\ status' = [status EXCEPT ![r] = "elsewhere"]),
               expiries' + stolen' >= expiries + stolen,
               \/ ~Locked(limiter, now)
               \/ Locked(limiter', now')
               \/ expiries' + stolen' = expiries + stolen + 1
        PROVE  n2 <= (IF Locked(limiter', now') THEN 1 ELSE 0) + expiries' + stolen'
    <2>1. Holders' = Holders
      BY <1>2, <1>7 DEF Holders
    <2>2. n2 = n
      BY <2>1
    <2>3. expiries' \in Nat /\ stolen' \in Nat
      BY <1>1 DEF TypeOK
    <2>4. /\ Locked(limiter, now) \in BOOLEAN /\ Locked(limiter', now') \in BOOLEAN
          /\ expiries' + stolen' >= expiries + stolen
          /\ \/ ~Locked(limiter, now)
             \/ Locked(limiter', now')
             \/ expiries' + stolen' = expiries + stolen + 1
      BY <1>7 DEF Locked
    <2> HIDE DEF n, n2
    <2> QED  BY <1>2, <1>3, <1>4, <2>2, <2>3, <2>4, BoundFollows
  <1>8. CASE \E r \in Requests : Acquire(r)
    BY <1>5, <1>8
  <1>9. CASE Check
    <2>1. limiter'.lockedUntil = limiter.lockedUntil
      BY <1>1, <1>9, AfterIsLimitedProperties DEF Check, TypeOK, KeyConfig, Time
    <2> QED  BY <1>2, <1>7, <1>9, <2>1 DEF Check, Locked
  <1>10. CASE \E r \in Requests : Succeed(r)
    BY <1>6, <1>10 DEF Succeed
  <1>11. CASE \E r \in Requests : Fail(r)
    BY <1>6, <1>11 DEF Fail
  <1>12. CASE \E r \in Requests, d \in CoolDowns : FailAndBlock(r, d)
    BY <1>6, <1>12 DEF FailAndBlock
  <1>13. CASE \E r \in Requests, d \in CoolDowns : Keep(r, d)
    BY <1>6, <1>13 DEF Keep
  <1>14. CASE \E r \in Requests : CloseFails(r)
    BY <1>2, <1>7, <1>14 DEF CloseFails
  <1>15. CASE Tick
    BY <1>2, <1>7, <1>15 DEF Tick
  <1>16. CASE UNCHANGED vars
    BY <1>2, <1>7, <1>16 DEF vars
  <1> QED
    BY <1>8, <1>9, <1>10, <1>11, <1>12, <1>13, <1>14, <1>15, <1>16 DEF Next

\* Locks exclude: a further holder of an exclusive key is accounted for by a
\* lock that ran out or by one that a failing close released.
THEOREM OneHolder == Spec => []ExclusiveHolder
  <1>1. Init => ExclusiveHolder
    <2> SUFFICES ASSUME Init PROVE ExclusiveHolder
      OBVIOUS
    <2>1. Holders = {}
      BY DEF Init, Holders
    <2> QED  BY <2>1, FS_EmptySet DEF Init, ExclusiveHolder
  <1>2. IInv /\ ExclusiveHolder /\ [Next]_vars => ExclusiveHolder'
    BY ExclusiveStep
  <1> QED
    BY <1>1, <1>2, Invariance, PTL DEF Spec

\* No grant falls into a cool-down, whatever shorter cool-downs were asked for
\* after it (block_for's max).
THEOREM NoGrantInCoolDown == Spec => CoolDownKept
  <1>1. IInv /\ [Next]_vars =>
          [(\E r \in Requests : status[r] = "new" /\ status'[r] = "held")
             => now >= coolUntil]_vars
    <2> SUFFICES ASSUME IInv, Next,
                        NEW r \in Requests, status[r] = "new", status'[r] = "held"
                 PROVE  now >= coolUntil
      OBVIOUS
    <2>1. PICK s \in Requests : Acquire(s)
      BY DEF Next, Check, Succeed, Fail, FailAndBlock, Keep, CloseFails, Tick, IInv, TypeOK
    <2>2. now >= limiter.blockedUntil
      BY <2>1 DEF Acquire, KeyUnavailable, Blocked, IInv, TypeOK, LimiterState, Time
    <2> QED
      BY <2>2 DEF IInv, TypeOK, LimiterState, Time, CoolDownRecorded
  <1> QED
    BY <1>1, Invariance, PTL DEF Spec, CoolDownKept

---------------------------------------------------------------------------
(* How many requests a window admits.                                      *)

Since(at, s) == {r \in Charged : at[r] # 0 /\ at[r] >= s}

HistoryInv ==
    /\ now > 0
    /\ \A r \in Requests : /\ grantedAt[r] <= now
                           /\ status[r] = "new" => grantedAt[r] = 0
                           /\ status[r] \in {"new", "held"} => refundedAt[r] = 0

Refunds(s) == Cardinality(Since(refundedAt, s)) + Cardinality(Since(closedAt, s))

\* From any start within the window on, no more was granted than the deque
\* still counts and refunds explain.
GrantsExplained ==
    \A s \in Int :
        now - config.window <= s =>
            Cardinality(Since(grantedAt, s))
                <= Kept(limiter.ts, s) + Refunds(s)

\* The second inductive invariant; it rests on the first.
NInv == IInv /\ HistoryInv /\ GrantsExplained

LEMMA SinceFinite ==
    ASSUME NEW at, NEW s
    PROVE  IsFiniteSet(Since(at, s)) /\ Cardinality(Since(at, s)) \in Nat
  BY RateLimiterAssumption, FS_Subset, FS_CardinalityType DEF Since, Charged

LEMMA RefundsType == ASSUME NEW s PROVE Refunds(s) \in Nat
  <1>1. Cardinality(Since(refundedAt, s)) \in Nat /\ Cardinality(Since(closedAt, s)) \in Nat
    BY SinceFinite
  <1> QED  BY <1>1 DEF Refunds

\* One more request in a history: every window up to now gains one, a later
\* window gains none.
LEMMA SinceNow ==
    ASSUME NEW at \in [Requests -> Time], NEW r \in Charged, at[r] = 0,
           NEW t \in Time, t > 0, NEW s \in Int
    PROVE  Cardinality(Since([at EXCEPT ![r] = t], s)) =
             IF s <= t THEN Cardinality(Since(at, s)) + 1 ELSE Cardinality(Since(at, s))
  <1>1. r \notin Since(at, s)
    BY DEF Since
  <1>2. CASE s <= t
    <2>1. Since([at EXCEPT ![r] = t], s) = Since(at, s) \cup {r}
      BY <1>2 DEF Since, Charged, Time
    <2> QED  BY <1>1, <1>2, <2>1, SinceFinite, FS_AddElement
  <1>3. CASE ~(s <= t)
    <2>1. Since([at EXCEPT ![r] = t], s) = Since(at, s)
      BY <1>3 DEF Since, Charged, Time
    <2> QED  BY <1>3, <2>1
  <1> QED  BY <1>2, <1>3

\* A request that is not charged leaves no trace in the count.
LEMMA SinceExempt ==
    ASSUME NEW at, NEW at2, \A q \in Charged : at2[q] = at[q], NEW s
    PROVE  Since(at2, s) = Since(at, s)
  BY DEF Since

LEMMA InitNInv == Init => NInv
  <1> SUFFICES ASSUME Init PROVE HistoryInv /\ GrantsExplained
    BY InitInv DEF NInv
  <1>1. HistoryInv
    BY RateLimiterAssumption DEF Init, HistoryInv
  <1>2. GrantsExplained
    <2> SUFFICES ASSUME NEW s \in Int
                 PROVE  Cardinality(Since(grantedAt, s))
                           <= Kept(limiter.ts, s) + Refunds(s)
      BY DEF GrantsExplained
    <2>1. Since(grantedAt, s) = {} /\ Since(refundedAt, s) = {} /\ Since(closedAt, s) = {}
      BY DEF Init, Since, Charged
    <2>2. Kept(limiter.ts, s) \in Nat
      <3>1. limiter.ts \in Seq(Time)
        BY NewLimiterProperties DEF Init, LimiterState
      <3> QED  BY <3>1, KeptType
    <2> QED  BY <2>1, <2>2, FS_EmptySet DEF Refunds
  <1> QED  BY <1>1, <1>2

\* The check alone takes nothing out of any window that still matters.
LEMMA CheckedKept ==
    ASSUME TypeOK, NEW s \in Int, now - config.window <= s
    PROVE  /\ Kept(AfterIsLimited(limiter, config, now).ts, s) = Kept(limiter.ts, s)
           /\ \A r \in Requests : Kept(Looked(r).ts, s) = Kept(limiter.ts, s)
  <1>1. limiter.ts \in Seq(Time) /\ now - config.window \in Int
    BY DEF TypeOK, LimiterState, KeyConfig, Time
  <1>2. AfterIsLimited(limiter, config, now).ts
           \in {limiter.ts, Cleaned(limiter.ts, now - config.window)}
    <2>1. limiter \in LimiterState /\ config.window \in Int /\ now \in Int
      BY DEF TypeOK, KeyConfig, Time
    <2> QED  BY <2>1, AfterIsLimitedProperties
  <1> QED  BY <1>1, <1>2, CleanedKeeps DEF Looked

LEMMA AcquireExplained ==
    ASSUME NInv, NEW r \in Requests, Acquire(r)
    PROVE  HistoryInv' /\ GrantsExplained'
  <1> USE DEF NInv, IInv
  <1>1. /\ now \in Time /\ now > 0 /\ grantedAt \in [Requests -> Time] /\ grantedAt[r] = 0
        /\ grantedAt' = [grantedAt EXCEPT ![r] = now]
        /\ now' = now /\ config' = config 
        /\ refundedAt' = refundedAt /\ closedAt' = closedAt
    BY DEF Acquire, TypeOK, HistoryInv
  <1>2. HistoryInv'
    <2>1. now \in Nat /\ status \in [Requests -> Statuses]
      BY <1>1 DEF TypeOK, Time
    <2>2. status' = [status EXCEPT ![r] = "held"] /\ status[r] = "new"
      BY DEF Acquire
    <2> QED  BY <1>1, <2>1, <2>2 DEF HistoryInv
  <1>3. ASSUME NEW s \in Int, now - config.window <= s
        PROVE  Cardinality(Since(grantedAt', s))
                 <= Kept(limiter'.ts, s) + Refunds(s)
    <2> DEFINE m == Looked(r)
    <2>1. m \in LimiterState /\ m.ts \in Seq(Time)
      BY LookedProperties DEF LimiterState
    <2>2. /\ limiter'.ts = IF Enforced(r) THEN Append(m.ts, now) ELSE m.ts
          /\ limiter'.ts \in Seq(Time)
      BY <1>1, <2>1, UsedProperties DEF Acquire, LimiterState
    <2>3. /\ Kept(m.ts, s) = Kept(limiter.ts, s)
          /\ Cardinality(Since(grantedAt, s))
               <= Kept(limiter.ts, s) + Refunds(s)
      BY <1>3, CheckedKept DEF GrantsExplained
    <2> HIDE DEF m
    <2>4. /\ Cardinality(Since(grantedAt, s)) \in Nat
          /\ Refunds(s) \in Nat
          /\ Kept(limiter'.ts, s) \in Nat /\ Kept(m.ts, s) \in Nat
      BY <2>1, <2>2, SinceFinite, RefundsType, KeptType
    <2>5. CASE ~Enforced(r)
      <3>1. \A q \in Charged : grantedAt'[q] = grantedAt[q]
        BY <1>1, <2>5 DEF Enforced, Charged
      <3>2. Since(grantedAt', s) = Since(grantedAt, s)
        BY <3>1, SinceExempt
      <3>3. Kept(limiter'.ts, s) = Kept(m.ts, s)
        BY <2>2, <2>5
      <3>4. Cardinality(Since(grantedAt', s)) = Cardinality(Since(grantedAt, s))
        BY <3>2
      <3> QED  BY <2>3, <3>3, <3>4
    <2>6. CASE Enforced(r) /\ s <= now
      <3>1. r \in Charged
        BY <2>6 DEF Enforced, Charged
      <3>2. Kept(limiter'.ts, s) = Kept(m.ts, s) + 1
        BY <1>1, <2>1, <2>2, <2>6, AppendKept
      <3>3. Cardinality(Since(grantedAt', s)) = Cardinality(Since(grantedAt, s)) + 1
        BY <1>1, <2>6, <3>1, SinceNow
      <3> QED  BY <2>3, <2>4, <3>2, <3>3
    <2>7. CASE ~(s <= now)
      <3>1. Since(grantedAt', s) = {}
        BY <1>1, <1>2, <2>7 DEF Since, HistoryInv, Charged, Time
      <3> QED  BY <2>4, <3>1, FS_EmptySet
    <2> QED  BY <2>5, <2>6, <2>7
  <1>4. GrantsExplained'
    BY <1>1, <1>3 DEF GrantsExplained, Refunds, Since
  <1> QED  BY <1>2, <1>4

\* A window up to now gains one refund, a charged attempt's; a later one none.
LEMMA RefundsNow ==
    ASSUME TypeOK, now > 0, NEW r \in Requests, NEW s \in Int,
           \/ /\ refundedAt[r] = 0 /\ refundedAt' = [refundedAt EXCEPT ![r] = now]
              /\ closedAt' = closedAt
           \/ /\ closedAt[r] = 0 /\ closedAt' = [closedAt EXCEPT ![r] = now]
              /\ refundedAt' = refundedAt
    PROVE  /\ ~Enforced(r) => Refunds(s)' = Refunds(s)
           /\ Enforced(r) /\ s <= now => Refunds(s)' = Refunds(s) + 1
  <1> DEFINE a == Cardinality(Since(refundedAt, s))
             b == Cardinality(Since(closedAt, s))
             a2 == Cardinality(Since(refundedAt', s))
             b2 == Cardinality(Since(closedAt', s))
  <1>1. Refunds(s) = a + b /\ Refunds(s)' = a2 + b2
    BY DEF Refunds, Since
  <1>2. /\ refundedAt \in [Requests -> Time] /\ closedAt \in [Requests -> Time]
        /\ now \in Time
    BY DEF TypeOK
  <1>3. a \in Nat /\ b \in Nat
    BY SinceFinite
  <1>4. CASE ~Enforced(r)
    <2>1. \A q \in Charged : refundedAt'[q] = refundedAt[q] /\ closedAt'[q] = closedAt[q]
      BY <1>2, <1>4 DEF Enforced, Charged
    <2>2. Since(refundedAt', s) = Since(refundedAt, s) /\ Since(closedAt', s) = Since(closedAt, s)
      BY <2>1, SinceExempt
    <2> QED  BY <1>1, <1>4, <2>2
  <1>5. CASE Enforced(r) /\ s <= now
    <2>1. r \in Charged
      BY <1>5 DEF Enforced, Charged
    <2>2. \/ a2 = a + 1 /\ b2 = b
          \/ a2 = a /\ b2 = b + 1
      <3>1. ASSUME refundedAt[r] = 0, refundedAt' = [refundedAt EXCEPT ![r] = now],
                   closedAt' = closedAt
            PROVE  a2 = a + 1 /\ b2 = b
        BY <1>2, <1>5, <2>1, <3>1, SinceNow
      <3>2. ASSUME closedAt[r] = 0, closedAt' = [closedAt EXCEPT ![r] = now],
                   refundedAt' = refundedAt
            PROVE  a2 = a /\ b2 = b + 1
        BY <1>2, <1>5, <2>1, <3>2, SinceNow
      <3> HIDE DEF a, b, a2, b2
      <3> QED  BY <3>1, <3>2
    <2> HIDE DEF a, b, a2, b2
    <2> QED  BY <1>1, <1>3, <1>5, <2>2
  <1>6. CASE Enforced(r) /\ ~(s <= now)
    BY <1>6
  <1> QED  BY <1>4, <1>5, <1>6

\* A refund, the first or the second of its attempt.
LEMMA RefundExplained ==
    ASSUME NInv, NEW r \in Requests,
           \/ /\ refundedAt[r] = 0 /\ refundedAt' = [refundedAt EXCEPT ![r] = now]
              /\ closedAt' = closedAt
           \/ /\ closedAt[r] = 0 /\ closedAt' = [closedAt EXCEPT ![r] = now]
              /\ refundedAt' = refundedAt,
           limiter'.ts = IF Enforced(r) THEN Release(limiter).ts ELSE limiter.ts,
           UNCHANGED <<now, config, grantedAt>>
    PROVE  GrantsExplained'
  <1> USE DEF NInv, IInv
  <1>1. now \in Time /\ now > 0 /\ grantedAt \in [Requests -> Time]
    BY DEF TypeOK, HistoryInv
  <1>3. ASSUME NEW s \in Int, now - config.window <= s
        PROVE  Cardinality(Since(grantedAt, s)) <= Kept(limiter'.ts, s) + Refunds(s)'
    <2>1. Cardinality(Since(grantedAt, s)) <= Kept(limiter.ts, s) + Refunds(s)
      BY <1>3 DEF GrantsExplained
    <2>2. limiter.ts \in Seq(Time) /\ limiter'.ts \in Seq(Time)
      BY <1>1, ReleaseProperties DEF TypeOK, LimiterState, Time
    <2>3. /\ Cardinality(Since(grantedAt, s)) \in Nat
          /\ Refunds(s) \in Nat
          /\ Kept(limiter'.ts, s) \in Nat /\ Kept(limiter.ts, s) \in Nat
      BY <2>2, SinceFinite, RefundsType, KeptType
    <2>4. CASE ~Enforced(r)
      <3>1. Refunds(s)' = Refunds(s)
        BY <1>1, <2>4, RefundsNow
      <3>2. limiter'.ts = limiter.ts
        BY <2>4
      <3> QED  BY <2>1, <3>1, <3>2
    <2>5. CASE Enforced(r) /\ s <= now
      <3>1. Refunds(s)' = Refunds(s) + 1
        BY <1>1, <2>5, RefundsNow
      <3>2. Kept(limiter'.ts, s) >= Kept(limiter.ts, s) - 1
        BY <2>5, ReleaseKept DEF TypeOK
      <3> QED  BY <2>1, <2>3, <3>1, <3>2
    <2>6. CASE ~(s <= now)
      <3>1. Since(grantedAt, s) = {}
        BY <1>1, <2>6 DEF Since, HistoryInv, Charged, Time
      <3>2. Refunds(s)' \in Nat
        <4>1. /\ Cardinality(Since(refundedAt', s)) \in Nat
              /\ Cardinality(Since(closedAt', s)) \in Nat
          BY SinceFinite
        <4>2. Refunds(s)' = Cardinality(Since(refundedAt', s)) + Cardinality(Since(closedAt', s))
          BY DEF Refunds, Since
        <4> QED  BY <4>1, <4>2
      <3> QED  BY <2>3, <3>1, <3>2, FS_EmptySet
    <2> QED  BY <2>4, <2>5, <2>6
  <1> QED
    BY <1>3 DEF GrantsExplained, Refunds, Since

\* NInv is inductive.
LEMMA NextNInv == NInv /\ [Next]_vars => NInv'
  <1> SUFFICES ASSUME NInv, [Next]_vars PROVE HistoryInv' /\ GrantsExplained'
    BY NextInv DEF NInv
  <1> USE DEF NInv, IInv
  <1>1. CASE \E r \in Requests : Acquire(r)
    BY <1>1, AcquireExplained
  <1>2. CASE Check
    <2>1. HistoryInv'
      BY <1>2 DEF Check, HistoryInv
    <2>2. GrantsExplained'
      BY <1>2, CheckedKept DEF Check, GrantsExplained, Refunds, Since
    <2> QED  BY <2>1, <2>2
  <1>3. CASE \E r \in Requests : Succeed(r)
    <2>1. PICK r \in Requests : Succeed(r)
      BY <1>3
    <2>2. limiter'.ts = limiter.ts
      BY <2>1 DEF Succeed, Unlock, TypeOK, LimiterState
    <2>3. HistoryInv'
      BY <2>1 DEF Succeed, HistoryInv, TypeOK
    <2>4. GrantsExplained'
      BY <2>1, <2>2 DEF Succeed, GrantsExplained, Refunds, Since
    <2> QED  BY <2>3, <2>4
  <1>4. CASE \E r \in Requests : Fail(r)
    <2>1. PICK r \in Requests : Fail(r)
      BY <1>4
    <2>2. HistoryInv'
      BY <2>1 DEF Fail, HistoryInv, TypeOK
    <2> QED  BY <2>1, <2>2, RefundedProperties, RefundExplained DEF Fail, HistoryInv
  <1>5. CASE \E r \in Requests, d \in CoolDowns : FailAndBlock(r, d)
    <2>1. PICK r \in Requests, d \in CoolDowns : FailAndBlock(r, d)
      BY <1>5
    <2> DEFINE m == Refunded(limiter, r)
    <2>2. m \in LimiterState
      BY RefundedProperties
    <2>3. limiter' = [m EXCEPT !.blockedUntil = Larger(m.blockedUntil, now + d)]
      BY <2>1, <2>2 DEF FailAndBlock, BlockFor, LimiterState
    <2> HIDE DEF m
    <2>4. limiter'.ts = m.ts
      BY <2>2, <2>3 DEF LimiterState
    <2>5. limiter'.ts = IF Enforced(r) THEN Release(limiter).ts ELSE limiter.ts
      BY <2>4, RefundedProperties DEF m
    <2>6. HistoryInv'
      BY <2>1 DEF FailAndBlock, HistoryInv, TypeOK
    <2> QED  BY <2>1, <2>5, <2>6, RefundExplained DEF FailAndBlock, HistoryInv
  <1>6. CASE \E r \in Requests, d \in CoolDowns : Keep(r, d)
    <2>1. PICK r \in Requests, d \in CoolDowns : Keep(r, d)
      BY <1>6
    <2>2. limiter'.ts = limiter.ts
      BY <2>1 DEF Keep, BlockFor, TypeOK, LimiterState
    <2>3. HistoryInv'
      BY <2>1 DEF Keep, HistoryInv, TypeOK
    <2>4. GrantsExplained'
      BY <2>1, <2>2 DEF Keep, GrantsExplained, Refunds, Since
    <2> QED  BY <2>3, <2>4
  <1>7. CASE \E r \in Requests : CloseFails(r)
    <2>1. PICK r \in Requests : CloseFails(r)
      BY <1>7
    <2>2. HistoryInv'
      BY <2>1 DEF CloseFails, HistoryInv, TypeOK
    <2> QED  BY <2>1, <2>2, RefundedProperties, RefundExplained DEF CloseFails
  <1>8. CASE Tick
    <2>1. now \in Nat /\ Step \in Nat /\ now' = now + Step /\ config.window \in Nat /\ grantedAt \in [Requests -> Nat]
      BY <1>8, RateLimiterAssumption DEF Tick, TypeOK, KeyConfig, Time
    <2>2. HistoryInv'
      BY <1>8, <2>1 DEF Tick, HistoryInv
    <2>3. \A s \in Int : now' - config.window <= s => now - config.window <= s
      BY <2>1
    <2>4. GrantsExplained'
      BY <1>8, <2>3 DEF Tick, GrantsExplained, Refunds, Since
    <2> QED  BY <2>2, <2>4
  <1>9. CASE UNCHANGED vars
    BY <1>9 DEF vars, HistoryInv, GrantsExplained, Refunds, Since
  <1> QED  BY <1>1, <1>2, <1>3, <1>4, <1>5, <1>6, <1>7, <1>8, <1>9 DEF Next

\* Refunds take the youngest timestamp, whoever recorded it: within any window
\* a key admits its limit and one more for each refund, never more
\* (limit.py release; control.py try_acquire_key).
THEOREM NetBound == Spec => []NetWindow
  <1>1. ASSUME NInv PROVE NetWindow
    <2> SUFFICES ASSUME ~Unlimited(config)
                 PROVE  Cardinality(InWindow(grantedAt)) <=
                          config.limit + Cardinality(InWindow(refundedAt))
                                       + Cardinality(InWindow(closedAt))
      BY DEF NetWindow
    <2> DEFINE s == now - config.window
    <2>1. /\ now \in Nat /\ config.window \in Nat /\ config.limit \in Nat /\ s \in Int
          /\ limiter.ts \in Seq(Time) /\ grantedAt \in [Requests -> Nat]
          /\ refundedAt \in [Requests -> Nat] /\ closedAt \in [Requests -> Nat]
      BY <1>1 DEF NInv, IInv, TypeOK, KeyConfig, LimiterState, Time
    <2>2. \A t \in Nat : (now - t <= config.window) <=> t >= s
      BY <2>1
    <2>3. Cardinality(Since(grantedAt, s)) <= Kept(limiter.ts, s) + Refunds(s)
      <3>1. now - config.window <= s
        BY <2>1
      <3> HIDE DEF s
      <3> QED  BY <1>1, <2>1, <3>1 DEF NInv, GrantsExplained
    <2> HIDE DEF s
    <2>4. /\ InWindow(grantedAt) = Since(grantedAt, s)
          /\ InWindow(refundedAt) = Since(refundedAt, s)
          /\ InWindow(closedAt) = Since(closedAt, s)
      BY <2>1, <2>2 DEF InWindow, Since, Charged
    <2>5. Kept(limiter.ts, s) <= config.limit
      <3>1. Popped(limiter.ts, s) \in 0..Len(limiter.ts) /\ Len(limiter.ts) \in Nat
        BY <2>1, PoppedType, LenProperties
      <3>2. Len(limiter.ts) <= config.limit
        BY <1>1 DEF NInv, IInv, DequeBounded
      <3> QED  BY <2>1, <3>1, <3>2 DEF Kept
    <2>6. /\ Cardinality(Since(grantedAt, s)) \in Nat
          /\ Cardinality(Since(refundedAt, s)) \in Nat
          /\ Cardinality(Since(closedAt, s)) \in Nat
          /\ Kept(limiter.ts, s) \in Nat
      BY <2>1, SinceFinite, KeptType
    <2>7. Refunds(s) = Cardinality(InWindow(refundedAt)) + Cardinality(InWindow(closedAt))
      BY <2>4 DEF Refunds
    <2> QED  BY <2>1, <2>3, <2>4, <2>5, <2>6, <2>7
  <1> QED  BY <1>1, InitNInv, NextNInv, PTL DEF Spec

\* Whoever sleeps as long as time_to_key_ready says finds the key free when it
\* wakes, if nobody used it meanwhile: the wait covers the lock, the cool-down
\* and the window together (control.py time_to_key_ready, limit.py time_until_reset).
THEOREM Slept == Spec => []SleptEnough
  <1>1. ASSUME IInv PROVE SleptEnough
    <2>1. /\ limiter \in LimiterState /\ now \in Time
          /\ config.limit \in Nat /\ config.window \in Nat
          /\ InOrder(limiter.ts, now) /\ (~Unlimited(config) => Len(limiter.ts) <= config.limit)
      BY <1>1 DEF IInv, TypeOK, KeyConfig, DequeSorted, DequeBounded, InOrder
    <2>2. ASSUME NEW enforce \in BOOLEAN
          PROVE  ~KeyUnavailable(limiter, config, now + KeyWait(limiter, config, now, enforce) + 1,
                                 enforce)
      BY <2>1, KeyWaitSuffices, ExemptWaitSuffices
    <2> QED  BY <2>2 DEF SleptEnough
  <1> QED  BY <1>1, Invariance, PTL
============================================================================
