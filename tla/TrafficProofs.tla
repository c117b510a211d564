---------------------------- MODULE TrafficProofs ----------------------------
(***************************************************************************)
(* Safety of the check-and-grant, for every number of calls, attempts,     *)
(* keys and clients, every configuration and every strategy of the load    *)
(* balancer: types first, then how many requests a window admits, how long *)
(* a pass waits, and that each key's limiter implements RateLimiter.       *)
(***************************************************************************)
EXTENDS Traffic, LimiterProofs, WellFoundedInduction

\* An attempt that was granted a key has one, and so has its call.
HasKey ==
    \A r \in Requests :
        status[r] # "new" => key[r] \in Keys /\ apiKey[CallOf[r]] \in Keys

\* The key of a call was granted to an attempt of it.
CallKey ==
    \A c \in Calls :
        apiKey[c] \in Keys =>
            \E q \in Requests : /\ CallOf[q] = c
                                /\ key[q] = apiKey[c]
                                /\ status[q] # "new"

\* The inductive invariant.
IInv == TypeOK /\ HasKey /\ CallKey

---------------------------------------------------------------------------
(* The load balancer's choice.                                             *)

\* The least member of a set of numbers is one of them.
LEMMA LeastChosen ==
    ASSUME NEW S \in SUBSET Nat, S # {}
    PROVE  (CHOOSE d \in S : \A e \in S : d <= e) \in S
  <1> DEFINE Less == {ss \in Nat \X Nat : ss[1] < ss[2]}
  <1>1. IsWellFoundedOn(Less, Nat)
    BY NatLessThanWellFounded, Zenon DEF OpToRel
  <1>2. PICK d \in S : \A e \in S : <<e, d>> \notin Less
    <2> HIDE DEF Less
    <2> QED  BY <1>1, WFMin
  <1>3. \A e \in S : d <= e
    <2> TAKE e \in S
    <2>1. e \in Nat /\ d \in Nat /\ ~ (e < d)
      BY <1>2
    <2> QED  BY <2>1
  <1> QED  BY <1>3

\* A full turn of round robin comes past every place of the list.
LEMMA TurnReaches ==
    ASSUME index \in 1..N, NEW i \in 1..N
    PROVE  \E d \in 0..(N - 1) : Turned(d) = i
  <1>1. N \in Nat /\ N > 0
    BY TrafficAssumption, LenProperties DEF N
  <1>2. ASSUME NEW x \in 0..(N - 1) PROVE x % N = x /\ (x + N) % N = x
    BY <1>1, <1>2
  <1>3. CASE index <= i
    <2>1. i - index \in 0..(N - 1) /\ index - 1 + (i - index) = i - 1 /\ i - 1 \in 0..(N - 1)
      BY <1>1, <1>3
    <2> QED  BY <1>2, <2>1 DEF Turned
  <1>4. CASE i < index
    <2>1. /\ i - index + N \in 0..(N - 1)
          /\ index - 1 + (i - index + N) = (i - 1) + N /\ i - 1 \in 0..(N - 1)
      BY <1>1, <1>4
    <2> QED  BY <1>2, <2>1 DEF Turned
  <1> QED  BY <1>1, <1>3, <1>4

\* Every place of a turn is a place of the list.
LEMMA TurnedPlace ==
    ASSUME index \in 1..N, NEW d \in 0..(N - 1)
    PROVE  Turned(d) \in 1..N /\ KeyOrder[Turned(d)] \in Keys
  <1>1. N \in Nat /\ N > 0 /\ KeyOrder \in Seq(Keys)
    BY TrafficAssumption, LenProperties DEF N
  <1>2. Turned(d) \in 1..N
    BY <1>1 DEF Turned
  <1> QED  BY <1>1, <1>2, ElementOfSeq DEF N

\* Round robin comes back with a usable key, or without one when none is.
LEMMA RoundRobinUsable ==
    ASSUME index \in 1..N, NEW r, NEW k \in RoundRobin(r)
    PROVE  \/ k \in Keys /\ Usable(r, k)
           \/ k = NoKey /\ \A j \in Keys : ~Usable(r, j)
  <1> DEFINE usable == {d \in 0..(N - 1) : Usable(r, KeyOrder[Turned(d)])}
             first  == CHOOSE d \in usable : \A e \in usable : d <= e
  <1>1. N \in Nat
    BY TrafficAssumption, LenProperties DEF N
  <1>2. CASE usable = {}
    <2>1. k = NoKey
      BY <1>2 DEF RoundRobin
    <2>2. ASSUME NEW j \in Keys, Usable(r, j) PROVE FALSE
      <3>1. PICK i \in 1..N : KeyOrder[i] = j
        BY TrafficAssumption
      <3>2. PICK d \in 0..(N - 1) : Turned(d) = i
        BY TurnReaches
      <3> QED  BY <1>2, <2>2, <3>1, <3>2
    <2> QED  BY <2>1, <2>2
  <1>3. CASE usable # {}
    <2>1. first \in usable
      <3>1. usable \in SUBSET Nat
        BY <1>1
      <3> HIDE DEF usable
      <3> QED  BY <1>3, <3>1, LeastChosen
    <2>2. k = KeyOrder[Turned(first)]
      BY <1>3 DEF RoundRobin
    <2> HIDE DEF first
    <2>3. first \in 0..(N - 1) /\ Usable(r, KeyOrder[Turned(first)])
      BY <2>1
    <2> QED  BY <2>2, <2>3, TurnedPlace
  <1> QED  BY <1>2, <1>3

\* A key that comes out of a pass is usable, whatever the strategy.
LEMMA OutcomeUsable ==
    ASSUME index \in 1..N, NEW r, NEW k \in Outcomes(r) \ {NoKey}
    PROVE  Usable(r, k)
  <1>1. CASE k \in RoundRobin(r)
    BY <1>1, RoundRobinUsable
  <1>2. CASE k \in Draws(r)
    BY <1>2 DEF Draws
  <1> QED  BY <1>1, <1>2 DEF Outcomes

---------------------------------------------------------------------------
(* What the operations do to a limiter.                                    *)

LEMMA CheckedProperties ==
    ASSUME now \in Time, NEW l \in LimiterState, NEW c \in LimiterConfig, NEW r
    PROVE  /\ Checked(l, c, r) \in LimiterState
           /\ Checked(l, c, r).lockedUntil = l.lockedUntil
  <1>1. c.window \in Int /\ now \in Int
    BY DEF LimiterConfig, Time
  <1> QED  BY <1>1, AfterIsLimitedProperties DEF Checked

LEMMA RecordedProperties ==
    ASSUME now \in Time, NEW l \in LimiterState, NEW r
    PROVE  /\ Recorded(l, r) \in LimiterState
           /\ Recorded(l, r).lockedUntil = l.lockedUntil
  BY RecordProperties DEF Recorded

LEMMA RecordedAndLockedProperties ==
    ASSUME now \in Time, NEW l \in LimiterState, NEW r
    PROVE  /\ RecordedAndLocked(l, r) \in LimiterState
           /\ ~setup.concurrency =>
                RecordedAndLocked(l, r).lockedUntil = now + LockTTL
  <1> DEFINE m == Recorded(l, r)
  <1>1. m \in LimiterState
    BY RecordedProperties
  <1>2. now + LockTTL \in Time
    BY TrafficAssumption DEF Time
  <1>3. RecordedAndLocked(l, r) =
          IF setup.concurrency THEN m ELSE [m EXCEPT !.lockedUntil = now + LockTTL]
    BY DEF RecordedAndLocked, Lock
  <1> HIDE DEF m
  <1> QED  BY <1>1, <1>2, <1>3 DEF LimiterState

LEMMA UnlockProperties ==
    ASSUME NEW l \in LimiterState
    PROVE  Unlock(l) \in LimiterState
  BY DEF Unlock, LimiterState, Time

\* A limiter that was released, with or without a cool-down, is a limiter.
LEMMA ReleasedKeyProperties ==
    ASSUME TypeOK, NEW r \in Requests, NEW k \in Keys
    PROVE  ReleasedKey(k, r) \in LimiterState
  <1>1. keyLimiter[k] \in LimiterState /\ now \in Int
    BY DEF TypeOK, Time
  <1>2. Release(keyLimiter[k]) \in LimiterState
    BY <1>1, ReleaseProperties
  <1> QED  BY <1>1, <1>2, UnlockProperties DEF ReleasedKey

LEMMA BlockForType ==
    ASSUME now \in Time, NEW l \in LimiterState, NEW d \in Nat
    PROVE  BlockFor(l, now, d) \in LimiterState
  <1>1. l.blockedUntil \in Nat /\ now + d \in Nat
    BY DEF LimiterState, Time
  <1>2. Larger(l.blockedUntil, now + d) \in Nat
    BY <1>1 DEF Larger
  <1> QED  BY <1>2 DEF BlockFor, LimiterState, Time

---------------------------------------------------------------------------
(* The steps.                                                              *)

LEMMA InitInv == Init => IInv
  <1> SUFFICES ASSUME Init PROVE IInv
    OBVIOUS
  <1>1. N \in Nat \ {0}
    BY TrafficAssumption, LenProperties DEF N
  <1>2. /\ keyLimiter \in [Keys -> LimiterState] /\ endpoint \in LimiterState
        /\ client \in [Clients -> LimiterState]
    BY NewLimiterProperties DEF Init
  <1>3. now \in Time /\ 0 \in Time /\ index \in 1..N /\ setup \in Setup
    BY <1>1, TrafficAssumption DEF Init, Time
  <1>4. TypeOK
    BY <1>2, <1>3 DEF Init, TypeOK, Statuses
  <1>5. HasKey
    BY DEF Init, HasKey
  <1>6. CallKey
    <2>1. \A c \in Calls : apiKey[c] = NoKey
      BY DEF Init
    <2> QED  BY <2>1, TrafficAssumption DEF CallKey
  <1> QED  BY <1>4, <1>5, <1>6 DEF IInv

LEMMA AcquireInv ==
    ASSUME IInv, NEW r \in Requests, NEW k \in Keys, Acquire(r, k)
    PROVE  IInv'
  <1> USE DEF IInv
  <1>1. /\ now \in Time /\ setup \in Setup /\ index \in 1..N
        /\ setup.key \in LimiterConfig /\ setup.endpoint \in LimiterConfig
        /\ setup.client \in LimiterConfig
    BY DEF TypeOK, Setup
  <1>2. \A j \in Keys : keyLimiter'[j] \in LimiterState
    <2> SUFFICES ASSUME NEW j \in Keys PROVE keyLimiter'[j] \in LimiterState
      OBVIOUS
    <2> DEFINE l == Checked(keyLimiter[j], setup.key, r)
    <2>1. l \in LimiterState
      BY <1>1, CheckedProperties DEF TypeOK
    <2>2. keyLimiter'[j] = IF j = k THEN RecordedAndLocked(l, r) ELSE l
      BY DEF Acquire
    <2> HIDE DEF l
    <2> QED  BY <1>1, <2>1, <2>2, RecordedAndLockedProperties
  <1>4. TypeOK'
    <2>1. keyLimiter' \in [Keys -> LimiterState]
      BY <1>2 DEF Acquire
    <2>2. endpoint' \in LimiterState
      BY <1>1, CheckedProperties, RecordedProperties DEF Acquire, TypeOK
    <2>3. client' \in [Clients -> LimiterState]
      <3>1. ClientOf[r] \in Clients /\ client[ClientOf[r]] \in LimiterState
        BY TrafficAssumption DEF TypeOK
      <3>2. Recorded(Checked(client[ClientOf[r]], setup.client, r), r) \in LimiterState
        BY <1>1, <3>1, CheckedProperties, RecordedProperties
      <3> QED  BY <3>1, <3>2 DEF Acquire, TypeOK
    <2>4. index' \in 1..N
      <3> DEFINE i == CHOOSE i \in 1..N : KeyOrder[i] = k
      <3>1. i \in 1..N
        BY TrafficAssumption
      <3>2. N \in Nat \ {0}
        BY TrafficAssumption, LenProperties DEF N
      <3>3. index' = IF setup.strategy = "round_robin" THEN (i % N) + 1 ELSE index
        BY DEF Acquire
      <3> HIDE DEF i
      <3>4. (i % N) + 1 \in 1..N
        BY <3>1, <3>2
      <3> QED  BY <1>1, <3>3, <3>4
    <2>5. count' \in [Keys -> Nat] /\ status' \in [Requests -> Statuses]
      BY DEF Acquire, TypeOK, Statuses
    <2>6. key' \in [Requests -> Keys \cup {NoKey}] /\ grantedAt' \in [Requests -> Time]
      BY <1>1 DEF Acquire, TypeOK
    <2>7. apiKey' \in [Calls -> Keys \cup {NoKey}]
      <3>1. apiKey' = [apiKey EXCEPT ![CallOf[r]] = k]
        BY DEF Acquire
      <3> QED  BY <3>1 DEF TypeOK
    <2> QED  BY <2>1, <2>2, <2>3, <2>4, <2>5, <2>6, <2>7 DEF Acquire, TypeOK
  <1>5. HasKey'
    BY TrafficAssumption DEF Acquire, HasKey, TypeOK
  <1>6. CallKey'
    <2> SUFFICES ASSUME NEW c \in Calls, apiKey'[c] \in Keys
                 PROVE  \E q \in Requests : /\ CallOf[q] = c
                                            /\ key'[q] = apiKey'[c]
                                            /\ status'[q] # "new"
      BY DEF CallKey
    <2>1. CASE c = CallOf[r]
      <3>1. apiKey'[c] = k /\ key'[r] = k /\ status'[r] = "held"
        BY <2>1 DEF Acquire, TypeOK
      <3> QED  BY <2>1, <3>1
    <2>2. CASE c # CallOf[r]
      <3>1. apiKey'[c] = apiKey[c]
        BY <2>2 DEF Acquire, TypeOK
      <3>2. PICK q \in Requests : CallOf[q] = c /\ key[q] = apiKey[c] /\ status[q] # "new"
        BY <3>1 DEF CallKey
      <3>3. key'[q] = key[q] /\ status'[q] = status[q]
        BY <2>2, <3>2 DEF Acquire, TypeOK
      <3> QED  BY <3>1, <3>2, <3>3
    <2> QED  BY <2>1, <2>2
  <1> QED  BY <1>4, <1>5, <1>6

LEMMA RefuseInv == ASSUME IInv, NEW r \in Requests, Refuse(r) PROVE IInv'
  <1> USE DEF IInv
  <1>1. /\ now \in Time /\ setup.key \in LimiterConfig
        /\ setup.endpoint \in LimiterConfig /\ setup.client \in LimiterConfig
    BY DEF TypeOK, Setup
  <1>2. \A j \in Keys : keyLimiter'[j] \in LimiterState
    BY <1>1, CheckedProperties DEF Refuse, TypeOK
  <1>3. keyLimiter' \in [Keys -> LimiterState]
    BY <1>2 DEF Refuse, TypeOK
  <1>4. endpoint' \in LimiterState
    BY <1>1, CheckedProperties DEF Refuse, TypeOK
  <1>5. client' \in [Clients -> LimiterState]
    <2>1. Checked(client[ClientOf[r]], setup.client, r) \in LimiterState
      BY <1>1, TrafficAssumption, CheckedProperties DEF TypeOK
    <2> QED  BY <2>1 DEF Refuse, TypeOK
  <1>6. TypeOK'
    BY <1>3, <1>4, <1>5 DEF Refuse, TypeOK, history
  <1>7. HasKey' /\ CallKey'
    BY DEF Refuse, HasKey, CallKey
  <1> QED  BY <1>6, <1>7

\* The ends of an attempt differ in what they leave of the limiters.
LEMMA EndInv ==
    ASSUME IInv, NEW r \in Requests, status[r] # "new", NEW k \in Keys,
           NEW l \in LimiterState, NEW end \in Statuses \ {"new"},
           keyLimiter' = [keyLimiter EXCEPT ![k] = l],
           status' = [status EXCEPT ![r] = end],
           endpoint' \in LimiterState, client' \in [Clients -> LimiterState],
           speed' \in [Keys -> Nat], refundedAt' \in [Requests -> Time],
           closedAt' \in [Requests -> Time],
           closedKey' \in [Requests -> Keys \cup {NoKey}], stolen' \in [Keys -> Nat],
           UNCHANGED <<now, setup, index, count, key, apiKey, grantedAt, expiries>>
    PROVE  IInv'
  <1> USE DEF IInv
  <1>1. TypeOK'
    BY DEF TypeOK
  <1>2. \A q \in Requests : status'[q] # "new" <=> status[q] # "new"
    BY DEF TypeOK
  <1>3. HasKey'
    BY <1>2 DEF HasKey
  <1>4. CallKey'
    BY <1>2, Zenon DEF CallKey
  <1> QED  BY <1>1, <1>3, <1>4

LEMMA SucceedInv == ASSUME IInv, NEW r \in Requests, Succeed(r) PROVE IInv'
  <1>1. key[r] \in Keys /\ status[r] # "new"
    BY DEF IInv, HasKey, Succeed
  <1>2. Unlock(keyLimiter[key[r]]) \in LimiterState
    BY <1>1, UnlockProperties DEF IInv, TypeOK
  <1>3. keyLimiter' = [keyLimiter EXCEPT ![key[r]] = Unlock(keyLimiter[key[r]])]
    BY DEF Succeed
  <1>4. speed' \in [Keys -> Nat]
    BY TrafficAssumption DEF Succeed, IInv, TypeOK
  <1>5. "ok" \in Statuses \ {"new"}
    BY DEF Statuses
  <1> QED
    BY <1>1, <1>2, <1>3, <1>4, <1>5, EndInv DEF Succeed, IInv, TypeOK, history

\* A refund leaves limiters behind.
LEMMA RefundType ==
    ASSUME TypeOK, NEW r \in Requests, Refund(r)
    PROVE  endpoint' \in LimiterState /\ client' \in [Clients -> LimiterState]
  <1>1. now \in Int /\ ClientOf[r] \in Clients /\ client[ClientOf[r]] \in LimiterState
    BY TrafficAssumption DEF TypeOK, Time
  <1>2. Release(endpoint) \in LimiterState /\ Release(client[ClientOf[r]]) \in LimiterState
    BY <1>1, ReleaseProperties DEF TypeOK
  <1> QED  BY <1>1, <1>2 DEF Refund, TypeOK

LEMMA FailInv == ASSUME IInv, NEW r \in Requests, Fail(r) PROVE IInv'
  <1>1. key[r] \in Keys /\ status[r] # "new"
    BY DEF IInv, HasKey, Fail
  <1>2. ReleasedKey(key[r], r) \in LimiterState
    BY <1>1, ReleasedKeyProperties DEF IInv
  <1>3. endpoint' \in LimiterState /\ client' \in [Clients -> LimiterState]
    BY RefundType DEF IInv, Fail
  <1>4. /\ refundedAt' \in [Requests -> Time] /\ speed' \in [Keys -> Nat]
        /\ "failed" \in Statuses \ {"new"}
    BY DEF Fail, IInv, TypeOK, Statuses
  <1> QED  BY <1>1, <1>2, <1>3, <1>4, EndInv DEF Fail, IInv, TypeOK

LEMMA FailAndBlockInv ==
    ASSUME IInv, NEW r \in Requests, NEW d \in CoolDowns, FailAndBlock(r, d)
    PROVE  IInv'
  <1>1. key[r] \in Keys /\ status[r] # "new" /\ now \in Time /\ d \in Nat
    BY TrafficAssumption DEF IInv, HasKey, FailAndBlock, TypeOK
  <1>2. BlockFor(ReleasedKey(key[r], r), now, d) \in LimiterState
    BY <1>1, ReleasedKeyProperties, BlockForType DEF IInv
  <1>3. endpoint' \in LimiterState /\ client' \in [Clients -> LimiterState]
    BY RefundType DEF IInv, FailAndBlock
  <1>4. /\ refundedAt' \in [Requests -> Time] /\ speed' \in [Keys -> Nat]
        /\ "failed" \in Statuses \ {"new"}
    BY DEF FailAndBlock, IInv, TypeOK, Statuses
  <1> QED  BY <1>1, <1>2, <1>3, <1>4, EndInv DEF FailAndBlock, IInv, TypeOK

LEMMA KeepInv ==
    ASSUME IInv, NEW r \in Requests, NEW d \in CoolDowns, Keep(r, d)
    PROVE  IInv'
  <1>1. key[r] \in Keys /\ status[r] # "new" /\ now \in Time /\ d \in Nat
    BY TrafficAssumption DEF IInv, HasKey, Keep, TypeOK
  <1>2. BlockFor(keyLimiter[key[r]], now, d) \in LimiterState
    BY <1>1, BlockForType DEF IInv, TypeOK
  <1>3. keyLimiter' = [keyLimiter EXCEPT ![key[r]] = BlockFor(keyLimiter[key[r]], now, d)]
    BY DEF Keep
  <1>4. "kept" \in Statuses \ {"new"}
    BY DEF Statuses
  <1> QED  BY <1>1, <1>2, <1>3, <1>4, EndInv DEF Keep, IInv, TypeOK, history

LEMMA CloseFailsInv == ASSUME IInv, NEW r \in Requests, CloseFails(r) PROVE IInv'
  <1>1. status[r] # "new"
    BY DEF CloseFails
  <1> PICK end \in Statuses \ {"new"} : end = status[r]
    BY <1>1 DEF IInv, TypeOK
  <1> PICK k \in Keys : k = apiKey[CallOf[r]]
    BY <1>1 DEF IInv, HasKey
  <1> PICK l \in LimiterState : l = ReleasedKey(k, r)
    BY ReleasedKeyProperties DEF IInv
  <1>2. endpoint' \in LimiterState /\ client' \in [Clients -> LimiterState]
    BY RefundType DEF IInv, CloseFails
  <1>3. /\ keyLimiter' = [keyLimiter EXCEPT ![k] = l]
        /\ closedAt' = [closedAt EXCEPT ![r] = now]
        /\ closedKey' = [closedKey EXCEPT ![r] = k]
        /\ stolen' = [stolen EXCEPT ![k] = IF Locked(keyLimiter[k], now) THEN @ + 1 ELSE @]
        /\ UNCHANGED <<now, setup, index, count, speed, status, key, apiKey, grantedAt,
                       refundedAt, expiries>>
    BY DEF CloseFails
  <1>4. /\ closedAt' \in [Requests -> Time] /\ closedKey' \in [Requests -> Keys \cup {NoKey}]
        /\ refundedAt' \in [Requests -> Time] /\ speed' \in [Keys -> Nat]
    BY <1>3 DEF IInv, TypeOK
  <1>5. stolen' \in [Keys -> Nat]
    BY <1>3 DEF IInv, TypeOK
  <1>6. status' = [status EXCEPT ![r] = end]
    BY <1>3 DEF IInv, TypeOK
  <1> QED  BY <1>1, <1>2, <1>3, <1>4, <1>5, <1>6, EndInv

LEMMA TickInv == ASSUME IInv, Tick PROVE IInv'
  <1> USE DEF IInv
  <1>1. TypeOK'
    BY TrafficAssumption DEF Tick, TypeOK, Time
  <1>2. HasKey' /\ CallKey'
    BY DEF Tick, HasKey, CallKey
  <1> QED  BY <1>1, <1>2

\* IInv is inductive.
LEMMA NextInv == ASSUME IInv, [Next]_vars PROVE IInv'
  <1>1. CASE \E r \in Requests, k \in Keys : Acquire(r, k)
    BY <1>1, AcquireInv
  <1>2. CASE \E r \in Requests : Refuse(r)
    BY <1>2, RefuseInv
  <1>3. CASE \E r \in Requests : Succeed(r)
    BY <1>3, SucceedInv
  <1>4. CASE \E r \in Requests : Fail(r)
    BY <1>4, FailInv
  <1>5. CASE \E r \in Requests, d \in CoolDowns : FailAndBlock(r, d)
    BY <1>5, FailAndBlockInv
  <1>6. CASE \E r \in Requests, d \in CoolDowns : Keep(r, d)
    BY <1>6, KeepInv
  <1>7. CASE \E r \in Requests : CloseFails(r)
    BY <1>7, CloseFailsInv
  <1>8. CASE Tick
    BY <1>8, TickInv
  <1>9. CASE UNCHANGED vars
    BY <1>9 DEF vars, history, IInv, TypeOK, HasKey, CallKey
  <1> QED  BY <1>1, <1>2, <1>3, <1>4, <1>5, <1>6, <1>7, <1>8, <1>9 DEF Next

\* IInv holds in every reachable state.
THEOREM Invariance == Spec => []IInv
  <1> QED  BY InitInv, NextInv, PTL DEF Spec

---------------------------------------------------------------------------

\* Every variable of the traffic manager has its type.
THEOREM TypeCorrect == Spec => []TypeOK
  <1>1. IInv => TypeOK
    BY DEF IInv
  <1> QED  BY <1>1, Invariance, PTL

---------------------------------------------------------------------------
(* How many attempts a window admits, on the level of keys, endpoint and   *)
(* clients at once.  A refund takes the youngest timestamp, whoever left   *)
(* it, so nothing relates a timestamp to its attempt; the proofs count.    *)

\* The attempts of S with an event at or after s.
Since(S, at, s) == {r \in S : at[r] # 0 /\ at[r] >= s}

\* How many of the attempts S were refunded, and how many of the attempts U
\* refunded somebody once more, at or after each time.
CreditOf(S, refunded, U, closed) ==
    [s \in Int |-> Cardinality(Since(S, refunded, s)) + Cardinality(Since(U, closed, s))]

\* From any time not before "start" on, no more attempts of S were granted than
\* the deque ts still counts and the refunds explain.
Explained(S, ts, start, granted, credit) ==
    \A s \in Int :
        start <= s => Cardinality(Since(S, granted, s)) <= Kept(ts, s) + credit[s]

---------------------------------------------------------------------------
(* Counting.                                                               *)

LEMMA SinceFinite ==
    ASSUME NEW S \in SUBSET Requests, NEW at, NEW s
    PROVE  IsFiniteSet(Since(S, at, s)) /\ Cardinality(Since(S, at, s)) \in Nat
  <1>1. Since(S, at, s) \in SUBSET Requests
    BY DEF Since
  <1> QED  BY <1>1, TrafficAssumption, FS_Subset, FS_CardinalityType

LEMMA OneMore ==
    ASSUME NEW S, IsFiniteSet(S), NEW x, x \notin S
    PROVE  Cardinality(S \cup {x}) = Cardinality(S) + 1
  BY FS_AddElement

\* A new event counts in every window that has begun.
LEMMA SinceNow ==
    ASSUME NEW S \in SUBSET Requests, NEW r \in S, NEW at, NEW at2,
           at[r] = 0, \A q \in S \ {r} : at2[q] = at[q],
           NEW t \in Nat, t > 0, at2[r] = t, NEW s \in Int, s <= t
    PROVE  Cardinality(Since(S, at2, s)) = Cardinality(Since(S, at, s)) + 1
  <1>1. Since(S, at2, s) = Since(S, at, s) \cup {r} /\ r \notin Since(S, at, s)
    BY DEF Since
  <1>2. IsFiniteSet(Since(S, at, s))
    BY ONLY SinceFinite, S \in SUBSET Requests
  <1>3. Cardinality(Since(S, at, s) \cup {r}) = Cardinality(Since(S, at, s)) + 1
    BY ONLY <1>1, <1>2, OneMore
  <1> QED  BY ONLY <1>1, <1>3

\* A window that has not begun holds nothing.
LEMMA SinceLater ==
    ASSUME NEW S \in SUBSET Requests, NEW at, NEW t \in Nat,
           \A q \in S : at[q] \in Nat /\ at[q] <= t, NEW s \in Int, s > t
    PROVE  Cardinality(Since(S, at, s)) = 0
  <1>1. Since(S, at, s) = {}
    BY DEF Since
  <1> QED  BY <1>1, FS_EmptySet

\* An attempt without events may join the set, and events of others change
\* nothing.
LEMMA SinceUnborn ==
    ASSUME NEW S, NEW r, NEW at, at[r] = 0, NEW s
    PROVE  Since(S \cup {r}, at, s) = Since(S, at, s)
  BY DEF Since

LEMMA SinceSame ==
    ASSUME NEW S, NEW at, NEW at2, \A q \in S : at2[q] = at[q], NEW s
    PROVE  Since(S, at2, s) = Since(S, at, s)
  BY DEF Since

LEMMA CreditType ==
    ASSUME NEW S \in SUBSET Requests, NEW U \in SUBSET Requests, NEW f, NEW h
    PROVE  CreditOf(S, f, U, h) \in [Int -> Nat]
  BY SinceFinite DEF CreditOf

\* A refund is one credit more, and so is a second refund.
LEMMA CreditRefund ==
    ASSUME NEW S \in SUBSET Requests, NEW U \in SUBSET Requests, NEW r \in S,
           NEW f, NEW f2, NEW h, f[r] = 0, NEW t \in Nat, t > 0, f2[r] = t,
           \A q \in S \ {r} : f2[q] = f[q], NEW s \in Int, s <= t
    PROVE  CreditOf(S, f2, U, h)[s] = CreditOf(S, f, U, h)[s] + 1
  <1>1. Cardinality(Since(S, f2, s)) = Cardinality(Since(S, f, s)) + 1
    BY SinceNow
  <1>2. /\ Cardinality(Since(S, f, s)) \in Nat /\ Cardinality(Since(S, f2, s)) \in Nat
        /\ Cardinality(Since(U, h, s)) \in Nat
    BY SinceFinite
  <1> QED  BY <1>1, <1>2 DEF CreditOf

LEMMA CreditClose ==
    ASSUME NEW S \in SUBSET Requests, NEW U \in SUBSET Requests, NEW r \in Requests,
           NEW R, R = U \cup {r},
           NEW f, NEW h, NEW h2, h[r] = 0, NEW t \in Nat, t > 0, h2[r] = t,
           \A q \in U \ {r} : h2[q] = h[q], NEW s \in Int, s <= t
    PROVE  CreditOf(S, f, R, h2)[s] = CreditOf(S, f, U, h)[s] + 1
  <1>1. R \in SUBSET Requests
    OBVIOUS
  <1>2. Cardinality(Since(R, h2, s)) = Cardinality(Since(R, h, s)) + 1
    <2>1. r \in R /\ \A q \in R \ {r} : h2[q] = h[q]
      OBVIOUS
    <2> QED  BY <1>1, <2>1, SinceNow
  <1>3. Since(R, h, s) = Since(U, h, s)
    BY SinceUnborn
  <1>4. Cardinality(Since(S, f, s)) \in Nat /\ Cardinality(Since(U, h, s)) \in Nat
    BY SinceFinite
  <1> QED  BY <1>1, <1>2, <1>3, <1>4 DEF CreditOf

\* Events of others are no credit, nor is an attempt without a refund.
LEMMA CreditSame ==
    ASSUME NEW S, NEW U, NEW f, NEW f2, NEW h, NEW h2,
           \A q \in S : f2[q] = f[q], \A q \in U : h2[q] = h[q]
    PROVE  CreditOf(S, f2, U, h2) = CreditOf(S, f, U, h)
  BY SinceSame DEF CreditOf

LEMMA CreditUnborn ==
    ASSUME NEW S, NEW U, NEW f, NEW h, NEW r, f[r] = 0
    PROVE  CreditOf(S \cup {r}, f, U, h) = CreditOf(S, f, U, h)
  BY SinceUnborn DEF CreditOf

---------------------------------------------------------------------------
(* What happens to a deque and to its attempts.                            *)

LEMMA ExplainedGrant ==
    ASSUME NEW S \in SUBSET Requests, NEW r \in Requests, NEW g, NEW g2, g[r] = 0,
           NEW credit, \A s \in Int : credit[s] \in Nat,
           NEW t \in Nat, t > 0, g2[r] = t, \A q \in Requests \ {r} : g2[q] = g[q],
           \A q \in Requests : g[q] \in Nat /\ g[q] <= t,
           NEW start \in Int, NEW ts \in Seq(Time), Explained(S, ts, start, g, credit)
    PROVE  Explained(S \cup {r}, Append(ts, t), start, g2, credit)
  <1> SUFFICES ASSUME NEW s \in Int, start <= s
               PROVE  Cardinality(Since(S \cup {r}, g2, s))
                        <= Kept(Append(ts, t), s) + credit[s]
    BY DEF Explained
  <1>1. Cardinality(Since(S, g, s)) <= Kept(ts, s) + credit[s]
    BY DEF Explained
  <1>2. /\ Cardinality(Since(S, g, s)) \in Nat /\ credit[s] \in Nat
        /\ Kept(ts, s) \in Nat /\ Kept(Append(ts, t), s) \in Nat
    BY SinceFinite, KeptType, AppendProperties DEF Time
  <1>3. CASE s <= t
    <2>1. Since(S \cup {r}, g2, s) = Since(S, g, s) \cup {r} /\ r \notin Since(S, g, s)
      BY ONLY <1>3, g[r] = 0, g2[r] = t, t > 0, t \in Nat, S \in SUBSET Requests,
              \A q \in Requests \ {r} : g2[q] = g[q] DEF Since
    <2>2. IsFiniteSet(Since(S, g, s))
      BY ONLY SinceFinite, S \in SUBSET Requests
    <2>3. Cardinality(Since(S, g, s) \cup {r}) = Cardinality(Since(S, g, s)) + 1
      BY ONLY <2>1, <2>2, OneMore
    <2>4. Kept(Append(ts, t), s) = Kept(ts, s) + 1
      BY <1>3, AppendKept DEF Time
    <2>5. Cardinality(Since(S \cup {r}, g2, s)) = Cardinality(Since(S, g, s)) + 1
      BY ONLY <2>1, <2>3
    <2> QED  BY ONLY <1>1, <1>2, <2>4, <2>5
  <1>4. CASE s > t
    <2>1. Since(S \cup {r}, g2, s) = {}
      <3>1. \A q \in Requests : g2[q] \in Nat /\ g2[q] <= t
        <4>1. g2[r] \in Nat /\ g2[r] <= t
          BY ONLY g2[r] = t, t \in Nat
        <4>2. \A q \in Requests \ {r} : g2[q] \in Nat /\ g2[q] <= t
          BY ONLY \A q \in Requests \ {r} : g2[q] = g[q],
                  \A q \in Requests : g[q] \in Nat /\ g[q] <= t
        <4> QED  BY ONLY <4>1, <4>2
      <3> QED  BY ONLY <1>4, <3>1, S \in SUBSET Requests, r \in Requests, t \in Nat DEF Since
    <2>2. Cardinality(Since(S \cup {r}, g2, s)) = 0
      BY ONLY <2>1, FS_EmptySet, Zenon
    <2> QED  BY ONLY <1>2, <2>2
  <1> QED  BY <1>3, <1>4

LEMMA ExplainedCleaned ==
    ASSUME NEW S, NEW g, NEW credit, NEW start \in Int, NEW ts \in Seq(Time),
           Explained(S, ts, start, g, credit)
    PROVE  Explained(S, Cleaned(ts, start), start, g, credit)
  BY CleanedKeeps DEF Explained

\* A released timestamp is made up for by one credit more.
LEMMA ExplainedRefund ==
    ASSUME NEW S \in SUBSET Requests, NEW g, NEW t \in Nat,
           \A q \in Requests : g[q] \in Nat /\ g[q] <= t,
           NEW credit, NEW credit2,
           \A s \in Int : credit[s] \in Nat /\ credit2[s] \in Nat,
           \A s \in Int : s <= t => credit2[s] = credit[s] + 1,
           NEW start \in Int, NEW l \in LimiterState, Explained(S, l.ts, start, g, credit)
    PROVE  Explained(S, Release(l).ts, start, g, credit2)
  <1> SUFFICES ASSUME NEW s \in Int, start <= s
               PROVE  Cardinality(Since(S, g, s)) <= Kept(Release(l).ts, s) + credit2[s]
    BY DEF Explained
  <1>1. Cardinality(Since(S, g, s)) <= Kept(l.ts, s) + credit[s]
    BY DEF Explained
  <1>2. l.ts \in Seq(Time) /\ Release(l).ts \in Seq(Time)
    <2>1. t \in Int
      OBVIOUS
    <2> QED  BY <2>1, ReleaseProperties DEF LimiterState
  <1>3. /\ Cardinality(Since(S, g, s)) \in Nat /\ credit[s] \in Nat /\ credit2[s] \in Nat
        /\ Kept(l.ts, s) \in Nat /\ Kept(Release(l).ts, s) \in Nat
    BY <1>2, SinceFinite, KeptType
  <1>4. CASE s <= t
    <2>1. credit2[s] = credit[s] + 1
      BY <1>4
    <2>2. Kept(Release(l).ts, s) >= Kept(l.ts, s) - 1
      BY ReleaseKept
    <2> QED  BY <1>1, <1>3, <2>1, <2>2
  <1>5. CASE s > t
    <2>1. Cardinality(Since(S, g, s)) = 0
      <3>1. \A q \in S : g[q] \in Nat /\ g[q] <= t
        OBVIOUS
      <3> QED  BY <1>5, <3>1, SinceLater
    <2> QED  BY <1>3, <2>1
  <1> QED  BY <1>4, <1>5

LEMMA ExplainedOther ==
    ASSUME NEW S, NEW g, NEW g2, \A q \in S : g2[q] = g[q],
           NEW start, NEW ts, NEW credit, Explained(S, ts, start, g, credit)
    PROVE  Explained(S, ts, start, g2, credit)
  <1>1. \A s : Since(S, g2, s) = Since(S, g, s)
    BY SinceSame
  <1> QED  BY <1>1 DEF Explained

LEMMA ExplainedLater ==
    ASSUME NEW S, NEW g, NEW credit, NEW ts, NEW start \in Int, NEW later \in Int,
           start <= later, Explained(S, ts, start, g, credit)
    PROVE  Explained(S, ts, later, g, credit)
  BY DEF Explained

---------------------------------------------------------------------------
(* The invariant.                                                          *)

\* The attempts that count against a key, the endpoint and a client, and those
\* whose failing close refunded a key.
KeyUsers(k) == {r \in Requests \ Exempt : key[r] = k}

KeyClosers(k) == {r \in Requests \ Exempt : closedKey[r] = k}

EndpointUsers == Requests \ Exempt

ClientUsers(c) == {r \in Requests \ Exempt : ClientOf[r] = c}

KeyCredit(k) == CreditOf(KeyUsers(k), refundedAt, KeyClosers(k), closedAt)

EndpointCredit == CreditOf(EndpointUsers, refundedAt, EndpointUsers, closedAt)

ClientCredit(c) == CreditOf(ClientUsers(c), refundedAt, ClientUsers(c), closedAt)

\* A deque explains its users, from the start of the current window on.
Sound(S, ts, c, credit) == Explained(S, ts, now - c.window, grantedAt, credit)

Sums ==
    /\ \A k \in Keys : Sound(KeyUsers(k), keyLimiter[k].ts, setup.key, KeyCredit(k))
    /\ Sound(EndpointUsers, endpoint.ts, setup.endpoint, EndpointCredit)
    /\ \A c \in Clients : Sound(ClientUsers(c), client[c].ts, setup.client, ClientCredit(c))

\* The order of an attempt's events.
Times ==
    /\ now > 0
    /\ \A r \in Requests :
         /\ grantedAt[r] <= now
         /\ status[r] = "new" => grantedAt[r] = 0 /\ key[r] = NoKey
         /\ status[r] \in {"new", "held"} => refundedAt[r] = 0
         /\ closedAt[r] = 0 => closedKey[r] = NoKey

Bounded(ts, c) == ~Unlimited(c) => Len(ts) <= c.limit

KeysBounded == \A k \in Keys : Bounded(keyLimiter[k].ts, setup.key)

\* The inductive invariant, on top of IInv.
WInv == Times /\ Sums /\ KeysBounded

\* A level that is sound and whose deque is within its limit admits no more
\* than its limit and its refunds.
LEMMA SoundAdmitted ==
    ASSUME TypeOK, NEW S \in SUBSET Requests, NEW U \in SUBSET Requests,
           NEW c \in LimiterConfig, NEW ts \in Seq(Time),
           Sound(S \ Exempt, ts, c, CreditOf(S \ Exempt, refundedAt, U \ Exempt, closedAt)),
           Bounded(ts, c)
    PROVE  Admitted(S, U, c)
  <1> SUFFICES ASSUME ~Unlimited(c)
               PROVE  Cardinality(S \cap Within(grantedAt, c))
                        <= c.limit + Cardinality(S \cap Within(refundedAt, c))
                                   + Cardinality(U \cap Within(closedAt, c))
    BY DEF Admitted
  <1> DEFINE s == now - c.window + 1
  <1>1. s \in Int /\ now - c.window <= s /\ c.limit \in Nat /\ c.window \in Nat /\ now \in Nat
    BY DEF TypeOK, Time, LimiterConfig
  <1>2. /\ S \cap Within(grantedAt, c) = Since(S \ Exempt, grantedAt, s)
        /\ S \cap Within(refundedAt, c) = Since(S \ Exempt, refundedAt, s)
        /\ U \cap Within(closedAt, c) = Since(U \ Exempt, closedAt, s)
    <2>1. \A t \in Nat : now - t < c.window <=> t >= s
      BY <1>1
    <2>2. \A r \in Requests : /\ grantedAt[r] \in Nat /\ refundedAt[r] \in Nat
                              /\ closedAt[r] \in Nat
      BY DEF TypeOK, Time
    <2> HIDE DEF s
    <2> QED  BY <2>1, <2>2 DEF Within, Since
  <1> HIDE DEF s
  <1>3. Cardinality(Since(S \ Exempt, grantedAt, s))
          <= Kept(ts, s) + (Cardinality(Since(S \ Exempt, refundedAt, s))
                              + Cardinality(Since(U \ Exempt, closedAt, s)))
    BY <1>1 DEF Sound, Explained, CreditOf
  <1>4. Kept(ts, s) \in Nat /\ Kept(ts, s) <= Len(ts) /\ Len(ts) <= c.limit /\ Len(ts) \in Nat
    <2>1. Popped(ts, s) \in 0..Len(ts) /\ Len(ts) \in Nat
      BY <1>1, PoppedType, LenProperties
    <2>2. Len(ts) <= c.limit
      BY DEF Bounded
    <2> QED  BY <2>1, <2>2 DEF Kept
  <1>5. /\ Cardinality(Since(S \ Exempt, grantedAt, s)) \in Nat
        /\ Cardinality(Since(S \ Exempt, refundedAt, s)) \in Nat
        /\ Cardinality(Since(U \ Exempt, closedAt, s)) \in Nat
    <2>1. S \ Exempt \in SUBSET Requests /\ U \ Exempt \in SUBSET Requests
      OBVIOUS
    <2> QED  BY <2>1, SinceFinite
  <1>6. Cardinality(Since(S \ Exempt, grantedAt, s))
          <= c.limit + Cardinality(Since(S \ Exempt, refundedAt, s))
                     + Cardinality(Since(U \ Exempt, closedAt, s))
    BY <1>1, <1>3, <1>4, <1>5
  <1> QED  BY <1>2, <1>6

---------------------------------------------------------------------------
(* What a pass does to a level.                                            *)

\* A check cleans what no window counts any more.
LEMMA CheckedSound ==
    ASSUME TypeOK, NEW S, NEW l \in LimiterState, NEW c \in LimiterConfig, NEW r,
           NEW credit, Sound(S, l.ts, c, credit)
    PROVE  /\ Checked(l, c, r).ts \in Seq(Time)
           /\ Sound(S, Checked(l, c, r).ts, c, credit)
           /\ Bounded(l.ts, c) => Bounded(Checked(l, c, r).ts, c)
  <1>1. c.window \in Int /\ c.limit \in Nat /\ now \in Int /\ now - c.window \in Int /\ l.ts \in Seq(Time)
    BY DEF TypeOK, LimiterConfig, LimiterState, Time
  <1> DEFINE m == AfterIsLimited(l, c, now)
  <1>2. /\ m \in LimiterState /\ m.ts \in {l.ts, Cleaned(l.ts, now - c.window)}
        /\ Len(m.ts) <= Len(l.ts)
    BY <1>1, AfterIsLimitedProperties
  <1>3. Sound(S, Cleaned(l.ts, now - c.window), c, credit)
    BY <1>1, ExplainedCleaned DEF Sound
  <1>4. Checked(l, c, r) \in {l, m}
    BY DEF Checked
  <1> HIDE DEF m
  <1>5. Checked(l, c, r).ts \in {l.ts, Cleaned(l.ts, now - c.window)}
    BY <1>2, <1>4
  <1>6. Checked(l, c, r) \in LimiterState /\ Len(Checked(l, c, r).ts) <= Len(l.ts)
    BY <1>1, <1>2, <1>4, LenProperties
  <1>7. Checked(l, c, r).ts \in Seq(Time)
    BY <1>6 DEF LimiterState
  <1>8. Bounded(l.ts, c) => Bounded(Checked(l, c, r).ts, c)
    BY <1>1, <1>6, <1>7, LenProperties DEF Bounded
  <1> QED  BY <1>3, <1>5, <1>7, <1>8

\* A key that is usable has room for one more timestamp.
LEMMA UsableRoom ==
    ASSUME TypeOK, NEW r, Enforced(r), NEW k \in Keys, Usable(r, k), ~Unlimited(setup.key)
    PROVE  Len(Checked(keyLimiter[k], setup.key, r).ts) < setup.key.limit
  <1> DEFINE l == keyLimiter[k]
             c == setup.key
  <1>1. l \in LimiterState /\ c \in LimiterConfig
    BY DEF TypeOK, Setup
  <1>2. ~IsLimited(l, c, now)
    BY DEF Usable, KeyUnavailable
  <1>3. AfterIsLimited(l, c, now).ts = Cleaned(l.ts, now - c.window)
    <2>1. ~Locked(l, now) /\ ~Blocked(l, now)
      BY <1>2 DEF IsLimited
    <2> HIDE DEF l, c
    <2>2. AfterIsLimited(l, c, now) = [l EXCEPT !.ts = Cleaned(@, now - c.window)]
      BY <2>1 DEF AfterIsLimited, c
    <2> QED  BY <1>1, <2>2 DEF LimiterState
  <1>4. now \in Int /\ c.window \in Int /\ c.limit \in Int /\ l.ts \in Seq(Time)
    BY <1>1 DEF TypeOK, LimiterConfig, LimiterState, Time
  <1>5. Len(Cleaned(l.ts, now - c.window)) \in Nat
    BY <1>4, CleanedProperties, LenProperties
  <1>6. ~ (Len(Cleaned(l.ts, now - c.window)) >= c.limit)
    BY <1>2 DEF IsLimited
  <1>7. Checked(l, c, r) = AfterIsLimited(l, c, now)
    BY DEF Checked
  <1> HIDE DEF l, c
  <1>8. Len(Checked(l, c, r).ts) < c.limit
    BY <1>3, <1>4, <1>5, <1>6, <1>7
  <1> QED  BY <1>8 DEF l, c

\* A grant counts on a level of its attempt ...
LEMMA GrantSound ==
    ASSUME TypeOK, Times, NEW r \in Requests, NEW k \in Keys, Acquire(r, k),
           NEW S \in SUBSET Requests, NEW c \in LimiterConfig, NEW ts \in Seq(Time),
           NEW credit, \A s \in Int : credit[s] \in Nat, Sound(S, ts, c, credit)
    PROVE  Explained(S \cup {r}, Append(ts, now), now - c.window, grantedAt', credit)
  <1>1. /\ grantedAt[r] = 0 /\ now \in Nat /\ now > 0 /\ now - c.window \in Int
    BY DEF Acquire, Waiting, Times, TypeOK, Time, LimiterConfig
  <1>2. \A q \in Requests : grantedAt[q] \in Nat /\ grantedAt[q] <= now
    BY DEF Times, TypeOK, Time
  <1>3. grantedAt'[r] = now /\ \A q \in Requests \ {r} : grantedAt'[q] = grantedAt[q]
    BY DEF Acquire, TypeOK
  <1> QED  BY <1>1, <1>2, <1>3, ExplainedGrant DEF Sound

\* ... and on no other.
LEMMA GrantAside ==
    ASSUME TypeOK, NEW r \in Requests, NEW k \in Keys, Acquire(r, k),
           NEW S \in SUBSET Requests, r \notin S, NEW c, NEW ts, NEW credit,
           Sound(S, ts, c, credit)
    PROVE  Explained(S, ts, now - c.window, grantedAt', credit)
  <1>1. \A q \in S : grantedAt'[q] = grantedAt[q]
    BY DEF Acquire, TypeOK
  <1> QED  BY <1>1, ExplainedOther DEF Sound

\* The two together, for the endpoint and for clients: what Recorded leaves.
LEMMA RecordedSound ==
    ASSUME TypeOK, Times, NEW r \in Requests, NEW k \in Keys, Acquire(r, k),
           NEW S \in SUBSET Requests, Enforced(r) <=> r \in S,
           NEW l \in LimiterState, NEW c \in LimiterConfig,
           NEW credit, \A s \in Int : credit[s] \in Nat, Sound(S, l.ts, c, credit)
    PROVE  Explained(S, Recorded(Checked(l, c, r), r).ts, now - c.window, grantedAt', credit)
  <1> DEFINE m == Checked(l, c, r)
  <1>1. m \in LimiterState /\ m.ts \in Seq(Time) /\ Sound(S, m.ts, c, credit)
    BY CheckedSound, CheckedProperties DEF TypeOK
  <1> HIDE DEF m
  <1>2. CASE Enforced(r)
    <2>1. Recorded(m, r).ts = Append(m.ts, now)
      BY <1>1, <1>2 DEF Recorded, Record, LimiterState
    <2>2. S \cup {r} = S
      BY <1>2
    <2>3. Explained(S \cup {r}, Append(m.ts, now), now - c.window, grantedAt', credit)
      BY <1>1, <1>2, GrantSound
    <2> QED  BY <2>1, <2>2, <2>3 DEF m
  <1>3. CASE ~Enforced(r)
    <2>1. Recorded(m, r) = m /\ r \notin S
      BY <1>3 DEF Recorded
    <2>2. Explained(S, m.ts, now - c.window, grantedAt', credit)
      BY <1>1, <2>1, GrantAside
    <2> QED  BY <2>1, <2>2 DEF m
  <1> QED  BY <1>2, <1>3

---------------------------------------------------------------------------
(* The steps.                                                              *)

LEMMA UsersAreRequests ==
    /\ \A k : KeyUsers(k) \in SUBSET Requests /\ KeyClosers(k) \in SUBSET Requests
    /\ EndpointUsers \in SUBSET Requests
    /\ \A c : ClientUsers(c) \in SUBSET Requests
  BY DEF KeyUsers, KeyClosers, EndpointUsers, ClientUsers

LEMMA CreditsCount ==
    ASSUME NEW s \in Int
    PROVE  /\ \A k : KeyCredit(k)[s] \in Nat
           /\ EndpointCredit[s] \in Nat
           /\ \A c : ClientCredit(c)[s] \in Nat
  <1>1. \A S, U \in SUBSET Requests : \A f, h : CreditOf(S, f, U, h)[s] \in Nat
    BY CreditType
  <1> QED  BY <1>1, UsersAreRequests DEF KeyCredit, EndpointCredit, ClientCredit

LEMMA CreditsCountLater ==
    ASSUME NEW s \in Int
    PROVE  /\ \A k : KeyCredit(k)'[s] \in Nat
           /\ EndpointCredit'[s] \in Nat
           /\ \A c : ClientCredit(c)'[s] \in Nat
  <1>1. \A S, U \in SUBSET Requests : \A f, h : CreditOf(S, f, U, h)[s] \in Nat
    BY CreditType
  <1>2. /\ \A k : KeyUsers(k)' \in SUBSET Requests /\ KeyClosers(k)' \in SUBSET Requests
        /\ EndpointUsers' \in SUBSET Requests
        /\ \A c : ClientUsers(c)' \in SUBSET Requests
    BY DEF KeyUsers, KeyClosers, EndpointUsers, ClientUsers
  <1> QED  BY <1>1, <1>2 DEF KeyCredit, EndpointCredit, ClientCredit

LEMMA WInit == Init => WInv
  <1> SUFFICES ASSUME Init PROVE WInv
    OBVIOUS
  <1>1. Times
    BY TrafficAssumption DEF Init, Times
  <1>2. \A S \in SUBSET Requests : \A c, credit :
          (\A s \in Int : credit[s] \in Nat) => Sound(S, <<>>, c, credit)
    <2> SUFFICES ASSUME NEW S \in SUBSET Requests, NEW c, NEW credit, NEW s \in Int,
                        credit[s] \in Nat
                 PROVE  Cardinality(Since(S, grantedAt, s)) <= Kept(<<>>, s) + credit[s]
      BY DEF Sound, Explained
    <2>1. Since(S, grantedAt, s) = {}
      BY DEF Init, Since
    <2>2. Kept(<<>>, s) \in Nat
      BY EmptySeq, KeptType
    <2> QED  BY <2>1, <2>2, FS_EmptySet
  <1>3. Sums
    BY <1>2, UsersAreRequests, CreditsCount DEF Init, Sums, NewLimiter
  <1>4. KeysBounded
    <2>1. setup.key.limit \in Nat
      BY TrafficAssumption DEF Init, Setup, LimiterConfig
    <2>2. \A k \in Keys : Len(keyLimiter[k].ts) = 0
      BY EmptySeq DEF Init, NewLimiter
    <2> QED  BY <2>1, <2>2 DEF KeysBounded, Bounded
  <1> QED  BY <1>1, <1>3, <1>4 DEF WInv

LEMMA AcquireW ==
    ASSUME IInv, WInv, NEW r \in Requests, NEW k \in Keys, Acquire(r, k)
    PROVE  WInv'
  <1> USE DEF IInv, WInv
  <1>1. /\ TypeOK /\ index \in 1..N /\ setup' = setup /\ now' = now
        /\ setup.key \in LimiterConfig /\ setup.endpoint \in LimiterConfig
        /\ setup.client \in LimiterConfig
    BY DEF TypeOK, Setup, Acquire
  <1>2. Times'
    BY DEF Acquire, Waiting, Times, TypeOK, Time
  <1>3. \A j \in Keys : /\ Sound(KeyUsers(j), keyLimiter[j].ts, setup.key, KeyCredit(j))'
                        /\ Bounded(keyLimiter[j].ts, setup.key)'
    <2> SUFFICES ASSUME NEW j \in Keys
                 PROVE  /\ Sound(KeyUsers(j), keyLimiter[j].ts, setup.key, KeyCredit(j))'
                        /\ Bounded(keyLimiter[j].ts, setup.key)'
      OBVIOUS
    <2> DEFINE m == Checked(keyLimiter[j], setup.key, r)
    <2>1. /\ m \in LimiterState /\ m.ts \in Seq(Time)
          /\ Sound(KeyUsers(j), m.ts, setup.key, KeyCredit(j))
          /\ Bounded(m.ts, setup.key)
      <3>1. keyLimiter[j] \in LimiterState
        BY DEF TypeOK
      <3> QED  BY <1>1, <3>1, CheckedSound, CheckedProperties DEF TypeOK, Sums, KeysBounded
    <2>2. keyLimiter'[j] = IF j = k THEN RecordedAndLocked(m, r) ELSE m
      BY DEF Acquire
    <2>3. key[r] # j /\ refundedAt[r] = 0
      BY TrafficAssumption DEF Acquire, Waiting, Times
    <2>4. KeyUsers(j)' = IF j = k /\ Enforced(r) THEN KeyUsers(j) \cup {r} ELSE KeyUsers(j)
      BY <2>3 DEF KeyUsers, Enforced, Acquire, TypeOK
    <2>5. KeyCredit(j)' = KeyCredit(j) /\ \A s \in Int : KeyCredit(j)[s] \in Nat
      <3>1. UNCHANGED <<refundedAt, closedAt>> /\ KeyClosers(j)' = KeyClosers(j)
        BY DEF Acquire, KeyClosers
      <3>2. CreditOf(KeyUsers(j) \cup {r}, refundedAt, KeyClosers(j), closedAt) = KeyCredit(j)
        BY <2>3, CreditUnborn DEF KeyCredit
      <3>3. KeyCredit(j)' = CreditOf(KeyUsers(j)', refundedAt, KeyClosers(j), closedAt)
        BY <3>1 DEF KeyCredit
      <3>4. KeyUsers(j)' \in {KeyUsers(j), KeyUsers(j) \cup {r}}
        BY <2>4
      <3> QED  BY <3>2, <3>3, <3>4, CreditsCount DEF KeyCredit
    <2>6. CASE j = k /\ Enforced(r)
      <3>1. keyLimiter'[j].ts = Append(m.ts, now)
        <4> HIDE DEF m
        <4> QED  BY <2>1, <2>2, <2>6
                 DEF RecordedAndLocked, Recorded, Record, Lock, LimiterState
      <3>2. Explained(KeyUsers(j) \cup {r}, Append(m.ts, now), now - setup.key.window,
                      grantedAt', KeyCredit(j))
        BY <1>1, <2>1, <2>5, GrantSound, UsersAreRequests
      <3>3. Bounded(Append(m.ts, now), setup.key)
        <4>1. ~Unlimited(setup.key) => Len(m.ts) < setup.key.limit
          BY <1>1, <2>6, OutcomeUsable, UsableRoom DEF Acquire
        <4>2. Len(Append(m.ts, now)) = Len(m.ts) + 1 /\ Len(m.ts) \in Nat
          BY <1>1, <2>1, AppendProperties, LenProperties DEF TypeOK
        <4>3. setup.key.limit \in Nat
          BY <1>1 DEF LimiterConfig
        <4> HIDE DEF m
        <4> QED  BY <4>1, <4>2, <4>3 DEF Bounded
      <3> QED  BY <1>1, <2>4, <2>5, <2>6, <3>1, <3>2, <3>3 DEF Sound, Bounded
    <2>7. CASE ~ (j = k /\ Enforced(r))
      <3>1. keyLimiter'[j].ts = m.ts
        <4> HIDE DEF m
        <4> QED  BY <2>1, <2>2, <2>7
                 DEF RecordedAndLocked, Recorded, Record, Lock, LimiterState
      <3>2. r \notin KeyUsers(j)
        BY <2>3 DEF KeyUsers
      <3>3. Explained(KeyUsers(j), m.ts, now - setup.key.window, grantedAt', KeyCredit(j))
        BY <1>1, <2>1, <3>2, GrantAside, UsersAreRequests
      <3> QED  BY <1>1, <2>1, <2>4, <2>5, <2>7, <3>1, <3>3 DEF Sound, Bounded
    <2> QED  BY <2>6, <2>7
  <1>4. Sound(EndpointUsers, endpoint.ts, setup.endpoint, EndpointCredit)'
    <2>1. Enforced(r) <=> r \in EndpointUsers
      BY DEF Enforced, EndpointUsers
    <2>2. endpoint \in LimiterState /\ endpoint' = Recorded(Checked(endpoint, setup.endpoint, r), r)
      BY DEF TypeOK, Acquire
    <2>3. Explained(EndpointUsers, endpoint'.ts, now - setup.endpoint.window, grantedAt',
                    EndpointCredit)
      BY <1>1, <2>1, <2>2, RecordedSound, UsersAreRequests, CreditsCount DEF Sums
    <2>4. EndpointCredit' = EndpointCredit /\ EndpointUsers' = EndpointUsers
      BY DEF Acquire, EndpointCredit, EndpointUsers
    <2> QED  BY <1>1, <2>3, <2>4 DEF Sound
  <1>5. \A c \in Clients : Sound(ClientUsers(c), client[c].ts, setup.client, ClientCredit(c))'
    <2> SUFFICES ASSUME NEW c \in Clients
                 PROVE  Sound(ClientUsers(c), client[c].ts, setup.client, ClientCredit(c))'
      OBVIOUS
    <2>1. ClientCredit(c)' = ClientCredit(c) /\ ClientUsers(c)' = ClientUsers(c)
      BY DEF Acquire, ClientCredit, ClientUsers
    <2>2. CASE c = ClientOf[r]
      <3>1. Enforced(r) <=> r \in ClientUsers(c)
        BY <2>2 DEF Enforced, ClientUsers
      <3>2. client[c] \in LimiterState /\ client'[c] = Recorded(Checked(client[c], setup.client, r), r)
        BY <2>2 DEF TypeOK, Acquire
      <3>3. Explained(ClientUsers(c), client'[c].ts, now - setup.client.window, grantedAt',
                      ClientCredit(c))
        BY <1>1, <3>1, <3>2, RecordedSound, UsersAreRequests, CreditsCount DEF Sums
      <3> QED  BY <1>1, <2>1, <3>3 DEF Sound
    <2>3. CASE c # ClientOf[r]
      <3>1. client'[c] = client[c] /\ r \notin ClientUsers(c)
        BY <2>3 DEF TypeOK, Acquire, ClientUsers
      <3>2. Explained(ClientUsers(c), client[c].ts, now - setup.client.window, grantedAt',
                      ClientCredit(c))
        BY <1>1, <3>1, GrantAside, UsersAreRequests DEF Sums
      <3> QED  BY <1>1, <2>1, <3>1, <3>2 DEF Sound
    <2> QED  BY <2>2, <2>3
  <1> QED  BY <1>2, <1>3, <1>4, <1>5 DEF Sums, KeysBounded

LEMMA RefuseW == ASSUME IInv, WInv, NEW r \in Requests, Refuse(r) PROVE WInv'
  <1> USE DEF IInv, WInv
  <1>1. /\ TypeOK /\ setup' = setup /\ now' = now
        /\ UNCHANGED <<key, grantedAt, refundedAt, closedAt, closedKey>>
        /\ setup.key \in LimiterConfig /\ setup.endpoint \in LimiterConfig
        /\ setup.client \in LimiterConfig
    BY DEF TypeOK, Setup, Refuse, history
  <1>2. Times'
    BY DEF Refuse, Times, history
  <1>3. \A k \in Keys : /\ Sound(KeyUsers(k), keyLimiter[k].ts, setup.key, KeyCredit(k))'
                        /\ Bounded(keyLimiter[k].ts, setup.key)'
    <2> SUFFICES ASSUME NEW k \in Keys
                 PROVE  /\ Sound(KeyUsers(k), keyLimiter[k].ts, setup.key, KeyCredit(k))'
                        /\ Bounded(keyLimiter[k].ts, setup.key)'
      OBVIOUS
    <2>1. keyLimiter'[k] \in {keyLimiter[k], Checked(keyLimiter[k], setup.key, r)}
      BY DEF Refuse
    <2>2. keyLimiter[k] \in LimiterState
      BY DEF TypeOK
    <2>3. /\ Sound(KeyUsers(k), keyLimiter'[k].ts, setup.key, KeyCredit(k))
          /\ Bounded(keyLimiter'[k].ts, setup.key)
      BY <1>1, <2>1, <2>2, CheckedSound DEF Sums, KeysBounded
    <2> QED  BY <1>1, <2>3 DEF Sound, Bounded, KeyUsers, KeyClosers, KeyCredit
  <1>4. Sound(EndpointUsers, endpoint.ts, setup.endpoint, EndpointCredit)'
    <2>1. endpoint' \in {endpoint, Checked(endpoint, setup.endpoint, r)} /\ endpoint \in LimiterState
      BY DEF Refuse, TypeOK
    <2>2. Sound(EndpointUsers, endpoint'.ts, setup.endpoint, EndpointCredit)
      BY <1>1, <2>1, CheckedSound DEF Sums
    <2> QED  BY <1>1, <2>2 DEF Sound, EndpointUsers, EndpointCredit
  <1>5. \A c \in Clients : Sound(ClientUsers(c), client[c].ts, setup.client, ClientCredit(c))'
    <2> SUFFICES ASSUME NEW c \in Clients
                 PROVE  Sound(ClientUsers(c), client[c].ts, setup.client, ClientCredit(c))'
      OBVIOUS
    <2>1. client'[c] \in {client[c], Checked(client[c], setup.client, r)} /\ client[c] \in LimiterState
      BY DEF Refuse, TypeOK
    <2>2. Sound(ClientUsers(c), client'[c].ts, setup.client, ClientCredit(c))
      BY <1>1, <2>1, CheckedSound DEF Sums
    <2> QED  BY <1>1, <2>2 DEF Sound, ClientUsers, ClientCredit
  <1> QED  BY <1>2, <1>3, <1>4, <1>5 DEF Sums, KeysBounded

\* The deque that a step leaves on a level of attempt r: a release takes
\* something for enforced attempts only.
Left(l, r, freed) == IF freed /\ Enforced(r) THEN Release(l).ts ELSE l.ts

\* A release gives its level one credit.
Gains(credit, credit2, more) ==
    IF more THEN \A s \in Int : s <= now => credit2[s] = credit[s] + 1
    ELSE credit2 = credit

\* The step explains what it takes away.
LEMMA LeftSound ==
    ASSUME TypeOK, Times, NEW r \in Requests, NEW freed \in BOOLEAN, UNCHANGED grantedAt,
           NEW S \in SUBSET Requests, NEW l \in LimiterState, NEW c \in LimiterConfig,
           NEW credit, NEW credit2,
           \A s \in Int : credit[s] \in Nat /\ credit2[s] \in Nat,
           Gains(credit, credit2, freed /\ Enforced(r)), Sound(S, l.ts, c, credit)
    PROVE  /\ Explained(S, Left(l, r, freed), now - c.window, grantedAt', credit2)
           /\ Bounded(l.ts, c) => Bounded(Left(l, r, freed), c)
  <1>1. /\ now \in Nat /\ now - c.window \in Int /\ now \in Int
        /\ c.limit \in Nat /\ l.ts \in Seq(Time)
    BY DEF TypeOK, Time, LimiterConfig, LimiterState
  <1>2. \A q \in Requests : grantedAt[q] \in Nat /\ grantedAt[q] <= now
    BY DEF Times, TypeOK, Time
  <1>3. CASE freed /\ Enforced(r)
    <2>1. Explained(S, Release(l).ts, now - c.window, grantedAt, credit2)
      <3>1. \A s \in Int : s <= now => credit2[s] = credit[s] + 1
        BY <1>3 DEF Gains
      <3>2. Explained(S, l.ts, now - c.window, grantedAt, credit)
        BY DEF Sound
      <3> QED  BY <1>1, <1>2, <3>1, <3>2, ExplainedRefund
    <2>2. Release(l).ts \in Seq(Time) /\ Len(Release(l).ts) <= Len(l.ts)
      BY <1>1, ReleaseProperties DEF LimiterState
    <2>3. Bounded(l.ts, c) => Bounded(Release(l).ts, c)
      BY <1>1, <2>2, LenProperties DEF Bounded
    <2> QED  BY <1>3, <2>1, <2>3 DEF Left
  <1>4. CASE ~ (freed /\ Enforced(r))
    BY <1>4 DEF Left, Gains, Sound
  <1> QED  BY <1>3, <1>4

\* The ends of an attempt and its failing close: k is the key that the step
\* releases.
LEMMA EndW ==
    ASSUME IInv, WInv, Times', NEW r \in Requests, NEW k \in Keys, NEW freed \in BOOLEAN,
           UNCHANGED <<now, setup, key, grantedAt>>,
           \A j \in Keys : keyLimiter'[j].ts = IF j = k THEN Left(keyLimiter[j], r, freed)
                                                        ELSE keyLimiter[j].ts,
           endpoint'.ts = Left(endpoint, r, freed),
           \A c \in Clients : client'[c].ts = IF c = ClientOf[r] THEN Left(client[c], r, freed)
                                                                 ELSE client[c].ts,
           \A j \in Keys :
               Gains(KeyCredit(j), KeyCredit(j)', j = k /\ freed /\ Enforced(r)),
           Gains(EndpointCredit, EndpointCredit', freed /\ Enforced(r)),
           \A c \in Clients :
               Gains(ClientCredit(c), ClientCredit(c)',
                     c = ClientOf[r] /\ freed /\ Enforced(r))
    PROVE  WInv'
  <1> USE DEF IInv, WInv
  <1>1. /\ TypeOK /\ setup.key \in LimiterConfig /\ setup.endpoint \in LimiterConfig
        /\ setup.client \in LimiterConfig
    BY DEF TypeOK, Setup
  <1>2. \A s \in Int : /\ \A j : KeyCredit(j)'[s] \in Nat /\ KeyCredit(j)[s] \in Nat
                       /\ EndpointCredit'[s] \in Nat /\ EndpointCredit[s] \in Nat
                       /\ \A c : ClientCredit(c)'[s] \in Nat /\ ClientCredit(c)[s] \in Nat
    BY CreditsCount, CreditsCountLater
  <1>3. \A j \in Keys : /\ Sound(KeyUsers(j), keyLimiter[j].ts, setup.key, KeyCredit(j))'
                        /\ Bounded(keyLimiter[j].ts, setup.key)'
    <2> SUFFICES ASSUME NEW j \in Keys
                 PROVE  /\ Sound(KeyUsers(j), keyLimiter[j].ts, setup.key, KeyCredit(j))'
                        /\ Bounded(keyLimiter[j].ts, setup.key)'
      OBVIOUS
    <2>1. keyLimiter[j] \in LimiterState /\ KeyUsers(j)' = KeyUsers(j)
      BY DEF TypeOK, KeyUsers
    <2> DEFINE credit  == KeyCredit(j)
               credit2 == KeyCredit(j)'
    <2>2. /\ \A s \in Int : credit[s] \in Nat /\ credit2[s] \in Nat
          /\ Gains(credit, credit2, j = k /\ freed /\ Enforced(r))
          /\ Sound(KeyUsers(j), keyLimiter[j].ts, setup.key, credit)
          /\ Bounded(keyLimiter[j].ts, setup.key)
      BY <1>2 DEF Sums, KeysBounded
    <2>3. KeyCredit(j)' = credit2
      OBVIOUS
    <2> HIDE DEF credit, credit2
    <2>4. CASE j = k
      <3>1. /\ Explained(KeyUsers(j), Left(keyLimiter[j], r, freed), now - setup.key.window,
                         grantedAt', credit2)
            /\ Bounded(Left(keyLimiter[j], r, freed), setup.key)
        BY <1>1, <2>1, <2>2, <2>4, LeftSound, UsersAreRequests
      <3> QED  BY <2>1, <2>3, <2>4, <3>1 DEF Sound, Bounded
    <2>5. CASE j # k
      <3>1. credit2 = credit
        BY <2>2, <2>5 DEF Gains
      <3> QED  BY <2>1, <2>2, <2>3, <2>5, <3>1 DEF Sound, Bounded
    <2> QED  BY <2>4, <2>5
  <1>4. Sound(EndpointUsers, endpoint.ts, setup.endpoint, EndpointCredit)'
    <2> DEFINE credit  == EndpointCredit
               credit2 == EndpointCredit'
    <2>1. /\ \A s \in Int : credit[s] \in Nat /\ credit2[s] \in Nat
          /\ Gains(credit, credit2, freed /\ Enforced(r))
          /\ Sound(EndpointUsers, endpoint.ts, setup.endpoint, credit)
      BY <1>2 DEF Sums
    <2>2. EndpointCredit' = credit2 /\ endpoint \in LimiterState /\ EndpointUsers' = EndpointUsers
      BY DEF TypeOK, EndpointUsers
    <2> HIDE DEF credit, credit2
    <2>3. Explained(EndpointUsers, Left(endpoint, r, freed), now - setup.endpoint.window,
                    grantedAt', credit2)
      BY <1>1, <2>1, <2>2, LeftSound, UsersAreRequests
    <2> QED  BY <2>2, <2>3 DEF Sound
  <1>5. \A c \in Clients : Sound(ClientUsers(c), client[c].ts, setup.client, ClientCredit(c))'
    <2> SUFFICES ASSUME NEW c \in Clients
                 PROVE  Sound(ClientUsers(c), client[c].ts, setup.client, ClientCredit(c))'
      OBVIOUS
    <2>1. client[c] \in LimiterState /\ ClientUsers(c)' = ClientUsers(c)
      BY DEF TypeOK, ClientUsers
    <2> DEFINE credit  == ClientCredit(c)
               credit2 == ClientCredit(c)'
    <2>2. /\ \A s \in Int : credit[s] \in Nat /\ credit2[s] \in Nat
          /\ Gains(credit, credit2, c = ClientOf[r] /\ freed /\ Enforced(r))
          /\ Sound(ClientUsers(c), client[c].ts, setup.client, credit)
      BY <1>2 DEF Sums
    <2>3. ClientCredit(c)' = credit2
      OBVIOUS
    <2> HIDE DEF credit, credit2
    <2>4. CASE c = ClientOf[r]
      <3>1. Explained(ClientUsers(c), Left(client[c], r, freed), now - setup.client.window,
                      grantedAt', credit2)
        BY <1>1, <2>1, <2>2, <2>4, LeftSound, UsersAreRequests
      <3> QED  BY <2>1, <2>3, <2>4, <3>1 DEF Sound
    <2>5. CASE c # ClientOf[r]
      <3>1. credit2 = credit
        BY <2>2, <2>5 DEF Gains
      <3> QED  BY <2>1, <2>2, <2>3, <2>5, <3>1 DEF Sound
    <2> QED  BY <2>4, <2>5
  <1> QED  BY <1>3, <1>4, <1>5 DEF Sums, KeysBounded

\* Nothing is refunded by a success, nor by a retried status below 400.
LEMMA NothingFreed ==
    ASSUME UNCHANGED <<refundedAt, closedAt, key, closedKey>>
    PROVE  /\ \A j : KeyCredit(j)' = KeyCredit(j)
           /\ EndpointCredit' = EndpointCredit
           /\ \A c : ClientCredit(c)' = ClientCredit(c)
  BY DEF KeyCredit, EndpointCredit, ClientCredit, KeyUsers, KeyClosers, EndpointUsers,
         ClientUsers

LEMMA UnfreedW ==
    ASSUME IInv, WInv, Times', NEW r \in Requests, NEW l, key[r] \in Keys,
           l.ts = keyLimiter[key[r]].ts, keyLimiter' = [keyLimiter EXCEPT ![key[r]] = l],
           UNCHANGED <<now, setup, endpoint, client, key, grantedAt, refundedAt, closedAt,
                       closedKey>>
    PROVE  WInv'
  <1> PICK k \in Keys : k = key[r]
    OBVIOUS
  <1>1. \A j \in Keys : keyLimiter'[j].ts = IF j = k THEN Left(keyLimiter[j], r, FALSE)
                                                     ELSE keyLimiter[j].ts
    BY DEF Left, IInv, TypeOK
  <1>2. /\ endpoint'.ts = Left(endpoint, r, FALSE)
        /\ \A c \in Clients : client'[c].ts = IF c = ClientOf[r] THEN Left(client[c], r, FALSE)
                                                                 ELSE client[c].ts
    BY DEF Left
  <1>3. /\ \A j \in Keys :
             Gains(KeyCredit(j), KeyCredit(j)', j = k /\ FALSE /\ Enforced(r))
        /\ Gains(EndpointCredit, EndpointCredit', FALSE /\ Enforced(r))
        /\ \A c \in Clients :
             Gains(ClientCredit(c), ClientCredit(c)', c = ClientOf[r] /\ FALSE /\ Enforced(r))
    BY NothingFreed DEF Gains
  <1> QED  BY <1>1, <1>2, <1>3, EndW

LEMMA SucceedW == ASSUME IInv, WInv, NEW r \in Requests, Succeed(r) PROVE WInv'
  <1>1. key[r] \in Keys /\ keyLimiter[key[r]] \in LimiterState
    BY DEF IInv, HasKey, Succeed, TypeOK
  <1>2. Unlock(keyLimiter[key[r]]).ts = keyLimiter[key[r]].ts
    BY <1>1 DEF Unlock, LimiterState
  <1>3. Times'
    BY DEF Succeed, history, WInv, Times, IInv, TypeOK
  <1>4. keyLimiter' = [keyLimiter EXCEPT ![key[r]] = Unlock(keyLimiter[key[r]])]
    BY DEF Succeed
  <1> QED  BY <1>1, <1>2, <1>3, <1>4, UnfreedW DEF Succeed, history

LEMMA KeepW ==
    ASSUME IInv, WInv, NEW r \in Requests, NEW d \in CoolDowns, Keep(r, d)
    PROVE  WInv'
  <1>1. key[r] \in Keys /\ keyLimiter[key[r]] \in LimiterState
    BY DEF IInv, HasKey, Keep, TypeOK
  <1>2. BlockFor(keyLimiter[key[r]], now, d).ts = keyLimiter[key[r]].ts
    BY <1>1 DEF BlockFor, LimiterState
  <1>3. Times'
    BY DEF Keep, history, WInv, Times, IInv, TypeOK
  <1>4. keyLimiter' = [keyLimiter EXCEPT ![key[r]] = BlockFor(keyLimiter[key[r]], now, d)]
    BY DEF Keep
  <1> QED  BY <1>1, <1>2, <1>3, <1>4, UnfreedW DEF Keep, history

\* A refund on the outer levels.
LEMMA RefundLeft ==
    ASSUME TypeOK, NEW r \in Requests, Refund(r)
    PROVE  /\ endpoint'.ts = Left(endpoint, r, TRUE)
           /\ \A c \in Clients : client'[c].ts = IF c = ClientOf[r] THEN Left(client[c], r, TRUE)
                                                                    ELSE client[c].ts
  BY DEF Refund, Left, TypeOK

\* A refund of the key, with or without a cool-down.
LEMMA ReleasedKeyLeft ==
    ASSUME TypeOK, NEW r \in Requests, NEW k \in Keys
    PROVE  ReleasedKey(k, r).ts = Left(keyLimiter[k], r, TRUE)
  <1>1. keyLimiter[k] \in LimiterState /\ Release(keyLimiter[k]) \in LimiterState
    <2>1. now \in Int
      BY DEF TypeOK, Time
    <2> QED  BY <2>1, ReleaseProperties DEF TypeOK
  <1>2. \A l \in LimiterState : Unlock(l).ts = l.ts
    BY DEF Unlock, LimiterState
  <1> QED  BY <1>1, <1>2 DEF ReleasedKey, Left

\* What a refund of r, and a second one, are worth on each level.
LEMMA RefundGains ==
    ASSUME TypeOK, now > 0, NEW r \in Requests, refundedAt[r] = 0,
           refundedAt' = [refundedAt EXCEPT ![r] = now],
           UNCHANGED <<now, key, closedAt, closedKey>>
    PROVE  /\ \A j \in Keys :
                Gains(KeyCredit(j), KeyCredit(j)', j = key[r] /\ TRUE /\ Enforced(r))
           /\ Gains(EndpointCredit, EndpointCredit', TRUE /\ Enforced(r))
           /\ \A c \in Clients :
                Gains(ClientCredit(c), ClientCredit(c)', c = ClientOf[r] /\ TRUE /\ Enforced(r))
  <1>1. /\ now \in Nat /\ refundedAt'[r] = now
        /\ \A q \in Requests \ {r} : refundedAt'[q] = refundedAt[q]
    BY DEF TypeOK, Time
  <1>2. \A S, U \in SUBSET Requests :
          Gains(CreditOf(S, refundedAt, U, closedAt), CreditOf(S, refundedAt', U, closedAt),
                r \in S)
    <2> SUFFICES ASSUME NEW S \in SUBSET Requests, NEW U \in SUBSET Requests
                 PROVE  Gains(CreditOf(S, refundedAt, U, closedAt),
                              CreditOf(S, refundedAt', U, closedAt), r \in S)
      OBVIOUS
    <2> DEFINE f2 == refundedAt'
    <2>1. /\ f2[r] = now /\ \A q \in Requests \ {r} : f2[q] = refundedAt[q]
      BY <1>1
    <2> HIDE DEF f2
    <2>2. Gains(CreditOf(S, refundedAt, U, closedAt), CreditOf(S, f2, U, closedAt), r \in S)
      <3>1. CASE r \in S
        <4>1. \A q \in S \ {r} : f2[q] = refundedAt[q]
          BY ONLY <2>1, S \in SUBSET Requests
        <4>2. ASSUME NEW s \in Int, s <= now
              PROVE  CreditOf(S, f2, U, closedAt)[s] = CreditOf(S, refundedAt, U, closedAt)[s] + 1
          BY <1>1, <2>1, <3>1, <4>1, <4>2, CreditRefund
        <4> QED  BY <3>1, <4>2 DEF Gains
      <3>2. CASE r \notin S
        <4>1. \A q \in S : f2[q] = refundedAt[q]
          BY ONLY <2>1, <3>2, S \in SUBSET Requests
        <4>2. CreditOf(S, f2, U, closedAt) = CreditOf(S, refundedAt, U, closedAt)
          BY <4>1, CreditSame
        <4> QED  BY <3>2, <4>2 DEF Gains
      <3> QED  BY <3>1, <3>2
    <2> QED  BY <2>2 DEF f2
  <1>3. ASSUME NEW j \in Keys
        PROVE  Gains(KeyCredit(j), KeyCredit(j)', j = key[r] /\ TRUE /\ Enforced(r))
    <2>1. /\ KeyCredit(j)' = CreditOf(KeyUsers(j), refundedAt', KeyClosers(j), closedAt)
          /\ r \in KeyUsers(j) <=> (j = key[r] /\ TRUE /\ Enforced(r))
      BY DEF KeyCredit, KeyUsers, KeyClosers, Enforced
    <2>2. Gains(CreditOf(KeyUsers(j), refundedAt, KeyClosers(j), closedAt),
                CreditOf(KeyUsers(j), refundedAt', KeyClosers(j), closedAt), r \in KeyUsers(j))
      BY <1>2, UsersAreRequests
    <2>3. Gains(KeyCredit(j), KeyCredit(j)', r \in KeyUsers(j))
      BY ONLY <2>1, <2>2 DEF KeyCredit
    <2> QED  BY ONLY <2>1, <2>3 DEF Gains
  <1>4. Gains(EndpointCredit, EndpointCredit', TRUE /\ Enforced(r))
    <2>1. /\ EndpointCredit' = CreditOf(EndpointUsers, refundedAt', EndpointUsers, closedAt)
          /\ r \in EndpointUsers <=> (TRUE /\ Enforced(r))
      BY DEF EndpointCredit, EndpointUsers, Enforced
    <2> QED  BY <1>2, <2>1, UsersAreRequests DEF EndpointCredit, Gains
  <1>5. ASSUME NEW c \in Clients
        PROVE  Gains(ClientCredit(c), ClientCredit(c)', c = ClientOf[r] /\ TRUE /\ Enforced(r))
    <2>1. /\ ClientCredit(c)' = CreditOf(ClientUsers(c), refundedAt', ClientUsers(c), closedAt)
          /\ r \in ClientUsers(c) <=> (c = ClientOf[r] /\ TRUE /\ Enforced(r))
      BY DEF ClientCredit, ClientUsers, Enforced
    <2>2. Gains(CreditOf(ClientUsers(c), refundedAt, ClientUsers(c), closedAt),
                CreditOf(ClientUsers(c), refundedAt', ClientUsers(c), closedAt),
                r \in ClientUsers(c))
      BY <1>2, UsersAreRequests
    <2>3. Gains(ClientCredit(c), ClientCredit(c)', r \in ClientUsers(c))
      BY ONLY <2>1, <2>2 DEF ClientCredit
    <2> QED  BY ONLY <2>1, <2>3 DEF Gains
  <1> QED  BY <1>3, <1>4, <1>5

LEMMA CloseGains ==
    ASSUME TypeOK, now > 0, NEW r \in Requests, NEW k \in Keys, closedAt[r] = 0,
           closedKey[r] = NoKey,
           closedAt' = [closedAt EXCEPT ![r] = now], closedKey' = [closedKey EXCEPT ![r] = k],
           UNCHANGED <<now, key, refundedAt>>
    PROVE  /\ \A j \in Keys :
                Gains(KeyCredit(j), KeyCredit(j)', j = k /\ TRUE /\ Enforced(r))
           /\ Gains(EndpointCredit, EndpointCredit', TRUE /\ Enforced(r))
           /\ \A c \in Clients :
                Gains(ClientCredit(c), ClientCredit(c)', c = ClientOf[r] /\ TRUE /\ Enforced(r))
  <1>1. /\ now \in Nat /\ closedAt'[r] = now
        /\ \A q \in Requests \ {r} : closedAt'[q] = closedAt[q]
    BY DEF TypeOK, Time
  <1>2. \A S, U \in SUBSET Requests :
          /\ Gains(CreditOf(S, refundedAt, U, closedAt),
                   CreditOf(S, refundedAt, U \cup {r}, closedAt'), TRUE)
          /\ r \notin U => Gains(CreditOf(S, refundedAt, U, closedAt),
                                 CreditOf(S, refundedAt, U, closedAt'), FALSE)
    <2> SUFFICES ASSUME NEW S \in SUBSET Requests, NEW U \in SUBSET Requests
                 PROVE  /\ Gains(CreditOf(S, refundedAt, U, closedAt),
                                 CreditOf(S, refundedAt, U \cup {r}, closedAt'), TRUE)
                        /\ r \notin U => Gains(CreditOf(S, refundedAt, U, closedAt),
                                               CreditOf(S, refundedAt, U, closedAt'), FALSE)
      OBVIOUS
    <2> DEFINE h2 == closedAt'
    <2>1. h2[r] = now /\ \A q \in Requests \ {r} : h2[q] = closedAt[q]
      BY <1>1
    <2> HIDE DEF h2
    <2>2. Gains(CreditOf(S, refundedAt, U, closedAt), CreditOf(S, refundedAt, U \cup {r}, h2), TRUE)
      <3>1. \A q \in U \ {r} : h2[q] = closedAt[q]
        BY ONLY <2>1, U \in SUBSET Requests
      <3>2. ASSUME NEW s \in Int, s <= now
            PROVE  CreditOf(S, refundedAt, U \cup {r}, h2)[s]
                     = CreditOf(S, refundedAt, U, closedAt)[s] + 1
        <4>1. /\ closedAt[r] = 0 /\ now \in Nat /\ now > 0
              /\ S \in SUBSET Requests /\ U \in SUBSET Requests /\ r \in Requests
              /\ s \in Int /\ s <= now
          BY <1>1, <3>2
        <4>2. PICK f, h, g, t, R : /\ f = refundedAt /\ h = closedAt /\ g = h2 /\ t = now
                                   /\ R = U \cup {r}
          OBVIOUS
        <4>3. /\ h[r] = 0 /\ t \in Nat /\ t > 0 /\ g[r] = t /\ s <= t
              /\ \A q \in U \ {r} : g[q] = h[q]
          BY ONLY <2>1, <3>1, <4>1, <4>2
        <4>4. CreditOf(S, f, R, g)[s] = CreditOf(S, f, U, h)[s] + 1
          BY ONLY <4>1, <4>2, <4>3, CreditClose
        <4> QED  BY ONLY <4>2, <4>4
      <3> QED  BY <3>2 DEF Gains
    <2>3. ASSUME r \notin U
          PROVE  Gains(CreditOf(S, refundedAt, U, closedAt), CreditOf(S, refundedAt, U, h2), FALSE)
      <3>1. \A q \in U : h2[q] = closedAt[q]
        BY ONLY <2>1, <2>3, U \in SUBSET Requests
      <3>2. CreditOf(S, refundedAt, U, h2) = CreditOf(S, refundedAt, U, closedAt)
        BY <3>1, CreditSame
      <3> QED  BY <3>2 DEF Gains
    <2> QED  BY <2>2, <2>3 DEF h2
  <1>3. ASSUME NEW j \in Keys
        PROVE  Gains(KeyCredit(j), KeyCredit(j)', j = k /\ TRUE /\ Enforced(r))
    <2>1. r \notin KeyClosers(j)
      BY TrafficAssumption DEF KeyClosers
    <2>2. /\ KeyCredit(j)' = CreditOf(KeyUsers(j), refundedAt, KeyClosers(j)', closedAt')
          /\ KeyClosers(j)' = IF j = k /\ Enforced(r) THEN KeyClosers(j) \cup {r} ELSE KeyClosers(j)
      BY <2>1 DEF KeyCredit, KeyUsers, KeyClosers, Enforced, TypeOK
    <2>3. CASE j = k /\ Enforced(r)
      <3>1. Gains(KeyCredit(j), CreditOf(KeyUsers(j), refundedAt, KeyClosers(j) \cup {r}, closedAt'),
                  TRUE)
        BY <1>2, UsersAreRequests DEF KeyCredit
      <3>2. Gains(KeyCredit(j), KeyCredit(j)', TRUE)
        BY ONLY <2>2, <2>3, <3>1
      <3> QED  BY ONLY <2>3, <3>2 DEF Gains
    <2>4. CASE ~(j = k /\ Enforced(r))
      <3>1. Gains(KeyCredit(j), CreditOf(KeyUsers(j), refundedAt, KeyClosers(j), closedAt'), FALSE)
        BY <1>2, <2>1, UsersAreRequests DEF KeyCredit
      <3>2. Gains(KeyCredit(j), KeyCredit(j)', FALSE)
        BY ONLY <2>2, <2>4, <3>1
      <3> QED  BY ONLY <2>4, <3>2 DEF Gains
    <2> QED  BY ONLY <2>3, <2>4
  <1>4. Gains(EndpointCredit, EndpointCredit', TRUE /\ Enforced(r))
    <2>1. /\ EndpointCredit' = CreditOf(EndpointUsers, refundedAt, EndpointUsers, closedAt')
          /\ Enforced(r) => EndpointUsers \cup {r} = EndpointUsers
          /\ ~Enforced(r) => r \notin EndpointUsers
      BY DEF EndpointCredit, EndpointUsers, Enforced
    <2> QED  BY <1>2, <2>1, UsersAreRequests DEF EndpointCredit, Gains
  <1>5. ASSUME NEW c \in Clients
        PROVE  Gains(ClientCredit(c), ClientCredit(c)', c = ClientOf[r] /\ TRUE /\ Enforced(r))
    <2>1. /\ ClientCredit(c)' = CreditOf(ClientUsers(c), refundedAt, ClientUsers(c), closedAt')
          /\ (c = ClientOf[r] /\ Enforced(r)) => ClientUsers(c) \cup {r} = ClientUsers(c)
          /\ ~(c = ClientOf[r] /\ Enforced(r)) => r \notin ClientUsers(c)
      BY DEF ClientCredit, ClientUsers, Enforced
    <2>2. CASE c = ClientOf[r] /\ Enforced(r)
      <3>1. Gains(ClientCredit(c),
                  CreditOf(ClientUsers(c), refundedAt, ClientUsers(c) \cup {r}, closedAt'), TRUE)
        BY <1>2, UsersAreRequests DEF ClientCredit
      <3>2. Gains(ClientCredit(c), ClientCredit(c)', TRUE)
        BY ONLY <2>1, <2>2, <3>1
      <3> QED  BY ONLY <2>2, <3>2 DEF Gains
    <2>3. CASE ~(c = ClientOf[r] /\ Enforced(r))
      <3>1. Gains(ClientCredit(c), CreditOf(ClientUsers(c), refundedAt, ClientUsers(c), closedAt'),
                  FALSE)
        BY <1>2, <2>1, <2>3, UsersAreRequests DEF ClientCredit
      <3>2. Gains(ClientCredit(c), ClientCredit(c)', FALSE)
        BY ONLY <2>1, <3>1
      <3> QED  BY ONLY <2>3, <3>2 DEF Gains
    <2> QED  BY ONLY <2>2, <2>3
  <1> QED  BY <1>3, <1>4, <1>5

\* Both failures, for the limiter m that is left of the key.
LEMMA FailedW ==
    ASSUME IInv, WInv, NEW r \in Requests, status[r] = "held", Refund(r),
           NEW m, m.ts = ReleasedKey(key[r], r).ts,
           keyLimiter' = [keyLimiter EXCEPT ![key[r]] = m],
           status' = [status EXCEPT ![r] = "failed"],
           refundedAt' = [refundedAt EXCEPT ![r] = now],
           UNCHANGED <<now, setup, key, grantedAt, closedAt, closedKey>>
    PROVE  WInv'
  <1>1. PICK k \in Keys : k = key[r]
    BY DEF IInv, HasKey
  <1>2. \A j \in Keys : keyLimiter'[j].ts = IF j = k THEN Left(keyLimiter[j], r, TRUE)
                                                     ELSE keyLimiter[j].ts
    <2>1. ReleasedKey(k, r).ts = Left(keyLimiter[k], r, TRUE)
      BY ReleasedKeyLeft DEF IInv
    <2> QED  BY <1>1, <2>1 DEF IInv, TypeOK
  <1>3. Times'
    BY DEF WInv, Times, IInv, TypeOK
  <1>4. now > 0 /\ refundedAt[r] = 0 /\ TypeOK
    BY DEF WInv, Times, IInv
  <1>5. /\ endpoint'.ts = Left(endpoint, r, TRUE)
        /\ \A c \in Clients : client'[c].ts = IF c = ClientOf[r] THEN Left(client[c], r, TRUE)
                                                                 ELSE client[c].ts
    BY <1>4, RefundLeft
  <1>6. /\ \A j \in Keys :
             Gains(KeyCredit(j), KeyCredit(j)', j = k /\ TRUE /\ Enforced(r))
        /\ Gains(EndpointCredit, EndpointCredit', TRUE /\ Enforced(r))
        /\ \A c \in Clients :
             Gains(ClientCredit(c), ClientCredit(c)', c = ClientOf[r] /\ TRUE /\ Enforced(r))
    BY <1>1, <1>4, RefundGains
  <1> QED  BY <1>2, <1>3, <1>5, <1>6, EndW

LEMMA FailW == ASSUME IInv, WInv, NEW r \in Requests, Fail(r) PROVE WInv'
  BY FailedW DEF Fail

LEMMA FailAndBlockW ==
    ASSUME IInv, WInv, NEW r \in Requests, NEW d \in CoolDowns, FailAndBlock(r, d)
    PROVE  WInv'
  <1>1. key[r] \in Keys /\ TypeOK
    BY DEF IInv, HasKey, FailAndBlock
  <1> DEFINE l == ReleasedKey(key[r], r)
  <1>2. l \in LimiterState
    BY <1>1, ReleasedKeyProperties
  <1> HIDE DEF l
  <1>3. BlockFor(l, now, d).ts = l.ts
    BY <1>2 DEF BlockFor, LimiterState
  <1> QED  BY <1>3, FailedW DEF FailAndBlock, l

LEMMA CloseFailsW == ASSUME IInv, WInv, NEW r \in Requests, CloseFails(r) PROVE WInv'
  <1>1. PICK k \in Keys : k = apiKey[CallOf[r]]
    BY DEF IInv, HasKey, CloseFails
  <1>2. /\ closedAt[r] = 0 /\ Refund(r)
        /\ keyLimiter' = [keyLimiter EXCEPT ![k] = ReleasedKey(k, r)]
        /\ closedAt' = [closedAt EXCEPT ![r] = now] /\ closedKey' = [closedKey EXCEPT ![r] = k]
        /\ UNCHANGED <<now, setup, status, key, grantedAt, refundedAt>>
    BY <1>1 DEF CloseFails
  <1>3. now > 0 /\ now \in Nat /\ closedKey[r] = NoKey /\ TypeOK
    BY <1>2 DEF WInv, Times, IInv, TypeOK, Time
  <1>4. Times'
    BY <1>2, <1>3 DEF WInv, Times, TypeOK
  <1>5. \A j \in Keys : keyLimiter'[j].ts = IF j = k THEN Left(keyLimiter[j], r, TRUE)
                                                     ELSE keyLimiter[j].ts
    <2>1. ReleasedKey(k, r).ts = Left(keyLimiter[k], r, TRUE)
      BY <1>3, ReleasedKeyLeft
    <2> QED  BY <1>2, <1>3, <2>1 DEF TypeOK
  <1>6. /\ endpoint'.ts = Left(endpoint, r, TRUE)
        /\ \A c \in Clients : client'[c].ts = IF c = ClientOf[r] THEN Left(client[c], r, TRUE)
                                                                 ELSE client[c].ts
    BY <1>2, <1>3, RefundLeft
  <1>7. /\ \A j \in Keys :
             Gains(KeyCredit(j), KeyCredit(j)', j = k /\ TRUE /\ Enforced(r))
        /\ Gains(EndpointCredit, EndpointCredit', TRUE /\ Enforced(r))
        /\ \A c \in Clients :
             Gains(ClientCredit(c), ClientCredit(c)', c = ClientOf[r] /\ TRUE /\ Enforced(r))
    BY <1>2, <1>3, CloseGains
  <1> QED  BY <1>2, <1>4, <1>5, <1>6, <1>7, EndW

LEMMA TickW == ASSUME IInv, WInv, Tick PROVE WInv'
  <1> USE DEF IInv, WInv
  <1>1. /\ now \in Nat /\ now' \in Nat /\ now < now' /\ setup' = setup
        /\ setup.key \in LimiterConfig /\ setup.endpoint \in LimiterConfig
        /\ setup.client \in LimiterConfig
        /\ UNCHANGED <<keyLimiter, endpoint, client, status, key, grantedAt, refundedAt,
                       closedAt, closedKey>>
    BY TrafficAssumption DEF Tick, TypeOK, Setup, Time
  <1>2. Times'
    BY <1>1 DEF Times, TypeOK, Time
  <1>3. \A S, ts, c, credit :
          c \in LimiterConfig /\ Sound(S, ts, c, credit) =>
            Explained(S, ts, now' - c.window, grantedAt, credit)
    <2> SUFFICES ASSUME NEW S, NEW ts, NEW c \in LimiterConfig, NEW credit,
                        Sound(S, ts, c, credit)
                 PROVE  Explained(S, ts, now' - c.window, grantedAt, credit)
      OBVIOUS
    <2>1. now - c.window \in Int /\ now' - c.window \in Int /\ now - c.window <= now' - c.window
      BY <1>1 DEF LimiterConfig
    <2> QED  BY <2>1, ExplainedLater DEF Sound
  <1>4. Sums'
    <2>1. /\ \A k : KeyCredit(k)' = KeyCredit(k) /\ KeyUsers(k)' = KeyUsers(k)
          /\ EndpointCredit' = EndpointCredit /\ EndpointUsers' = EndpointUsers
          /\ \A c : ClientCredit(c)' = ClientCredit(c) /\ ClientUsers(c)' = ClientUsers(c)
      BY <1>1 DEF KeyCredit, EndpointCredit, ClientCredit, KeyUsers, KeyClosers,
                  EndpointUsers, ClientUsers
    <2> QED  BY <1>1, <1>3, <2>1 DEF Sums, Sound
  <1>5. KeysBounded'
    BY <1>1 DEF KeysBounded, Bounded
  <1> QED  BY <1>2, <1>4, <1>5

LEMMA NextW == ASSUME IInv, WInv, [Next]_vars PROVE WInv'
  <1>1. CASE \E r \in Requests, k \in Keys : Acquire(r, k)
    BY <1>1, AcquireW
  <1>2. CASE \E r \in Requests : Refuse(r)
    BY <1>2, RefuseW
  <1>3. CASE \E r \in Requests : Succeed(r)
    BY <1>3, SucceedW
  <1>4. CASE \E r \in Requests : Fail(r)
    BY <1>4, FailW
  <1>5. CASE \E r \in Requests, d \in CoolDowns : FailAndBlock(r, d)
    BY <1>5, FailAndBlockW
  <1>6. CASE \E r \in Requests, d \in CoolDowns : Keep(r, d)
    BY <1>6, KeepW
  <1>7. CASE \E r \in Requests : CloseFails(r)
    BY <1>7, CloseFailsW
  <1>8. CASE Tick
    BY <1>8, TickW
  <1>9. CASE UNCHANGED vars
    BY <1>9 DEF vars, history, WInv, Times, Sums, KeysBounded, Sound, Bounded, KeyUsers,
                KeyClosers, EndpointUsers, ClientUsers, KeyCredit, EndpointCredit, ClientCredit
  <1> QED  BY <1>1, <1>2, <1>3, <1>4, <1>5, <1>6, <1>7, <1>8, <1>9 DEF Next

\* The sums hold in every reachable state.
THEOREM SumsInvariant == Spec => []WInv
  <1> QED  BY WInit, NextW, Invariance, PTL DEF Spec

\* No key admits more in a window than its limit and the refunds made in it,
\* second refunds of failing closes included, whatever the number of attempts
\* that share it and the order in which they succeed, fail and pass the checks
\* (control.py try_acquire_key, release_key; limit.py release,
\* _clean_old_timestamps; queue.py _process_with_worker).
THEOREM KeyWindowKept == Spec => []KeyWindow
  <1>1. ASSUME IInv, WInv, NEW k \in Keys
        PROVE  Admitted(GrantedBy(k), ClosedOn(k), setup.key)
    <2> DEFINE S == GrantedBy(k)
               U == ClosedOn(k)
    <2>1. /\ S \in SUBSET Requests /\ S \ Exempt = KeyUsers(k)
          /\ U \in SUBSET Requests /\ U \ Exempt = KeyClosers(k)
      BY DEF KeyUsers, KeyClosers, GrantedBy, ClosedOn
    <2> HIDE DEF S, U
    <2>2. /\ TypeOK /\ setup.key \in LimiterConfig /\ keyLimiter[k].ts \in Seq(Time)
          /\ Bounded(keyLimiter[k].ts, setup.key)
          /\ Sound(S \ Exempt, keyLimiter[k].ts, setup.key,
                   CreditOf(S \ Exempt, refundedAt, U \ Exempt, closedAt))
      BY <1>1, <2>1 DEF IInv, WInv, TypeOK, Setup, LimiterState, KeysBounded, Sums, KeyCredit
    <2>3. Admitted(S, U, setup.key)
      BY <2>1, <2>2, SoundAdmitted
    <2> QED  BY <2>3 DEF S, U
  <1>2. IInv /\ WInv => KeyWindow
    BY <1>1 DEF KeyWindow
  <1> QED  BY <1>2, Invariance, SumsInvariant, PTL

---------------------------------------------------------------------------
(* The endpoint and the clients.                                           *)
(*                                                                         *)
(* Their guard is the wait, and time_until_reset is 0 while is_limited     *)
(* still counts a timestamp that is exactly one window old, so a call at   *)
(* that very instant is let through.  What is proved is that there is no   *)
(* other gap: if no window is a whole number of steps of the clock, no     *)
(* call is made at such an instant, and the limits hold.                   *)

Beats == {n * Step : n \in Nat}

Apart(c) == c.window \notin Beats \/ Unlimited(c)

WindowsApart == \A s \in Setups : Apart(s.endpoint) /\ Apart(s.client)

\* An outer limiter is never locked or blocked.
Outer(l, c) ==
    /\ l.lockedUntil = 0 /\ l.blockedUntil = 0
    /\ l.ts \in Seq(Beats)
    /\ Bounded(l.ts, c)

OuterInv ==
    /\ setup \in Setups
    /\ now \in Beats
    /\ Outer(endpoint, setup.endpoint)
    /\ \A c \in Clients : Outer(client[c], setup.client)

LEMMA BeatsClosed ==
    /\ Beats \subseteq Nat
    /\ 0 \in Beats
    /\ \A b \in Beats : b + Step \in Beats
    /\ \A a, b \in Beats : a <= b => b - a \in Beats
  <1>1. Step \in Nat /\ Step > 0
    BY TrafficAssumption
  <1>2. \A m, n \in Nat : /\ m * Step \in Nat
                          /\ (n + 1) * Step = n * Step + Step
                          /\ m <= n => (n - m) * Step = n * Step - m * Step
                          /\ n < m => n * Step < m * Step
    <2> TAKE m, n \in Nat
    <2>1. m * Step \in Nat /\ (n + 1) * Step = n * Step + Step
      BY <1>1
    <2>2. (n - m) * Step = n * Step - m * Step /\ (m - n) * Step = m * Step - n * Step
      BY <1>1
    <2>3. n < m => (m - n) * Step > 0
      BY <1>1
    <2> QED  BY <1>1, <2>1, <2>2, <2>3
  <1>3. Beats \subseteq Nat
    BY <1>2 DEF Beats
  <1>4. 0 \in Beats
    <2>1. 0 = 0 * Step
      BY <1>1
    <2> QED  BY <2>1 DEF Beats
  <1>5. \A b \in Beats : b + Step \in Beats
    <2> SUFFICES ASSUME NEW n \in Nat PROVE n * Step + Step \in Beats
      BY DEF Beats
    <2>1. n + 1 \in Nat /\ n * Step + Step = (n + 1) * Step
      BY <1>2
    <2> QED  BY <2>1 DEF Beats
  <1>6. \A a, b \in Beats : a <= b => b - a \in Beats
    <2> SUFFICES ASSUME NEW m \in Nat, NEW n \in Nat, m * Step <= n * Step
                 PROVE  n * Step - m * Step \in Beats
      BY DEF Beats
    <2>1. m <= n
      BY <1>2
    <2>2. n - m \in Nat /\ n * Step - m * Step = (n - m) * Step
      BY <1>2, <2>1
    <2> QED  BY <2>2 DEF Beats
  <1> QED  BY <1>3, <1>4, <1>5, <1>6

\* time_until_reset is never negative.
LEMMA ResetType ==
    ASSUME NEW l \in LimiterState, NEW c \in LimiterConfig, NEW t \in Time
    PROVE  TimeUntilReset(l, c, t) \in Nat
  <1> DEFINE ts      == AfterIsLimited(l, c, t).ts
             blocked == Larger(0, l.blockedUntil - t)
  <1>1. /\ l.blockedUntil \in Nat /\ t \in Nat /\ t \in Int /\ c.window \in Int
    BY DEF LimiterState, LimiterConfig, Time
  <1>2. AfterIsLimited(l, c, t) \in LimiterState
    BY <1>1, AfterIsLimitedProperties
  <1>3. ts \in Seq(Nat)
    BY <1>2 DEF LimiterState, Time
  <1>4. blocked \in Nat
    BY <1>1 DEF Larger
  <1>5. TimeUntilReset(l, c, t) = IF ~IsLimited(l, c, t) THEN 0
                                  ELSE IF ts = <<>> THEN blocked
                                  ELSE Larger(blocked, ts[1] + c.window - t)
    BY DEF TimeUntilReset
  <1> HIDE DEF ts, blocked
  <1>6. CASE ts = <<>>
    BY <1>4, <1>5, <1>6
  <1>7. CASE ts # <<>>
    <2>1. ts[1] \in Nat
      BY <1>3, <1>7, HeadTailProperties
    <2>2. Larger(blocked, ts[1] + c.window - t) \in Nat
      BY <1>1, <1>4, <2>1 DEF Larger
    <2> QED  BY <1>5, <1>7, <2>2
  <1> QED  BY <1>6, <1>7

\* A wait of 0 is room for one more timestamp.
LEMMA NoWaitRoom ==
    ASSUME NEW l \in LimiterState, NEW c \in LimiterConfig, NEW t \in Beats,
           Outer(l, c), Apart(c), ~Unlimited(c), TimeUntilReset(l, c, t) = 0
    PROVE  Len(AfterIsLimited(l, c, t).ts) < c.limit
  <1> DEFINE start == t - c.window
             cl    == Cleaned(l.ts, start)
             p     == Popped(l.ts, start)
  <1>1. /\ t \in Nat /\ t \in Time /\ c.window \in Nat /\ c.limit \in Nat /\ start \in Int
        /\ l.ts \in Seq(Time) /\ l.ts \in Seq(Beats) /\ c.limit > 0
    BY BeatsClosed DEF LimiterState, LimiterConfig, Outer, Time, Unlimited
  <1>2. ~Locked(l, t) /\ ~Blocked(l, t)
    BY <1>1 DEF Outer, Locked, Blocked
  <1>3. AfterIsLimited(l, c, t).ts = cl
    <2>1. AfterIsLimited(l, c, t) = [l EXCEPT !.ts = cl]
      BY <1>2 DEF AfterIsLimited
    <2> HIDE DEF cl
    <2> QED  BY <2>1 DEF LimiterState
  <1>4. /\ cl \in Seq(Time) /\ Len(cl) \in Nat /\ Len(cl) = Len(l.ts) - p /\ Len(l.ts) \in Nat
        /\ \A i \in 1..Len(cl) : i + p \in 1..Len(l.ts) /\ cl[i] = l.ts[i + p]
        /\ p \in 0..Len(l.ts) /\ (p < Len(l.ts) => l.ts[p + 1] >= start)
    BY <1>1, CleanedProperties, PoppedExact, LenProperties
  <1> HIDE DEF cl, p
  <1>5. SUFFICES ASSUME Len(cl) >= c.limit PROVE FALSE
    BY <1>1, <1>3, <1>4
  <1>6. 1 \in 1..Len(cl) /\ cl # <<>>
    BY <1>1, <1>4, <1>5, EmptySeq
  <1>7. cl[1] = l.ts[p + 1] /\ p + 1 \in 1..Len(l.ts) /\ p < Len(l.ts)
    BY <1>4, <1>6
  <1>8. cl[1] \in Beats /\ cl[1] \in Nat
    <2>1. l.ts[p + 1] \in Beats
      BY <1>1, <1>7, ElementOfSeq
    <2> QED  BY <1>7, <2>1, BeatsClosed
  <1>9. IsLimited(l, c, t)
    BY <1>5 DEF IsLimited, cl
  <1>10. Larger(Larger(0, l.blockedUntil - t), cl[1] + c.window - t) = 0
    BY <1>3, <1>6, <1>9 DEF TimeUntilReset
  <1>11. cl[1] <= start
    <2>1. l.blockedUntil - t \in Int /\ cl[1] + c.window - t \in Int
      BY <1>1, <1>8 DEF Outer
    <2> HIDE DEF start
    <2>2. cl[1] + c.window - t <= 0
      BY <1>10, <2>1 DEF Larger
    <2> QED  BY <1>1, <1>8, <2>2 DEF start
  <1>12. cl[1] = start
    BY <1>1, <1>4, <1>7, <1>8, <1>11
  <1>13. t - cl[1] = c.window /\ cl[1] <= t
    BY <1>1, <1>8, <1>12
  <1>14. c.window \in Beats
    BY <1>8, <1>13, BeatsClosed
  <1> QED  BY <1>14 DEF Apart

\* A pass that comes back with a key found no wait for the client and the
\* endpoint.
LEMMA GrantedNoWait ==
    ASSUME TypeOK, NEW r \in Requests, Enforced(r), NEW k \in Keys, Acquire(r, k)
    PROVE  /\ TimeUntilReset(client[ClientOf[r]], setup.client, now) = 0
           /\ TimeUntilReset(endpoint, setup.endpoint, now) = 0
  <1>1. /\ now \in Time /\ endpoint \in LimiterState /\ client[ClientOf[r]] \in LimiterState
        /\ setup.client \in LimiterConfig /\ setup.endpoint \in LimiterConfig
        /\ setup.key \in LimiterConfig
    BY TrafficAssumption DEF TypeOK, Setup
  <1>2. ClientWait(r) \in Nat /\ EndpointWait(r) \in Nat
    BY <1>1, ResetType DEF ClientWait, EndpointWait
  <1>3. ShortestKeyWait(r) \in Nat
    <2>1. \A j \in Keys : KeyWait(keyLimiter[j], setup.key, now, Enforced(r)) \in Nat
      <3> SUFFICES ASSUME NEW j \in Keys
                   PROVE  KeyWait(keyLimiter[j], setup.key, now, Enforced(r)) \in Nat
        OBVIOUS
      <3> DEFINE l     == keyLimiter[j]
                 reset == TimeUntilReset(l, setup.key, now)
                 rest  == TimeUntilUnlocked(l, now)
      <3>1. l \in LimiterState
        BY DEF TypeOK
      <3>2. reset \in Nat
        BY <1>1, <3>1, ResetType
      <3>3. rest \in Nat
        BY <1>1, <3>1 DEF TimeUntilUnlocked, Larger, LimiterState, Time
      <3>4. KeyWait(l, setup.key, now, Enforced(r)) = IF Locked(l, now) THEN Larger(reset, rest) ELSE reset
        BY DEF KeyWait
      <3> HIDE DEF l, reset, rest
      <3>5. KeyWait(l, setup.key, now, Enforced(r)) \in Nat
        BY <3>2, <3>3, <3>4 DEF Larger
      <3> QED  BY <3>5 DEF l
    <2>2. KeyWaits(r) \in SUBSET Nat /\ KeyWaits(r) # {}
      BY <2>1 DEF KeyWaits
    <2> QED  BY <2>2, LeastChosen DEF ShortestKeyWait
  <1>4. ~ (Wait(r) > 0)
    BY TrafficAssumption DEF Acquire, Outcomes
  <1>5. ClientWait(r) = 0 /\ EndpointWait(r) = 0
    BY <1>2, <1>3, <1>4 DEF Wait, Larger
  <1> QED  BY <1>5 DEF ClientWait, EndpointWait

---------------------------------------------------------------------------
(* What a step does to an outer limiter.                                   *)

LEMMA CleanedBeats ==
    ASSUME NEW ts \in Seq(Time), ts \in Seq(Beats), NEW start \in Int
    PROVE  Cleaned(ts, start) \in Seq(Beats)
  <1> DEFINE p == Popped(ts, start)
  <1>1. p \in 0..Len(ts) /\ Len(ts) \in Nat
    BY PoppedType, LenProperties
  <1> HIDE DEF p
  <1>2. \A i \in (p + 1)..Len(ts) : ts[i] \in Beats
    BY <1>1, ElementOfSeq
  <1>3. SubSeq(ts, p + 1, Len(ts)) \in Seq(Beats)
    BY <1>1, <1>2, SubSeqProperties
  <1> QED  BY <1>3 DEF Cleaned, p

LEMMA CheckedOuter ==
    ASSUME TypeOK, NEW l \in LimiterState, NEW c \in LimiterConfig, NEW r, Outer(l, c)
    PROVE  Outer(Checked(l, c, r), c)
  <1>1. /\ c.window \in Int /\ c.limit \in Nat /\ now \in Int /\ now - c.window \in Int
        /\ l.ts \in Seq(Time) /\ l.ts \in Seq(Beats)
    BY DEF TypeOK, LimiterConfig, LimiterState, Time, Outer
  <1> DEFINE m == AfterIsLimited(l, c, now)
  <1>2. /\ m \in LimiterState /\ m.ts \in {l.ts, Cleaned(l.ts, now - c.window)}
        /\ m.lockedUntil = l.lockedUntil /\ m.blockedUntil = l.blockedUntil
        /\ Len(m.ts) <= Len(l.ts)
    BY <1>1, AfterIsLimitedProperties
  <1>3. Cleaned(l.ts, now - c.window) \in Seq(Beats)
    BY <1>1, CleanedBeats
  <1>4. Checked(l, c, r) \in {l, m}
    BY DEF Checked
  <1> HIDE DEF m
  <1>5. Bounded(m.ts, c)
    <2>1. m.ts \in Seq(Time)
      BY <1>2 DEF LimiterState
    <2> QED  BY <1>1, <1>2, <2>1, LenProperties DEF Outer, Bounded
  <1>6. Outer(m, c)
    BY <1>1, <1>2, <1>3, <1>5 DEF Outer
  <1> QED  BY <1>4, <1>6

LEMMA RecordedOuter ==
    ASSUME TypeOK, now \in Beats, NEW r \in Requests, NEW l \in LimiterState,
           NEW c \in LimiterConfig, Apart(c), Outer(l, c),
           Enforced(r) => TimeUntilReset(l, c, now) = 0
    PROVE  Outer(Recorded(Checked(l, c, r), r), c)
  <1> DEFINE m == Checked(l, c, r)
  <1>1. m \in LimiterState /\ Outer(m, c)
    BY CheckedOuter, CheckedProperties DEF TypeOK
  <1>2. ~Unlimited(c) /\ Enforced(r) => Len(m.ts) < c.limit
    BY NoWaitRoom DEF Checked
  <1> HIDE DEF m
  <1>3. CASE ~Enforced(r)
    BY <1>1, <1>3 DEF Recorded, m
  <1>4. CASE Enforced(r)
    <2>1. m.ts \in Seq(Time) /\ m.ts \in Seq(Beats) /\ c.limit \in Nat
      BY <1>1 DEF LimiterState, Outer, LimiterConfig
    <2>2. Append(m.ts, now) \in Seq(Beats) /\ Len(Append(m.ts, now)) = Len(m.ts) + 1 /\ Len(m.ts) \in Nat
      BY <2>1, AppendProperties, LenProperties
    <2>3. Bounded(Append(m.ts, now), c)
      BY <1>2, <1>4, <2>1, <2>2 DEF Bounded
    <2>4. Recorded(m, r) = [m EXCEPT !.ts = Append(m.ts, now)]
      BY <1>4 DEF Recorded, Record
    <2>5. Outer(Recorded(m, r), c)
      BY <1>1, <2>2, <2>3, <2>4 DEF Outer, LimiterState
    <2> QED  BY <2>5 DEF m
  <1> QED  BY <1>3, <1>4

LEMMA ReleasedOuter ==
    ASSUME TypeOK, NEW l \in LimiterState, NEW c \in LimiterConfig, Outer(l, c)
    PROVE  Outer(Release(l), c)
  <1>1. now \in Int /\ c.limit \in Nat /\ l.ts \in Seq(Time) /\ l.ts \in Seq(Beats)
    BY DEF TypeOK, LimiterConfig, LimiterState, Time, Outer
  <1>2. /\ Release(l) \in LimiterState /\ Len(Release(l).ts) <= Len(l.ts)
        /\ Release(l).lockedUntil = l.lockedUntil /\ Release(l).blockedUntil = l.blockedUntil
    BY <1>1, ReleaseProperties
  <1>3. Release(l).ts \in Seq(Beats)
    <2>1. CASE l.ts = <<>>
      BY <1>1, <2>1 DEF Release
    <2>2. CASE l.ts # <<>>
      <3> DEFINE rest == SubSeq(l.ts, 1, Len(l.ts) - 1)
      <3>1. Len(l.ts) \in Nat /\ \A i \in 1..(Len(l.ts) - 1) : l.ts[i] \in Beats
        BY <1>1, LenProperties, ElementOfSeq
      <3>2. rest \in Seq(Beats)
        BY <3>1, SubSeqProperties
      <3>3. Release(l) = [l EXCEPT !.ts = rest]
        BY <2>2 DEF Release
      <3> HIDE DEF rest
      <3> QED  BY <3>2, <3>3 DEF LimiterState
    <2> QED  BY <2>1, <2>2
  <1>4. Bounded(Release(l).ts, c)
    <2>1. Release(l).ts \in Seq(Time)
      BY <1>2 DEF LimiterState
    <2> QED  BY <1>1, <1>2, <2>1, LenProperties DEF Outer, Bounded
  <1> QED  BY <1>2, <1>3, <1>4 DEF Outer

LEMMA OuterInit == Init => OuterInv
  <1> SUFFICES ASSUME Init PROVE OuterInv
    OBVIOUS
  <1>1. setup \in Setups /\ setup.endpoint.limit \in Nat /\ setup.client.limit \in Nat
    BY TrafficAssumption DEF Init, Setup, LimiterConfig
  <1>2. now \in Beats
    BY BeatsClosed, TrafficAssumption DEF Init
  <1>3. \A c : c.limit \in Nat => Outer(NewLimiter, c)
    BY EmptySeq DEF Outer, Bounded, NewLimiter
  <1> QED  BY <1>1, <1>2, <1>3 DEF Init, OuterInv

LEMMA OuterNext ==
    ASSUME WindowsApart, IInv, OuterInv, [Next]_vars
    PROVE  OuterInv'
  <1> USE DEF IInv
  <1>1. /\ setup.endpoint \in LimiterConfig /\ setup.client \in LimiterConfig
        /\ Apart(setup.endpoint) /\ Apart(setup.client)
    BY DEF TypeOK, Setup, OuterInv, WindowsApart
  <1>2. endpoint \in LimiterState /\ \A c \in Clients : client[c] \in LimiterState
    BY DEF TypeOK
  <1>3. ASSUME NEW r \in Requests, NEW k \in Keys, Acquire(r, k) PROVE OuterInv'
    <2>1. Outer(endpoint', setup.endpoint)
      BY <1>1, <1>2, <1>3, GrantedNoWait, RecordedOuter DEF OuterInv, Acquire
    <2>2. \A c \in Clients : Outer(client'[c], setup.client)
      <3> SUFFICES ASSUME NEW c \in Clients PROVE Outer(client'[c], setup.client)
        OBVIOUS
      <3>1. CASE c = ClientOf[r]
        <4>1. client'[c] = Recorded(Checked(client[c], setup.client, r), r)
          BY <1>3, <3>1 DEF Acquire, TypeOK
        <4>2. Enforced(r) => TimeUntilReset(client[c], setup.client, now) = 0
          BY <1>3, <3>1, GrantedNoWait
        <4> QED  BY <1>1, <1>2, <4>1, <4>2, RecordedOuter DEF OuterInv
      <3>2. CASE c # ClientOf[r]
        BY <1>3, <3>2 DEF Acquire, TypeOK, OuterInv
      <3> QED  BY <3>1, <3>2
    <2> QED  BY <1>3, <2>1, <2>2 DEF Acquire, OuterInv
  <1>4. ASSUME NEW r \in Requests, Refuse(r) PROVE OuterInv'
    <2>1. endpoint' \in {endpoint, Checked(endpoint, setup.endpoint, r)}
      BY <1>4 DEF Refuse
    <2>2. \A c \in Clients : client'[c] \in {client[c], Checked(client[c], setup.client, r)}
      BY <1>4 DEF Refuse, TypeOK
    <2>3. Outer(endpoint', setup.endpoint) /\ \A c \in Clients : Outer(client'[c], setup.client)
      BY <1>1, <1>2, <2>1, <2>2, CheckedOuter DEF OuterInv
    <2> QED  BY <1>4, <2>3 DEF Refuse, OuterInv
  <1>5. ASSUME NEW r \in Requests, Succeed(r) PROVE OuterInv'
    BY <1>5 DEF Succeed, OuterInv
  <1>6. ASSUME NEW r \in Requests, Refund(r), UNCHANGED <<now, setup>> PROVE OuterInv'
    <2>1. endpoint' \in {endpoint, Release(endpoint)}
      BY <1>6 DEF Refund
    <2>2. \A c \in Clients : client'[c] \in {client[c], Release(client[c])}
      BY <1>6 DEF Refund, TypeOK
    <2>3. Outer(endpoint', setup.endpoint) /\ \A c \in Clients : Outer(client'[c], setup.client)
      BY <1>1, <1>2, <2>1, <2>2, ReleasedOuter DEF OuterInv
    <2> QED  BY <1>6, <2>3 DEF OuterInv
  <1>7. ASSUME NEW r \in Requests, Fail(r) PROVE OuterInv'
    BY <1>6, <1>7 DEF Fail
  <1>8. ASSUME NEW r \in Requests, NEW d \in CoolDowns, FailAndBlock(r, d) PROVE OuterInv'
    BY <1>6, <1>8 DEF FailAndBlock
  <1>9. ASSUME NEW r \in Requests, NEW d \in CoolDowns, Keep(r, d) PROVE OuterInv'
    BY <1>9 DEF Keep, OuterInv
  <1>10. ASSUME NEW r \in Requests, CloseFails(r) PROVE OuterInv'
    BY <1>6, <1>10 DEF CloseFails
  <1>11. CASE Tick
    BY <1>11, BeatsClosed DEF Tick, OuterInv
  <1>12. CASE UNCHANGED vars
    BY <1>12 DEF vars, OuterInv
  <1> QED  BY <1>3, <1>4, <1>5, <1>7, <1>8, <1>11, <1>12, <1>9, <1>10 DEF Next

\* Without calls at the very end of a window the endpoint's and the clients'
\* limiters stay within their bounds, whatever is refunded.
THEOREM OuterInvariant == ASSUME WindowsApart PROVE Spec => []OuterInv
  <1>1. Init => OuterInv
    BY OuterInit
  <1>2. IInv /\ OuterInv /\ [Next]_vars => OuterInv'
    BY OuterNext
  <1> QED  BY <1>1, <1>2, Invariance, PTL DEF Spec

\* If no call falls exactly on the end of a window, the endpoint admits no more
\* in a window than its limit and the refunds made in it (control.py
\* try_acquire_key, _check_for_proxy_limit, release_endpoint).
THEOREM EndpointWindowKept == ASSUME WindowsApart PROVE Spec => []EndpointWindow
  <1>1. ASSUME IInv, WInv, OuterInv PROVE EndpointWindow
    <2>1. Requests \in SUBSET Requests /\ Requests \ Exempt = EndpointUsers
      BY DEF EndpointUsers
    <2> DEFINE credit == CreditOf(Requests \ Exempt, refundedAt, Requests \ Exempt, closedAt)
    <2>3. EndpointCredit = credit
      BY <2>1 DEF EndpointCredit
    <2> HIDE DEF credit
    <2>2. /\ TypeOK /\ setup.endpoint \in LimiterConfig /\ endpoint.ts \in Seq(Time)
          /\ Bounded(endpoint.ts, setup.endpoint)
          /\ Sound(Requests \ Exempt, endpoint.ts, setup.endpoint, credit)
      BY <1>1, <2>1, <2>3 DEF IInv, WInv, TypeOK, Setup, LimiterState, OuterInv, Outer, Sums
    <2> QED  BY <2>1, <2>2, SoundAdmitted DEF EndpointWindow, credit
  <1> QED  BY <1>1, OuterInvariant, Invariance, SumsInvariant, PTL

\* Nor does a client, whatever the other clients of the endpoint do (control.py
\* _check_for_proxy_limit, release_ip, release_user).
THEOREM ClientWindowKept == ASSUME WindowsApart PROVE Spec => []ClientWindow
  <1>1. ASSUME IInv, WInv, OuterInv, NEW c \in Clients
        PROVE  Admitted(AttemptsOf(c), AttemptsOf(c), setup.client)
    <2> DEFINE S      == AttemptsOf(c)
               credit == CreditOf(S \ Exempt, refundedAt, S \ Exempt, closedAt)
    <2>1. S \in SUBSET Requests /\ S \ Exempt = ClientUsers(c)
      BY DEF ClientUsers, AttemptsOf
    <2> HIDE DEF S
    <2>2. ClientCredit(c) = credit
      BY <2>1 DEF ClientCredit
    <2> HIDE DEF credit
    <2>3. /\ TypeOK /\ setup.client \in LimiterConfig /\ client[c].ts \in Seq(Time)
          /\ Bounded(client[c].ts, setup.client)
          /\ Sound(S \ Exempt, client[c].ts, setup.client, credit)
      BY <1>1, <2>1, <2>2 DEF IInv, WInv, TypeOK, Setup, LimiterState, OuterInv, Outer, Sums
    <2>4. Admitted(S, S, setup.client)
      BY <2>1, <2>3, SoundAdmitted DEF credit
    <2> QED  BY <2>4 DEF S
  <1>2. IInv /\ WInv /\ OuterInv => ClientWindow
    BY <1>1 DEF ClientWindow
  <1> QED  BY <1>2, OuterInvariant, Invariance, SumsInvariant, PTL

---------------------------------------------------------------------------
(* Waiting.                                                                *)

\* Every deque is in the order of the clock.
Ordered ==
    /\ \A k \in Keys : InOrder(keyLimiter[k].ts, now)
    /\ InOrder(endpoint.ts, now)
    /\ \A c \in Clients : InOrder(client[c].ts, now)

LEMMA OrderInit == Init => Ordered
  BY EmptySeq DEF Init, Ordered, NewLimiter, InOrder

\* What the operations do to the order of a deque.
LEMMA KeepOrder ==
    ASSUME TypeOK, NEW l \in LimiterState, NEW c \in LimiterConfig, NEW r, InOrder(l.ts, now)
    PROVE  /\ InOrder(Checked(l, c, r).ts, now)
           /\ InOrder(Recorded(Checked(l, c, r), r).ts, now)
           /\ InOrder(Release(l).ts, now)
  <1>1. now \in Int /\ now \in Time /\ c.window \in Int
    BY DEF TypeOK, LimiterConfig, Time
  <1>2. Checked(l, c, r) \in LimiterState
    BY <1>1, CheckedProperties
  <1>3. InOrder(Checked(l, c, r).ts, now)
    BY <1>1, AfterIsLimitedProperties DEF Checked
  <1>4. InOrder(Recorded(Checked(l, c, r), r).ts, now)
    BY <1>1, <1>2, <1>3, RecordProperties DEF Recorded
  <1>5. InOrder(Release(l).ts, now)
    BY <1>1, ReleaseProperties
  <1> QED  BY <1>3, <1>4, <1>5

LEMMA OrderNext == ASSUME IInv, Ordered, [Next]_vars PROVE Ordered'
  <1> USE DEF IInv
  <1>1. /\ setup.endpoint \in LimiterConfig /\ setup.client \in LimiterConfig
        /\ setup.key \in LimiterConfig
    BY DEF TypeOK, Setup
  <1>2. /\ endpoint \in LimiterState /\ \A c \in Clients : client[c] \in LimiterState
        /\ \A k \in Keys : keyLimiter[k] \in LimiterState
    BY DEF TypeOK
  <1>3. ASSUME NEW r \in Requests, NEW k \in Keys, Acquire(r, k) PROVE Ordered'
    <2>1. InOrder(endpoint'.ts, now)
      BY <1>1, <1>2, <1>3, KeepOrder DEF Ordered, Acquire
    <2>2. \A c \in Clients : client'[c] \in {client[c], Recorded(Checked(client[c], setup.client, r), r)}
      BY <1>3 DEF Acquire, TypeOK
    <2>3. \A c \in Clients : InOrder(client'[c].ts, now)
      BY <1>1, <1>2, <2>2, KeepOrder DEF Ordered
    <2>4. \A j \in Keys : InOrder(keyLimiter'[j].ts, now)
      <3> SUFFICES ASSUME NEW j \in Keys PROVE InOrder(keyLimiter'[j].ts, now)
        OBVIOUS
      <3> DEFINE m == Checked(keyLimiter[j], setup.key, r)
      <3>1. InOrder(m.ts, now) /\ InOrder(Recorded(m, r).ts, now)
        BY <1>1, <1>2, KeepOrder DEF Ordered
      <3>2. m \in LimiterState /\ Recorded(m, r) \in LimiterState
        BY <1>1, <1>2, CheckedProperties, RecordedProperties DEF TypeOK
      <3>3. keyLimiter'[j] = IF j = k THEN RecordedAndLocked(m, r) ELSE m
        BY <1>3 DEF Acquire
      <3>4. RecordedAndLocked(m, r).ts = Recorded(m, r).ts
        <4> DEFINE n == Recorded(m, r)
        <4>1. RecordedAndLocked(m, r) = IF setup.concurrency THEN n
                                        ELSE [n EXCEPT !.lockedUntil = now + LockTTL]
          BY DEF RecordedAndLocked, Lock
        <4>2. n \in LimiterState
          BY <3>2
        <4> HIDE DEF n
        <4>3. RecordedAndLocked(m, r).ts = n.ts
          BY <4>1, <4>2 DEF LimiterState
        <4> QED  BY <4>3 DEF n
      <3> HIDE DEF m
      <3> QED  BY <3>1, <3>3, <3>4
    <2> QED  BY <1>3, <2>1, <2>3, <2>4 DEF Acquire, Ordered
  <1>4. ASSUME NEW r \in Requests, Refuse(r) PROVE Ordered'
    <2>1. endpoint' \in {endpoint, Checked(endpoint, setup.endpoint, r)}
      BY <1>4 DEF Refuse
    <2>2. \A c \in Clients : client'[c] \in {client[c], Checked(client[c], setup.client, r)}
      BY <1>4 DEF Refuse, TypeOK
    <2>3. \A k \in Keys : keyLimiter'[k] \in {keyLimiter[k], Checked(keyLimiter[k], setup.key, r)}
      BY <1>4 DEF Refuse
    <2>4. /\ InOrder(endpoint'.ts, now) /\ \A c \in Clients : InOrder(client'[c].ts, now)
          /\ \A k \in Keys : InOrder(keyLimiter'[k].ts, now)
      BY <1>1, <1>2, <2>1, <2>2, <2>3, KeepOrder DEF Ordered
    <2> QED  BY <1>4, <2>4 DEF Refuse, Ordered
  <1>5. \A l \in LimiterState : \A d : Unlock(l).ts = l.ts /\ BlockFor(l, now, d).ts = l.ts
    BY DEF Unlock, BlockFor, LimiterState
  <1>6. ASSUME NEW r \in Requests, Succeed(r) PROVE Ordered'
    <2>1. \A k \in Keys : keyLimiter'[k] \in {keyLimiter[k], Unlock(keyLimiter[k])}
      BY <1>6 DEF Succeed, TypeOK
    <2>2. \A k \in Keys : InOrder(keyLimiter'[k].ts, now)
      BY <1>2, <1>5, <2>1 DEF Ordered
    <2> QED  BY <1>6, <2>2 DEF Succeed, Ordered
  <1>7. ASSUME NEW r \in Requests, NEW k \in Keys, Refund(r), UNCHANGED now, NEW m,
               m.ts = ReleasedKey(k, r).ts, keyLimiter' = [keyLimiter EXCEPT ![k] = m]
        PROVE  Ordered'
    <2>1. endpoint' \in {endpoint, Release(endpoint)}
      BY <1>7 DEF Refund
    <2>2. \A c \in Clients : client'[c] \in {client[c], Release(client[c])}
      BY <1>7 DEF Refund, TypeOK
    <2>3. InOrder(endpoint'.ts, now) /\ \A c \in Clients : InOrder(client'[c].ts, now)
      BY <1>1, <1>2, <2>1, <2>2, KeepOrder DEF Ordered
    <2>4. InOrder(m.ts, now)
      <3>1. m.ts \in {keyLimiter[k].ts, Release(keyLimiter[k]).ts}
        BY <1>7, ReleasedKeyLeft DEF Left
      <3> QED  BY <1>1, <1>2, <1>7, <3>1, KeepOrder DEF Ordered
    <2>5. \A j \in Keys : InOrder(keyLimiter'[j].ts, now)
      BY <1>7, <2>4 DEF Ordered, TypeOK
    <2> QED  BY <1>7, <2>3, <2>5 DEF Ordered
  <1>8. ASSUME NEW r \in Requests, Fail(r) PROVE Ordered'
    <2>1. PICK k \in Keys : k = key[r]
      BY <1>8 DEF Fail, HasKey
    <2> QED  BY <1>7, <1>8, <2>1 DEF Fail
  <1>9. ASSUME NEW r \in Requests, NEW d \in CoolDowns, FailAndBlock(r, d) PROVE Ordered'
    <2>1. PICK k \in Keys : k = key[r]
      BY <1>9 DEF FailAndBlock, HasKey
    <2>2. BlockFor(ReleasedKey(k, r), now, d).ts = ReleasedKey(k, r).ts
      BY <1>5, <2>1, ReleasedKeyProperties
    <2> QED  BY <1>7, <1>9, <2>1, <2>2 DEF FailAndBlock
  <1>10. ASSUME NEW r \in Requests, NEW d \in CoolDowns, Keep(r, d) PROVE Ordered'
    <2>1. \A k \in Keys : keyLimiter'[k] \in {keyLimiter[k], BlockFor(keyLimiter[k], now, d)}
      BY <1>10 DEF Keep, TypeOK
    <2>2. \A k \in Keys : InOrder(keyLimiter'[k].ts, now)
      BY <1>2, <1>5, <2>1 DEF Ordered
    <2> QED  BY <1>10, <2>2 DEF Keep, Ordered
  <1>11. ASSUME NEW r \in Requests, CloseFails(r) PROVE Ordered'
    <2>1. PICK k \in Keys : k = apiKey[CallOf[r]]
      BY <1>11 DEF CloseFails, HasKey
    <2> QED  BY <1>7, <1>11, <2>1 DEF CloseFails
  <1>12. CASE Tick
    <2>1. now \in Nat /\ now' \in Nat /\ now <= now'
      BY <1>12, TrafficAssumption DEF Tick, TypeOK, Time
    <2>2. \A ts \in Seq(Time) : InOrder(ts, now) => InOrder(ts, now')
      <3> SUFFICES ASSUME NEW ts \in Seq(Time), InOrder(ts, now) PROVE InOrder(ts, now')
        OBVIOUS
      <3>1. \A i \in 1..Len(ts) : ts[i] \in Nat
        BY ElementOfSeq DEF Time
      <3> QED  BY <2>1, <3>1 DEF InOrder
    <2> QED  BY <1>2, <1>12, <2>2 DEF Tick, Ordered, LimiterState
  <1>13. CASE UNCHANGED vars
    BY <1>13 DEF vars, Ordered
  <1> QED  BY <1>3, <1>4, <1>6, <1>8, <1>9, <1>12, <1>13, <1>10, <1>11 DEF Next

\* A limiter that nobody uses stays free.
LEMMA StaysFree ==
    ASSUME NEW l \in LimiterState, NEW c \in LimiterConfig, NEW t \in Nat, NEW u \in Nat, t <= u,
           NEW enforce \in BOOLEAN, ~KeyUnavailable(l, c, t, enforce)
    PROVE  ~KeyUnavailable(l, c, u, enforce)
  <1>1. /\ l.lockedUntil \in Nat /\ l.blockedUntil \in Nat /\ c.limit \in Nat /\ c.window \in Nat
        /\ l.ts \in Seq(Time) /\ t - c.window \in Int /\ u - c.window \in Int
        /\ t - c.window <= u - c.window
    BY DEF LimiterState, LimiterConfig, Time
  <1>2. ~Locked(l, u) /\ ~Blocked(l, u)
    BY <1>1 DEF KeyUnavailable, Locked, Blocked
  <1>3. ASSUME enforce, ~Unlimited(c)
        PROVE  ~ (Len(Cleaned(l.ts, u - c.window)) >= c.limit)
    <2>1. ~ (Len(Cleaned(l.ts, t - c.window)) >= c.limit)
      BY <1>3 DEF KeyUnavailable, IsLimited
    <2>2. Popped(l.ts, t - c.window) <= Popped(l.ts, u - c.window)
      BY <1>1, PoppedMonotonic
    <2>3. /\ Len(Cleaned(l.ts, t - c.window)) = Len(l.ts) - Popped(l.ts, t - c.window)
          /\ Len(Cleaned(l.ts, u - c.window)) = Len(l.ts) - Popped(l.ts, u - c.window)
          /\ Popped(l.ts, t - c.window) \in Int /\ Popped(l.ts, u - c.window) \in Int
          /\ Len(l.ts) \in Int
      <3>1. \A s \in Int : /\ Len(Cleaned(l.ts, s)) = Len(l.ts) - Popped(l.ts, s)
                           /\ Popped(l.ts, s) \in 0..Len(l.ts)
        BY <1>1, CleanedProperties, PoppedType
      <3>2. Len(l.ts) \in Nat
        BY <1>1, LenProperties
      <3>3. /\ Popped(l.ts, t - c.window) \in 0..Len(l.ts)
            /\ Popped(l.ts, u - c.window) \in 0..Len(l.ts)
        BY <1>1, <3>1
      <3>4. /\ Len(Cleaned(l.ts, t - c.window)) = Len(l.ts) - Popped(l.ts, t - c.window)
            /\ Len(Cleaned(l.ts, u - c.window)) = Len(l.ts) - Popped(l.ts, u - c.window)
        BY <1>1, <3>1
      <3> QED  BY <3>2, <3>3, <3>4
    <2>4. PICK a, b, p, q : /\ a = Len(Cleaned(l.ts, t - c.window)) /\ p = Popped(l.ts, t - c.window)
                            /\ b = Len(Cleaned(l.ts, u - c.window)) /\ q = Popped(l.ts, u - c.window)
      OBVIOUS
    <2>5. /\ a = Len(l.ts) - p /\ b = Len(l.ts) - q /\ p \in Int /\ q \in Int /\ Len(l.ts) \in Int
          /\ p <= q /\ ~ (a >= c.limit) /\ c.limit \in Int
      BY ONLY <1>1, <2>1, <2>2, <2>3, <2>4
    <2>6. ~ (b >= c.limit)
      BY ONLY <2>5
    <2> QED  BY ONLY <2>4, <2>6
  <1> QED  BY <1>2, <1>3 DEF KeyUnavailable, IsLimited

\* The wait for a key, exempt requests included, is enough.
LEMMA WaitFrees ==
    ASSUME NEW l \in LimiterState, NEW c \in LimiterConfig, NEW t \in Nat,
           InOrder(l.ts, t), Bounded(l.ts, c), NEW enforce \in BOOLEAN
    PROVE  /\ KeyWait(l, c, t, enforce) \in Nat
           /\ ~KeyUnavailable(l, c, t + KeyWait(l, c, t, enforce) + 1, enforce)
  <1> DEFINE reset == IF enforce THEN TimeUntilReset(l, c, t) ELSE Larger(0, l.blockedUntil - t)
             rest  == TimeUntilUnlocked(l, t)
  <1>1. l.lockedUntil \in Nat /\ l.blockedUntil \in Nat /\ t \in Time
    BY DEF LimiterState, Time
  <1>2. reset \in Nat /\ rest \in Nat /\ rest >= l.lockedUntil - t
    BY <1>1, ResetType DEF TimeUntilUnlocked, Larger
  <1>3. KeyWait(l, c, t, enforce) = IF Locked(l, t) THEN Larger(reset, rest) ELSE reset
    BY DEF KeyWait
  <1>4. CASE enforce
    <2>1. c.limit \in Nat /\ c.window \in Nat
      BY DEF LimiterConfig
    <2>2. ~KeyUnavailable(l, c, t + KeyWait(l, c, t, TRUE) + 1, TRUE)
      BY <1>1, <2>1, KeyWaitSuffices DEF Bounded
    <2>3. KeyWait(l, c, t, enforce) \in Nat
      <3> HIDE DEF reset, rest
      <3> QED  BY <1>2, <1>3 DEF Larger
    <2>4. enforce = TRUE
      BY <1>4
    <2> QED  BY <2>2, <2>3, <2>4
  <1>5. CASE ~enforce
    <2>1. reset >= l.blockedUntil - t
      BY <1>1, <1>5 DEF Larger
    <2> HIDE DEF reset, rest
    <2>2. KeyWait(l, c, t, enforce) \in Nat
      BY <1>2, <1>3 DEF Larger
    <2> DEFINE wait == KeyWait(l, c, t, enforce)
    <2>3. wait >= l.blockedUntil - t /\ wait >= l.lockedUntil - t
      BY <1>1, <1>2, <1>3, <2>1 DEF Larger, Locked
    <2> HIDE DEF wait
    <2>4. wait \in Nat
      BY <2>2 DEF wait
    <2>5. ~Locked(l, t + wait + 1) /\ ~Blocked(l, t + wait + 1)
      BY <1>1, <2>3, <2>4 DEF Locked, Blocked
    <2>6. ~KeyUnavailable(l, c, t + wait + 1, enforce)
      BY <1>5, <2>5 DEF KeyUnavailable
    <2> QED  BY <2>2, <2>6 DEF wait
  <1> QED  BY <1>4, <1>5

\* The same for the endpoint and a client: they have no lock.
LEMMA OuterWaitFrees ==
    ASSUME NEW l \in LimiterState, NEW c \in LimiterConfig, NEW t \in Nat,
           InOrder(l.ts, t), Outer(l, c)
    PROVE  /\ TimeUntilReset(l, c, t) \in Nat
           /\ ~KeyUnavailable(l, c, t + TimeUntilReset(l, c, t) + 1, TRUE)
  <1>1. KeyWait(l, c, t, TRUE) = TimeUntilReset(l, c, t)
    BY DEF Outer, Locked, KeyWait
  <1>2. Bounded(l.ts, c)
    BY DEF Outer
  <1> QED  BY <1>1, <1>2, WaitFrees

\* A pass that is told to wait and is not disturbed finds its client, or the
\* endpoint and some key, ready at the end of the wait: no waiter sleeps in
\* vain, however many keys and requests there are (control.py
\* time_to_key_ready, _wait_for_key; limit.py time_until_reset).
THEOREM WaitsSuffice ==
    ASSUME WindowsApart
    PROVE  Spec => []WaitSuffices
  <1>1. Init => OuterInv /\ Ordered
    BY OuterInit, OrderInit
  <1>2. IInv /\ OuterInv /\ Ordered /\ [Next]_vars => OuterInv' /\ Ordered'
    BY OuterNext, OrderNext
  <1>3. ASSUME IInv, WInv, OuterInv, Ordered PROVE WaitSuffices
    <2> SUFFICES ASSUME NEW r \in Requests
                 PROVE  LET then == now + Wait(r) + 1
                        IN  IF ClientWait(r) > 0
                            THEN ~IsLimited(client[ClientOf[r]], setup.client, then)
                            ELSE /\ Enforced(r) => ~IsLimited(endpoint, setup.endpoint, then)
                                 /\ \E k \in Keys :
                                      ~KeyUnavailable(keyLimiter[k], setup.key, then, Enforced(r))
      BY DEF WaitSuffices
    <2>1. /\ now \in Nat /\ ClientOf[r] \in Clients /\ client[ClientOf[r]] \in LimiterState
          /\ endpoint \in LimiterState /\ \A k \in Keys : keyLimiter[k] \in LimiterState
          /\ setup.client \in LimiterConfig /\ setup.endpoint \in LimiterConfig
          /\ setup.key \in LimiterConfig /\ Enforced(r) \in BOOLEAN
      BY <1>3, TrafficAssumption DEF IInv, TypeOK, Setup, Time, Enforced
    <2>2. CASE ClientWait(r) > 0
      <3>1. Enforced(r) /\ ClientWait(r) = TimeUntilReset(client[ClientOf[r]], setup.client, now)
        BY <2>2 DEF ClientWait
      <3>2. ~KeyUnavailable(client[ClientOf[r]], setup.client, now + ClientWait(r) + 1, TRUE)
        BY <1>3, <2>1, <3>1, OuterWaitFrees DEF OuterInv, Ordered
      <3>3. Wait(r) = ClientWait(r)
        BY <2>2 DEF Wait
      <3> QED  BY <2>2, <3>2, <3>3 DEF KeyUnavailable
    <2>3. CASE ~ (ClientWait(r) > 0)
      <3>1. \A k \in Keys :
              /\ KeyWait(keyLimiter[k], setup.key, now, Enforced(r)) \in Nat
              /\ ~KeyUnavailable(keyLimiter[k], setup.key,
                    now + KeyWait(keyLimiter[k], setup.key, now, Enforced(r)) + 1, Enforced(r))
        BY <1>3, <2>1, WaitFrees DEF WInv, KeysBounded, Ordered
      <3>2. KeyWaits(r) \in SUBSET Nat /\ KeyWaits(r) # {}
        <4>1. KeyOrder[1] \in Keys
          BY TrafficAssumption, ElementOfSeq, LenProperties DEF N
        <4> QED  BY <3>1, <4>1 DEF KeyWaits
      <3>3. ShortestKeyWait(r) \in KeyWaits(r) /\ ShortestKeyWait(r) \in Nat
        BY <3>2, LeastChosen DEF ShortestKeyWait
      <3>4. PICK k \in Keys : ShortestKeyWait(r) = KeyWait(keyLimiter[k], setup.key, now, Enforced(r))
        BY <3>3 DEF KeyWaits
      <3>5. EndpointWait(r) \in Nat
        BY <1>3, <2>1, OuterWaitFrees DEF EndpointWait, OuterInv, Ordered
      <3>6. /\ Wait(r) \in Nat /\ EndpointWait(r) <= Wait(r) /\ ShortestKeyWait(r) <= Wait(r)
        BY <2>3, <3>3, <3>5 DEF Wait, Larger
      <3> DEFINE then == now + Wait(r) + 1
                 early == now + ShortestKeyWait(r) + 1
                 soon  == now + EndpointWait(r) + 1
      <3>7. then \in Nat /\ early \in Nat /\ soon \in Nat /\ early <= then /\ soon <= then
        BY <2>1, <3>3, <3>5, <3>6
      <3>8. ~KeyUnavailable(keyLimiter[k], setup.key, early, Enforced(r))
        BY <3>1, <3>4
      <3>9. Enforced(r) => ~KeyUnavailable(endpoint, setup.endpoint, soon, TRUE)
        BY <1>3, <2>1, OuterWaitFrees DEF EndpointWait, OuterInv, Ordered
      <3> HIDE DEF then, early, soon
      <3>10. ~KeyUnavailable(keyLimiter[k], setup.key, then, Enforced(r))
        <4>1. PICK l \in LimiterState : l = keyLimiter[k]
          BY <2>1
        <4>2. ~KeyUnavailable(l, setup.key, early, Enforced(r))
          BY <3>8, <4>1
        <4>3. ~KeyUnavailable(l, setup.key, then, Enforced(r))
          BY <2>1, <3>7, <4>2, StaysFree
        <4> QED  BY <4>1, <4>3
      <3>11. Enforced(r) => ~KeyUnavailable(endpoint, setup.endpoint, then, TRUE)
        BY <2>1, <3>7, <3>9, StaysFree
      <3> QED  BY <2>3, <3>10, <3>11 DEF KeyUnavailable, then
    <2> QED  BY <2>2, <2>3
  <1>4. IInv /\ WInv /\ OuterInv /\ Ordered => WaitSuffices
    BY <1>3
  <1> QED  BY <1>1, <1>2, <1>4, Invariance, SumsInvariant, PTL DEF Spec

---------------------------------------------------------------------------
(* Refinement: the limiter of each key and the requests that use it are an *)
(* execution of RateLimiter, whatever the other keys, the endpoint, the    *)
(* clients and the balancer do.  A grant of one key is at most a check of  *)
(* the others, and a refused pass a check of any of them.                  *)

\* An attempt that has no key yet made no second release either.
Fresh == \A r \in Requests : status[r] = "new" => closedAt[r] = 0

LEMMA FreshInit == Init => Fresh
  BY DEF Init, Fresh

LEMMA FreshNext == ASSUME IInv, Fresh, [Next]_vars PROVE Fresh'
  <1> USE DEF Fresh, IInv
  <1>1. ASSUME NEW r \in Requests, NEW k \in Keys, Acquire(r, k) PROVE Fresh'
    BY <1>1 DEF Acquire, TypeOK
  <1>2. ASSUME NEW r \in Requests, Refuse(r) PROVE Fresh'
    BY <1>2 DEF Refuse, history
  <1>3. ASSUME NEW r \in Requests, Succeed(r) PROVE Fresh'
    BY <1>3 DEF Succeed, history, TypeOK
  <1>4. ASSUME NEW r \in Requests, Fail(r) PROVE Fresh'
    BY <1>4 DEF Fail, TypeOK
  <1>5. ASSUME NEW r \in Requests, NEW d \in CoolDowns, FailAndBlock(r, d) PROVE Fresh'
    BY <1>5 DEF FailAndBlock, TypeOK
  <1>6. ASSUME NEW r \in Requests, NEW d \in CoolDowns, Keep(r, d) PROVE Fresh'
    BY <1>6 DEF Keep, history, TypeOK
  <1>7. ASSUME NEW r \in Requests, CloseFails(r) PROVE Fresh'
    BY <1>7 DEF CloseFails, TypeOK
  <1>8. CASE Tick
    BY <1>8 DEF Tick
  <1>9. CASE UNCHANGED vars
    BY <1>9 DEF vars, history
  <1> QED  BY <1>1, <1>2, <1>3, <1>4, <1>5, <1>6, <1>7, <1>8, <1>9 DEF Next

\* The operators of a limiter read a key's limit and window only.
LEMMA SameQueries ==
    ASSUME NEW k, NEW l, NEW n
    PROVE  /\ KeyLimiter(k)!IsLimited(l, ConfigOf(setup), n) <=> IsLimited(l, setup.key, n)
           /\ KeyLimiter(k)!AfterIsLimited(l, ConfigOf(setup), n)
                = AfterIsLimited(l, setup.key, n)
  <1> DEFINE c == setup.key
             d == ConfigOf(setup)
  <1>1. d.limit = c.limit /\ d.window = c.window
    BY DEF ConfigOf
  <1>2. KeyLimiter(k)!Unlimited(d) <=> Unlimited(c)
    BY <1>1 DEF KeyLimiter!Unlimited, Unlimited
  <1>3. /\ KeyLimiter(k)!Locked(l, n) <=> Locked(l, n)
        /\ KeyLimiter(k)!Blocked(l, n) <=> Blocked(l, n)
    BY DEF KeyLimiter!Locked, Locked, KeyLimiter!Blocked, Blocked
  <1>4. ASSUME NEW ts, NEW start
        PROVE  KeyLimiter(k)!Cleaned(ts, start) = Cleaned(ts, start)
    <2> DEFINE old == {i \in DOMAIN ts : \A j \in 1..i : ts[j] < start}
    <2>0. KeyLimiter(k)!Cardinality(old) = Cardinality(old)
      <3> HIDE DEF old
      <3> QED  BY DEF KeyLimiter!Cardinality, Cardinality
    <2>1. KeyLimiter(k)!Popped(ts, start) = Popped(ts, start)
      BY <2>0, Zenon DEF KeyLimiter!Popped, Popped
    <2> QED  BY <2>1, Zenon DEF KeyLimiter!Cleaned, Cleaned
  <1> HIDE DEF c, d
  <1>5. KeyLimiter(k)!IsLimited(l, d, n) <=> IsLimited(l, c, n)
    BY <1>1, <1>2, <1>3, <1>4 DEF KeyLimiter!IsLimited, IsLimited
  <1>6. KeyLimiter(k)!AfterIsLimited(l, d, n) = AfterIsLimited(l, c, n)
    BY <1>1, <1>2, <1>3, <1>4 DEF KeyLimiter!AfterIsLimited, AfterIsLimited
  <1> QED  BY <1>5, <1>6 DEF c, d

LEMMA SameUpdates ==
    ASSUME NEW k, NEW l
    PROVE  /\ KeyLimiter(k)!Record(l, now) = Record(l, now)
           /\ KeyLimiter(k)!Lock(l, now, LockTTL) = Lock(l, now, LockTTL)
           /\ KeyLimiter(k)!Unlock(l) = Unlock(l)
           /\ KeyLimiter(k)!Release(l) = Release(l)
           /\ \A d : KeyLimiter(k)!BlockFor(l, now, d) = BlockFor(l, now, d)
  BY DEF KeyLimiter!Record, Record, KeyLimiter!Lock, Lock, KeyLimiter!Unlock, Unlock,
         KeyLimiter!Release, Release, KeyLimiter!BlockFor, BlockFor, KeyLimiter!Larger, Larger

LEMMA ImplementsInit == ASSUME Init, NEW k \in Keys PROVE KeyLimiter(k)!Init
  <1>1. ConfigOf(setup) \in {ConfigOf(s) : s \in Setups}
    BY DEF Init
  <1>2. NoKey # k
    BY TrafficAssumption
  <1>3. /\ StatusAt(k) = [r \in Requests |-> "new"]
        /\ TimesAt(k, key, grantedAt) = [r \in Requests |-> 0]
        /\ TimesAt(k, key, refundedAt) = [r \in Requests |-> 0]
        /\ TimesAt(k, closedKey, closedAt) = [r \in Requests |-> 0]
    BY <1>2 DEF Init, StatusAt, TimesAt
  <1>4. keyLimiter[k] = KeyLimiter(k)!NewLimiter /\ keyLimiter[k].blockedUntil = 0
    BY DEF Init, NewLimiter, KeyLimiter!NewLimiter
  <1>5. now = Step /\ expiries[k] = 0 /\ stolen[k] = 0
    BY DEF Init
  <1> QED  BY <1>1, <1>3, <1>4, <1>5 DEF KeyLimiter!Init

\* What the limiter of key k sees of the attempts.
View(k) == <<StatusAt(k), TimesAt(k, key, grantedAt), TimesAt(k, key, refundedAt),
             TimesAt(k, closedKey, closedAt), ConfigOf(setup)>>

LEMMA SameView ==
    ASSUME NEW k \in Keys,
           UNCHANGED <<setup, status, key, grantedAt, refundedAt, closedAt, closedKey>>
    PROVE  View(k)' = View(k)
  BY DEF View, StatusAt, TimesAt, ConfigOf

\* A step that leaves the deque to a check and a key's attempts alone is a check
\* of that key, or no step of it.
LEMMA CheckOrNothing ==
    ASSUME NEW k \in Keys, NEW r,
           keyLimiter'[k] = Checked(keyLimiter[k], setup.key, r) \/ keyLimiter'[k] = keyLimiter[k],
           View(k)' = View(k), expiries'[k] = expiries[k], stolen'[k] = stolen[k],
           UNCHANGED now
    PROVE  [KeyLimiter(k)!Next]_(KeyLimiter(k)!vars)
  <1>1. /\ StatusAt(k)' = StatusAt(k) /\ TimesAt(k, key, grantedAt)' = TimesAt(k, key, grantedAt)
        /\ TimesAt(k, key, refundedAt)' = TimesAt(k, key, refundedAt)
        /\ TimesAt(k, closedKey, closedAt)' = TimesAt(k, closedKey, closedAt)
        /\ ConfigOf(setup)' = ConfigOf(setup)
    BY DEF View
  <1>2. CASE keyLimiter'[k] = keyLimiter[k]
    BY <1>1, <1>2 DEF KeyLimiter!vars
  <1>3. CASE keyLimiter'[k] # keyLimiter[k]
    <2>1. keyLimiter'[k] = AfterIsLimited(keyLimiter[k], setup.key, now)
      BY <1>3 DEF Checked
    <2>2. keyLimiter'[k].blockedUntil = keyLimiter[k].blockedUntil
      BY <2>1 DEF AfterIsLimited
    <2>3. KeyLimiter(k)!Check
      BY <1>1, <1>3, <2>1, <2>2, SameQueries DEF KeyLimiter!Check
    <2> QED  BY <2>3 DEF KeyLimiter!Next
  <1> QED  BY <1>2, <1>3

\* The grant's key is one that try_acquire_key found available, so that nobody
\* was told to wait for it.
LEMMA AvailableNow ==
    ASSUME IInv, NEW k \in Keys, NEW r, Usable(r, k)
    PROVE  /\ KeyLimiter(k)!KeyWait(keyLimiter[k], ConfigOf(setup), now, Enforced(r)) = 0
           /\ ~KeyLimiter(k)!KeyUnavailable(keyLimiter[k], ConfigOf(setup), now, Enforced(r))
  <1> DEFINE l == keyLimiter[k]
             d == ConfigOf(setup)
  <1>1. /\ l.lockedUntil \in Nat /\ l.blockedUntil \in Nat /\ now \in Nat
    BY DEF IInv, TypeOK, LimiterState, Time
  <1>2. /\ ~KeyLimiter(k)!Locked(l, now) /\ ~KeyLimiter(k)!Blocked(l, now)
        /\ Enforced(r) => ~KeyLimiter(k)!IsLimited(l, d, now)
    BY SameQueries DEF Usable, KeyUnavailable, Locked, Blocked, KeyLimiter!Locked, KeyLimiter!Blocked
  <1> HIDE DEF l, d
  <1>3. KeyLimiter(k)!Larger(0, l.blockedUntil - now) = 0
    BY <1>1, <1>2 DEF KeyLimiter!Blocked, KeyLimiter!Larger
  <1>4. Enforced(r) => KeyLimiter(k)!TimeUntilReset(l, d, now) = 0
    BY <1>2 DEF KeyLimiter!TimeUntilReset
  <1>5. KeyLimiter(k)!KeyWait(l, d, now, Enforced(r)) = 0
    BY <1>2, <1>3, <1>4 DEF KeyLimiter!KeyWait
  <1>6. ~KeyLimiter(k)!KeyUnavailable(l, d, now, Enforced(r))
    BY <1>2 DEF KeyLimiter!KeyUnavailable
  <1> QED  BY <1>5, <1>6 DEF l, d

\* A grant uses the key that was granted, and is at most a check of the others.
LEMMA AcquireImplements ==
    ASSUME IInv, WInv, Fresh, NEW r \in Requests, NEW j \in Keys, Acquire(r, j), NEW k \in Keys
    PROVE  [KeyLimiter(k)!Next]_(KeyLimiter(k)!vars)
  <1>1. /\ index \in 1..N /\ status \in [Requests -> Statuses]
        /\ key \in [Requests -> Keys \cup {NoKey}] /\ grantedAt \in [Requests -> Time]
    BY DEF IInv, TypeOK
  <1>2. /\ key[r] = NoKey /\ NoKey # k /\ refundedAt[r] = 0 /\ status[r] = "new"
        /\ closedKey[r] = NoKey
    BY TrafficAssumption DEF Fresh, Acquire, Waiting, WInv, Times
  <1>3. CASE k # j
    <2>1. View(k)' = View(k)
      BY <1>1, <1>2, <1>3 DEF Acquire, View, StatusAt, TimesAt, ConfigOf
    <2>2. keyLimiter'[k] = Checked(keyLimiter[k], setup.key, r)
      BY <1>3 DEF Acquire
    <2> QED  BY <2>1, <2>2, CheckOrNothing DEF Acquire
  <1>4. CASE k = j
    <2>1. /\ StatusAt(k)[r] = "new"
          /\ StatusAt(k)' = [StatusAt(k) EXCEPT ![r] = "held"]
          /\ TimesAt(k, key, grantedAt)' = [TimesAt(k, key, grantedAt) EXCEPT ![r] = now]
          /\ TimesAt(k, key, refundedAt)' = TimesAt(k, key, refundedAt)
          /\ TimesAt(k, closedKey, closedAt)' = TimesAt(k, closedKey, closedAt)
      BY <1>1, <1>2, <1>4 DEF Acquire, StatusAt, TimesAt
    <2>2. Usable(r, k)
      BY <1>1, <1>4, OutcomeUsable DEF Acquire
    <2>3. KeyLimiter(k)!Enforced(r) <=> Enforced(r)
      BY DEF KeyLimiter!Enforced, Enforced
    <2>4. ConfigOf(setup).concurrency = setup.concurrency
      BY DEF ConfigOf
    <2> DEFINE l == Checked(keyLimiter[k], setup.key, r)
    <2>5. keyLimiter'[k] = RecordedAndLocked(l, r)
      BY <1>4 DEF Acquire
    <2>6. KeyLimiter(k)!Looked(r) = l
      BY <2>3, SameQueries DEF KeyLimiter!Looked, Checked
    <2>7. l.blockedUntil = keyLimiter[k].blockedUntil
      BY DEF Checked, AfterIsLimited
    <2> HIDE DEF l
    <2>8. KeyLimiter(k)!Used(l, r) = RecordedAndLocked(l, r)
      BY <2>3, <2>4, SameUpdates
      DEF KeyLimiter!Used, KeyLimiter!Exclusive, RecordedAndLocked, Recorded
    <2>9. RecordedAndLocked(l, r).blockedUntil = l.blockedUntil
      BY DEF RecordedAndLocked, Recorded, Record, Lock
    <2>10. /\ KeyLimiter(k)!KeyWait(keyLimiter[k], ConfigOf(setup), now, KeyLimiter(k)!Enforced(r)) = 0
           /\ ~KeyLimiter(k)!KeyUnavailable(keyLimiter[k], ConfigOf(setup), now,
                                            KeyLimiter(k)!Enforced(r))
      BY <2>2, AvailableNow DEF KeyLimiter!Enforced, Enforced
    <2>11. keyLimiter'[k] = KeyLimiter(k)!Used(KeyLimiter(k)!Looked(r), r)
      BY <2>5, <2>6, <2>8
    <2>12. /\ keyLimiter'[k].blockedUntil = keyLimiter[k].blockedUntil
           /\ ConfigOf(setup)' = ConfigOf(setup) /\ UNCHANGED <<now, expiries, stolen>>
      BY <2>5, <2>7, <2>9 DEF Acquire, ConfigOf
    <2>13. KeyLimiter(k)!Acquire(r)
      BY <2>1, <2>10, <2>11, <2>12 DEF KeyLimiter!Acquire
    <2> QED  BY <2>13 DEF KeyLimiter!Next
  <1> QED  BY <1>3, <1>4

LEMMA RefuseImplements ==
    ASSUME NEW r \in Requests, Refuse(r), NEW k \in Keys
    PROVE  [KeyLimiter(k)!Next]_(KeyLimiter(k)!vars)
  <1>1. keyLimiter'[k] = Checked(keyLimiter[k], setup.key, r) \/ keyLimiter'[k] = keyLimiter[k]
    BY DEF Refuse
  <1>2. View(k)' = View(k)
    BY SameView DEF Refuse, history
  <1> QED  BY <1>1, <1>2, CheckOrNothing DEF Refuse, history

\* The end of a grant leaves the view of another key alone ...
LEMMA EndOther ==
    ASSUME IInv, NEW r \in Requests, NEW k \in Keys, key[r] # k,
           NEW l, keyLimiter' = [keyLimiter EXCEPT ![key[r]] = l],
           NEW end, status' = [status EXCEPT ![r] = end],
           refundedAt' = refundedAt \/ refundedAt' = [refundedAt EXCEPT ![r] = now],
           UNCHANGED <<now, setup, key, grantedAt, closedAt, closedKey, expiries, stolen>>
    PROVE  [KeyLimiter(k)!Next]_(KeyLimiter(k)!vars)
  <1>1. /\ status \in [Requests -> Statuses]
        /\ refundedAt \in [Requests -> Time] /\ keyLimiter \in [Keys -> LimiterState]
    BY DEF IInv, TypeOK
  <1>2. View(k)' = View(k)
    <2>1. StatusAt(k)' = StatusAt(k)
      BY <1>1 DEF StatusAt
    <2>2. TimesAt(k, key, refundedAt)' = TimesAt(k, key, refundedAt)
      BY <1>1 DEF TimesAt
    <2>3. /\ TimesAt(k, key, grantedAt)' = TimesAt(k, key, grantedAt)
          /\ TimesAt(k, closedKey, closedAt)' = TimesAt(k, closedKey, closedAt)
      BY DEF TimesAt
    <2> QED  BY <2>1, <2>2, <2>3 DEF View, ConfigOf
  <1>3. keyLimiter'[k] = keyLimiter[k]
    BY <1>1
  <1> QED  BY <1>2, <1>3, CheckOrNothing

\* ... and is an end of the grant for its own.
LEMMA EndOwn ==
    ASSUME IInv, NEW r \in Requests, status[r] = "held", NEW k \in Keys, key[r] = k,
           UNCHANGED <<key, closedKey>>, NEW end, status' = [status EXCEPT ![r] = end]
    PROVE  StatusAt(k)[r] = "held" /\ StatusAt(k)' = [StatusAt(k) EXCEPT ![r] = end]
  BY DEF IInv, TypeOK, StatusAt

LEMMA RefundOwn ==
    ASSUME IInv, NEW r \in Requests, NEW k \in Keys, key[r] = k, key' = key,
           refundedAt' = [refundedAt EXCEPT ![r] = now]
    PROVE  TimesAt(k, key, refundedAt)' = [TimesAt(k, key, refundedAt) EXCEPT ![r] = now]
  BY DEF IInv, TypeOK, TimesAt

\* What an end leaves alone, and what it does to the key of r.
LEMMA EndKeeps ==
    ASSUME IInv, NEW r \in Requests, NEW k \in Keys, key[r] = k,
           NEW l, keyLimiter' = [keyLimiter EXCEPT ![key[r]] = l],
           UNCHANGED <<setup, key, grantedAt, closedAt, closedKey>>
    PROVE  /\ TimesAt(k, key, grantedAt)' = TimesAt(k, key, grantedAt)
           /\ TimesAt(k, closedKey, closedAt)' = TimesAt(k, closedKey, closedAt)
           /\ ConfigOf(setup)' = ConfigOf(setup)
           /\ keyLimiter'[k] = l
  <1>1. /\ TimesAt(k, key, grantedAt)' = TimesAt(k, key, grantedAt)
        /\ TimesAt(k, closedKey, closedAt)' = TimesAt(k, closedKey, closedAt)
        /\ ConfigOf(setup)' = ConfigOf(setup)
    BY DEF TimesAt, ConfigOf
  <1>2. keyLimiter'[k] = l
    BY DEF IInv, TypeOK
  <1> QED  BY <1>1, <1>2

LEMMA NotRefunded ==
    ASSUME NEW k \in Keys, UNCHANGED <<key, refundedAt>>
    PROVE  TimesAt(k, key, refundedAt)' = TimesAt(k, key, refundedAt)
  BY DEF TimesAt

LEMMA SucceedImplements ==
    ASSUME IInv, NEW r \in Requests, Succeed(r), NEW k \in Keys
    PROVE  [KeyLimiter(k)!Next]_(KeyLimiter(k)!vars)
  <1> DEFINE l == Unlock(keyLimiter[key[r]])
  <1>1. /\ status[r] = "held" /\ keyLimiter' = [keyLimiter EXCEPT ![key[r]] = l]
        /\ status' = [status EXCEPT ![r] = "ok"] /\ refundedAt' = refundedAt
        /\ UNCHANGED <<now, setup, key, grantedAt, closedAt, closedKey, expiries, stolen>>
    BY DEF Succeed, history
  <1>2. l.blockedUntil = keyLimiter[key[r]].blockedUntil
    BY DEF Unlock
  <1>3. l = KeyLimiter(k)!Unlock(keyLimiter[key[r]])
    BY SameUpdates
  <1> HIDE DEF l
  <1>4. CASE key[r] # k
    BY <1>1, <1>4, EndOther
  <1>5. CASE key[r] = k
    <2>1. StatusAt(k)[r] = "held" /\ StatusAt(k)' = [StatusAt(k) EXCEPT ![r] = "ok"]
      BY <1>1, <1>5, EndOwn
    <2>2. /\ TimesAt(k, key, grantedAt)' = TimesAt(k, key, grantedAt)
          /\ TimesAt(k, closedKey, closedAt)' = TimesAt(k, closedKey, closedAt)
          /\ ConfigOf(setup)' = ConfigOf(setup)
          /\ keyLimiter'[k] = l
      BY <1>1, <1>5, EndKeeps
    <2>3. TimesAt(k, key, refundedAt)' = TimesAt(k, key, refundedAt)
      BY <1>1, <1>5, NotRefunded
    <2>4. KeyLimiter(k)!Succeed(r)
      BY <1>1, <1>2, <1>3, <1>5, <2>1, <2>2, <2>3 DEF KeyLimiter!Succeed
    <2> QED  BY <2>4 DEF KeyLimiter!Next
  <1> QED  BY <1>4, <1>5

\* release_key is the refund of the specification, whoever makes it.
LEMMA ReleasedAsRefunded ==
    ASSUME NEW k \in Keys, NEW r \in Requests
    PROVE  /\ KeyLimiter(k)!Refunded(keyLimiter[k], r) = ReleasedKey(k, r)
           /\ ReleasedKey(k, r).blockedUntil = keyLimiter[k].blockedUntil
  <1>1. KeyLimiter(k)!Refunded(keyLimiter[k], r) = ReleasedKey(k, r)
    BY SameUpdates
    DEF KeyLimiter!Refunded, KeyLimiter!Enforced, Enforced, ReleasedKey
  <1>2. ReleasedKey(k, r).blockedUntil = keyLimiter[k].blockedUntil
    BY DEF ReleasedKey, Unlock, Release
  <1> QED  BY <1>1, <1>2

LEMMA FailImplements ==
    ASSUME IInv, NEW r \in Requests, Fail(r), NEW k \in Keys
    PROVE  [KeyLimiter(k)!Next]_(KeyLimiter(k)!vars)
  <1> DEFINE l == ReleasedKey(key[r], r)
  <1>1. /\ status[r] = "held" /\ keyLimiter' = [keyLimiter EXCEPT ![key[r]] = l]
        /\ status' = [status EXCEPT ![r] = "failed"]
        /\ refundedAt' = [refundedAt EXCEPT ![r] = now]
        /\ UNCHANGED <<now, setup, key, grantedAt, closedAt, closedKey, expiries, stolen>>
    BY DEF Fail
  <1>2. key[r] = k => /\ KeyLimiter(k)!Refunded(keyLimiter[k], r) = l
                      /\ l.blockedUntil = keyLimiter[k].blockedUntil
    BY ReleasedAsRefunded
  <1> HIDE DEF l
  <1>3. CASE key[r] # k
    BY <1>1, <1>3, EndOther
  <1>4. CASE key[r] = k
    <2>1. StatusAt(k)[r] = "held" /\ StatusAt(k)' = [StatusAt(k) EXCEPT ![r] = "failed"]
      BY <1>1, <1>4, EndOwn
    <2>2. /\ TimesAt(k, key, grantedAt)' = TimesAt(k, key, grantedAt)
          /\ TimesAt(k, closedKey, closedAt)' = TimesAt(k, closedKey, closedAt)
          /\ ConfigOf(setup)' = ConfigOf(setup)
          /\ keyLimiter'[k] = l
      BY <1>1, <1>4, EndKeeps
    <2>3. TimesAt(k, key, refundedAt)' = [TimesAt(k, key, refundedAt) EXCEPT ![r] = now]
      BY <1>1, <1>4, RefundOwn
    <2>4. KeyLimiter(k)!Fail(r)
      BY <1>1, <1>2, <1>4, <2>1, <2>2, <2>3 DEF KeyLimiter!Fail
    <2> QED  BY <2>4 DEF KeyLimiter!Next
  <1> QED  BY <1>3, <1>4

\* block_key extends the cool-down as the specification says.
LEMMA BlockedAsSpecified ==
    ASSUME NEW k \in Keys, NEW l \in LimiterState, NEW d \in CoolDowns
    PROVE  /\ BlockFor(l, now, d) = KeyLimiter(k)!BlockFor(l, now, d)
           /\ BlockFor(l, now, d).blockedUntil = KeyLimiter(k)!Larger(l.blockedUntil, now + d)
  <1>1. BlockFor(l, now, d) = KeyLimiter(k)!BlockFor(l, now, d)
    BY SameUpdates
  <1>2. BlockFor(l, now, d).blockedUntil = Larger(l.blockedUntil, now + d)
    BY DEF BlockFor, LimiterState
  <1>3. Larger(l.blockedUntil, now + d) = KeyLimiter(k)!Larger(l.blockedUntil, now + d)
    BY DEF Larger, KeyLimiter!Larger
  <1> QED  BY <1>1, <1>2, <1>3

LEMMA FailAndBlockImplements ==
    ASSUME IInv, NEW r \in Requests, NEW d \in CoolDowns, FailAndBlock(r, d), NEW k \in Keys
    PROVE  [KeyLimiter(k)!Next]_(KeyLimiter(k)!vars)
  <1> DEFINE m == ReleasedKey(key[r], r)
             l == BlockFor(m, now, d)
  <1>1. /\ status[r] = "held" /\ keyLimiter' = [keyLimiter EXCEPT ![key[r]] = l]
        /\ status' = [status EXCEPT ![r] = "failed"]
        /\ refundedAt' = [refundedAt EXCEPT ![r] = now]
        /\ UNCHANGED <<now, setup, key, grantedAt, closedAt, closedKey, expiries, stolen>>
    BY DEF FailAndBlock
  <1>2. key[r] \in Keys /\ m \in LimiterState
    BY ReleasedKeyProperties DEF IInv, HasKey, FailAndBlock
  <1>3. key[r] = k => /\ KeyLimiter(k)!Refunded(keyLimiter[k], r) = m
                      /\ m.blockedUntil = keyLimiter[k].blockedUntil
    BY ReleasedAsRefunded
  <1> HIDE DEF m
  <1>4. /\ l = KeyLimiter(k)!BlockFor(m, now, d)
        /\ l.blockedUntil = KeyLimiter(k)!Larger(m.blockedUntil, now + d)
    BY <1>2, BlockedAsSpecified
  <1> HIDE DEF l
  <1>5. CASE key[r] # k
    BY <1>1, <1>5, EndOther
  <1>6. CASE key[r] = k
    <2>1. StatusAt(k)[r] = "held" /\ StatusAt(k)' = [StatusAt(k) EXCEPT ![r] = "failed"]
      BY <1>1, <1>6, EndOwn
    <2>2. /\ TimesAt(k, key, grantedAt)' = TimesAt(k, key, grantedAt)
          /\ TimesAt(k, closedKey, closedAt)' = TimesAt(k, closedKey, closedAt)
          /\ ConfigOf(setup)' = ConfigOf(setup)
          /\ keyLimiter'[k] = l
      BY <1>1, <1>6, EndKeeps
    <2>3. TimesAt(k, key, refundedAt)' = [TimesAt(k, key, refundedAt) EXCEPT ![r] = now]
      BY <1>1, <1>6, RefundOwn
    <2>4. KeyLimiter(k)!FailAndBlock(r, d)
      BY <1>1, <1>3, <1>4, <1>6, <2>1, <2>2, <2>3 DEF KeyLimiter!FailAndBlock
    <2> QED  BY <2>4 DEF KeyLimiter!Next
  <1> QED  BY <1>5, <1>6

LEMMA KeepImplements ==
    ASSUME IInv, NEW r \in Requests, NEW d \in CoolDowns, Keep(r, d), NEW k \in Keys
    PROVE  [KeyLimiter(k)!Next]_(KeyLimiter(k)!vars)
  <1> DEFINE l == BlockFor(keyLimiter[key[r]], now, d)
  <1>1. /\ status[r] = "held" /\ keyLimiter' = [keyLimiter EXCEPT ![key[r]] = l]
        /\ status' = [status EXCEPT ![r] = "kept"] /\ refundedAt' = refundedAt
        /\ UNCHANGED <<now, setup, key, grantedAt, closedAt, closedKey, expiries, stolen>>
    BY DEF Keep, history
  <1>2. keyLimiter[key[r]] \in LimiterState
    BY DEF IInv, HasKey, TypeOK, Keep
  <1>3. /\ l = KeyLimiter(k)!BlockFor(keyLimiter[key[r]], now, d)
        /\ l.blockedUntil = KeyLimiter(k)!Larger(keyLimiter[key[r]].blockedUntil, now + d)
    BY <1>2, BlockedAsSpecified
  <1> HIDE DEF l
  <1>4. CASE key[r] # k
    BY <1>1, <1>4, EndOther
  <1>5. CASE key[r] = k
    <2>1. StatusAt(k)[r] = "held" /\ StatusAt(k)' = [StatusAt(k) EXCEPT ![r] = "kept"]
      BY <1>1, <1>5, EndOwn
    <2>2. /\ TimesAt(k, key, grantedAt)' = TimesAt(k, key, grantedAt)
          /\ TimesAt(k, closedKey, closedAt)' = TimesAt(k, closedKey, closedAt)
          /\ ConfigOf(setup)' = ConfigOf(setup)
          /\ keyLimiter'[k] = l
      BY <1>1, <1>5, EndKeeps
    <2>3. TimesAt(k, key, refundedAt)' = TimesAt(k, key, refundedAt)
      BY <1>1, <1>5, NotRefunded
    <2>4. KeyLimiter(k)!Keep(r, d)
      BY <1>1, <1>3, <1>5, <2>1, <2>2, <2>3 DEF KeyLimiter!Keep
    <2> QED  BY <2>4 DEF KeyLimiter!Next
  <1> QED  BY <1>4, <1>5

\* A failing close is a second release of the key that the call has by then: for
\* the attempt's own key, or for one that a retry of its call was granted.
LEMMA CloseFailsImplements ==
    ASSUME IInv, WInv, NEW r \in Requests, CloseFails(r), NEW k \in Keys
    PROVE  [KeyLimiter(k)!Next]_(KeyLimiter(k)!vars)
  <1>1. PICK j \in Keys : j = apiKey[CallOf[r]]
    BY DEF IInv, HasKey, CloseFails
  <1>2. /\ status[r] \in {"failed", "kept"} /\ closedAt[r] = 0
        /\ keyLimiter' = [keyLimiter EXCEPT ![j] = ReleasedKey(j, r)]
        /\ closedAt' = [closedAt EXCEPT ![r] = now] /\ closedKey' = [closedKey EXCEPT ![r] = j]
        /\ stolen' = [stolen EXCEPT ![j] = IF Locked(keyLimiter[j], now) THEN @ + 1 ELSE @]
        /\ UNCHANGED <<now, setup, status, key, grantedAt, refundedAt, expiries>>
    BY <1>1 DEF CloseFails
  <1>3. /\ closedKey[r] = NoKey /\ NoKey # j /\ NoKey # k
        /\ status \in [Requests -> Statuses] /\ closedAt \in [Requests -> Time]
        /\ closedKey \in [Requests -> Keys \cup {NoKey}] /\ stolen \in [Keys -> Nat]
        /\ keyLimiter \in [Keys -> LimiterState]
    BY <1>2, TrafficAssumption DEF IInv, TypeOK, WInv, Times
  <1>4. /\ TimesAt(k, key, grantedAt)' = TimesAt(k, key, grantedAt)
        /\ TimesAt(k, key, refundedAt)' = TimesAt(k, key, refundedAt)
        /\ ConfigOf(setup)' = ConfigOf(setup)
    BY <1>2 DEF TimesAt, ConfigOf
  <1>5. CASE k # j
    <2>1. StatusAt(k)' = StatusAt(k)
      BY <1>2, <1>3, <1>5 DEF StatusAt
    <2>2. TimesAt(k, closedKey, closedAt)' = TimesAt(k, closedKey, closedAt)
      BY <1>2, <1>3, <1>5 DEF TimesAt
    <2>3. keyLimiter'[k] = keyLimiter[k] /\ stolen'[k] = stolen[k] /\ expiries'[k] = expiries[k]
      BY <1>2, <1>3, <1>5
    <2> QED  BY <1>2, <1>4, <2>1, <2>2, <2>3, CheckOrNothing DEF View
  <1>6. CASE k = j
    <2>1. /\ TimesAt(k, closedKey, closedAt)[r] = 0
          /\ TimesAt(k, closedKey, closedAt)' = [TimesAt(k, closedKey, closedAt) EXCEPT ![r] = now]
      BY <1>2, <1>3, <1>6 DEF TimesAt
    <2>2. \/ StatusAt(k)[r] \in {"failed", "kept"} /\ StatusAt(k)' = StatusAt(k)
          \/ /\ StatusAt(k)[r] = "new" /\ KeyLimiter(k)!RetriedHere(r)
             /\ StatusAt(k)' = [StatusAt(k) EXCEPT ![r] = "elsewhere"]
      <3>1. CASE key[r] = k
        BY <1>2, <1>3, <3>1 DEF StatusAt
      <3>2. CASE key[r] # k
        <4>1. /\ StatusAt(k)[r] = "new"
              /\ StatusAt(k)' = [StatusAt(k) EXCEPT ![r] = "elsewhere"]
          BY <1>2, <1>3, <1>6, <3>2 DEF StatusAt
        <4>2. PICK q \in Requests : CallOf[q] = CallOf[r] /\ key[q] = k /\ status[q] # "new"
          BY <1>1, <1>6, TrafficAssumption DEF IInv, CallKey
        <4>3. StatusAt(k)[q] \notin {"new", "elsewhere"}
          BY <1>3, <4>2 DEF StatusAt, Statuses
        <4>4. KeyLimiter(k)!Enforced(q) = KeyLimiter(k)!Enforced(r)
          BY <4>2, CallAssumption DEF KeyLimiter!Enforced
        <4>5. KeyLimiter(k)!RetriedHere(r)
          BY <4>3, <4>4 DEF KeyLimiter!RetriedHere
        <4> QED  BY <4>1, <4>5
      <3> QED  BY <3>1, <3>2
    <2>3. /\ keyLimiter'[k] = KeyLimiter(k)!Refunded(keyLimiter[k], r)
          /\ keyLimiter'[k].blockedUntil = keyLimiter[k].blockedUntil
      BY <1>2, <1>3, <1>6, ReleasedAsRefunded
    <2>4. stolen'[k] = IF KeyLimiter(k)!Locked(keyLimiter[k], now) THEN stolen[k] + 1 ELSE stolen[k]
      BY <1>2, <1>3, <1>6 DEF KeyLimiter!Locked, Locked
    <2>5. KeyLimiter(k)!CloseFails(r)
      BY <1>2, <1>4, <2>1, <2>2, <2>3, <2>4 DEF KeyLimiter!CloseFails
    <2> QED  BY <2>5 DEF KeyLimiter!Next
  <1> QED  BY <1>5, <1>6

LEMMA TickImplements ==
    ASSUME Tick, NEW k \in Keys
    PROVE  [KeyLimiter(k)!Next]_(KeyLimiter(k)!vars)
  <1>1. View(k)' = View(k)
    BY SameView DEF Tick
  <1>2. expiries'[k] = IF /\ KeyLimiter(k)!Locked(keyLimiter[k], now)
                          /\ ~KeyLimiter(k)!Locked(keyLimiter[k], now')
                       THEN expiries[k] + 1 ELSE expiries[k]
    BY DEF Tick, KeyLimiter!Locked, Locked
  <1>3. KeyLimiter(k)!Tick
    BY <1>1, <1>2 DEF Tick, View, KeyLimiter!Tick
  <1> QED  BY <1>3 DEF KeyLimiter!Next

\* Every step is one of each key's limiter, or leaves it alone.
LEMMA NextImplements ==
    ASSUME IInv, WInv, Fresh, [Next]_vars, NEW k \in Keys
    PROVE  [KeyLimiter(k)!Next]_(KeyLimiter(k)!vars)
  <1>1. CASE \E r \in Requests, j \in Keys : Acquire(r, j)
    BY <1>1, AcquireImplements
  <1>2. CASE \E r \in Requests : Refuse(r)
    BY <1>2, RefuseImplements
  <1>3. CASE \E r \in Requests : Succeed(r)
    BY <1>3, SucceedImplements
  <1>4. CASE \E r \in Requests : Fail(r)
    BY <1>4, FailImplements
  <1>5. CASE \E r \in Requests, d \in CoolDowns : FailAndBlock(r, d)
    BY <1>5, FailAndBlockImplements
  <1>6. CASE \E r \in Requests, d \in CoolDowns : Keep(r, d)
    BY <1>6, KeepImplements
  <1>7. CASE \E r \in Requests : CloseFails(r)
    BY <1>7, CloseFailsImplements
  <1>8. CASE Tick
    BY <1>8, TickImplements
  <1>9. CASE UNCHANGED vars
    <2>1. View(k)' = View(k)
      BY <1>9, SameView DEF vars, history
    <2> QED  BY <1>9, <2>1, CheckOrNothing DEF vars, history
  <1> QED  BY <1>1, <1>2, <1>3, <1>4, <1>5, <1>6, <1>7, <1>8, <1>9 DEF Next

\* An attempt without a key has made no second release (queue.py
\* _process_with_worker).
THEOREM FreshInvariant == Spec => []Fresh
  <1> QED  BY FreshInit, FreshNext, Invariance, PTL DEF Spec

\* Each key's limiter behaves as RateLimiter specifies (control.py
\* try_acquire_key, unlock_key, release_key, block_key).
THEOREM Implementation == ASSUME NEW k \in Keys PROVE Spec => KeyLimiter(k)!Spec
  <1>1. Init => KeyLimiter(k)!Init
    BY ImplementsInit
  <1>2. IInv /\ WInv /\ Fresh /\ [Next]_vars => [KeyLimiter(k)!Next]_(KeyLimiter(k)!vars)
    BY NextImplements
  <1> QED  BY <1>1, <1>2, Invariance, SumsInvariant, FreshInvariant, PTL DEF Spec, KeyLimiter!Spec

\* All of them at once, as the run checks it.
THEOREM AllImplemented == Spec => KeysAsSpecified
  <1>1. Init => \A k \in Keys : KeyLimiter(k)!Init
    BY ImplementsInit
  <1>2. IInv /\ WInv /\ Fresh /\ [Next]_vars =>
          [\A k \in Keys : [KeyLimiter(k)!Next]_(KeyLimiter(k)!vars)]_vars
    BY NextImplements
  <1> QED  BY <1>1, <1>2, Invariance, SumsInvariant, FreshInvariant, PTL DEF Spec, KeysAsSpecified
=============================================================================
