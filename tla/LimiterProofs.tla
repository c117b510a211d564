--------------------------- MODULE LimiterProofs ---------------------------
(***************************************************************************)
(* Lemmas about the operators of Limiter: what each update does to the     *)
(* type, the order and the length of the deque of timestamps.              *)
(***************************************************************************)
EXTENDS Limiter, SequenceTheorems, FiniteSetTheorems, TLAPS

\* The timestamps are in order and none is later than now.
InOrder(ts, now) ==
    /\ \A i \in DOMAIN ts : ts[i] <= now
    /\ \A i, j \in DOMAIN ts : i <= j => ts[i] <= ts[j]

\* Larger is a maximum.
LEMMA LargerProperties ==
    ASSUME NEW a \in Int, NEW b \in Int
    PROVE  /\ Larger(a, b) \in {a, b}
           /\ Larger(a, b) >= a
           /\ Larger(a, b) >= b
  BY DEF Larger

\* The initial limiter is well typed and empty.
LEMMA NewLimiterProperties ==
    NewLimiter \in LimiterState /\ NewLimiter.ts = <<>>
  BY EmptySeq DEF NewLimiter, LimiterState, Time

\* _clean_old_timestamps pops between none and all of the timestamps.
LEMMA PoppedType ==
    ASSUME NEW ts \in Seq(Time), NEW start \in Int
    PROVE  Popped(ts, start) \in 0..Len(ts)
  <1> DEFINE old == {i \in DOMAIN ts : \A j \in 1..i : ts[j] < start}
  <1>1. Len(ts) \in Nat /\ DOMAIN ts = 1..Len(ts)
    BY LenProperties
  <1>2. IsFiniteSet(1..Len(ts)) /\ Cardinality(1..Len(ts)) = Len(ts)
    BY <1>1, FS_Interval
  <1>3. old \in SUBSET (1..Len(ts))
    BY <1>1
  <1>4. IsFiniteSet(old) /\ Cardinality(old) <= Len(ts)
    BY <1>2, <1>3, FS_Subset
  <1>5. Cardinality(old) \in Nat
    BY <1>4, FS_CardinalityType
  <1> QED
    BY <1>1, <1>4, <1>5 DEF Popped

\* Cleaning keeps a suffix.
LEMMA CleanedProperties ==
    ASSUME NEW ts \in Seq(Time), NEW start \in Int
    PROVE  /\ Cleaned(ts, start) \in Seq(Time)
           /\ Len(Cleaned(ts, start)) = Len(ts) - Popped(ts, start)
           /\ \A i \in 1..Len(Cleaned(ts, start)) :
                 /\ i + Popped(ts, start) \in 1..Len(ts)
                 /\ Cleaned(ts, start)[i] = ts[i + Popped(ts, start)]
  <1> DEFINE p == Popped(ts, start)
  <1>1. Len(ts) \in Nat /\ p \in 0..Len(ts)
    BY PoppedType, LenProperties
  <1>2. \A i \in (p + 1)..Len(ts) : ts[i] \in Time
    BY <1>1, ElementOfSeq
  <1>3. /\ SubSeq(ts, p + 1, Len(ts)) \in Seq(Time)
        /\ Len(SubSeq(ts, p + 1, Len(ts))) =
              IF p + 1 <= Len(ts) THEN Len(ts) - (p + 1) + 1 ELSE 0
        /\ \A i \in 1..(Len(ts) - (p + 1) + 1) :
              SubSeq(ts, p + 1, Len(ts))[i] = ts[p + 1 + i - 1]
    <2> HIDE DEF p
    <2> QED BY <1>1, <1>2, SubSeqProperties
  <1> HIDE DEF p
  <1>4. Len(SubSeq(ts, p + 1, Len(ts))) = Len(ts) - p
    BY <1>1, <1>3
  <1>5. \A i \in 1..(Len(ts) - p) :
           i + p \in 1..Len(ts) /\ SubSeq(ts, p + 1, Len(ts))[i] = ts[i + p]
    BY <1>1, <1>3
  <1> QED
    BY <1>3, <1>4, <1>5 DEF Cleaned, p

\* Cleaning preserves the order.
LEMMA CleanedInOrder ==
    ASSUME NEW ts \in Seq(Time), NEW start \in Int, NEW now \in Int,
           InOrder(ts, now)
    PROVE  InOrder(Cleaned(ts, start), now)
  <1> DEFINE cl == Cleaned(ts, start)
             p  == Popped(ts, start)
  <1>1. /\ cl \in Seq(Time)
        /\ \A i \in 1..Len(cl) : i + p \in 1..Len(ts) /\ cl[i] = ts[i + p]
    BY CleanedProperties
  <1>2. DOMAIN cl = 1..Len(cl) /\ DOMAIN ts = 1..Len(ts) /\ Len(cl) \in Nat
    BY <1>1, LenProperties
  <1>3. p \in Nat
    BY PoppedType, LenProperties
  <1> HIDE DEF cl, p
  <1>4. \A i \in DOMAIN cl : cl[i] <= now
    BY <1>1, <1>2 DEF InOrder
  <1>5. \A i, j \in DOMAIN cl : i <= j => cl[i] <= cl[j]
    <2> SUFFICES ASSUME NEW i \in DOMAIN cl, NEW j \in DOMAIN cl, i <= j
                 PROVE  cl[i] <= cl[j]
      OBVIOUS
    <2>1. i + p \in DOMAIN ts /\ j + p \in DOMAIN ts /\ i + p <= j + p
      BY <1>1, <1>2, <1>3
    <2> QED
      BY <1>1, <1>2, <2>1 DEF InOrder
  <1> QED
    BY <1>4, <1>5 DEF InOrder, cl

\* The check leaves the deadlines alone and cleans the deque or leaves it.
LEMMA AfterIsLimitedProperties ==
    ASSUME NEW l \in LimiterState, NEW c, c.window \in Int, NEW now \in Int
    PROVE  LET m == AfterIsLimited(l, c, now)
           IN  /\ m \in LimiterState
               /\ m.lockedUntil = l.lockedUntil
               /\ m.blockedUntil = l.blockedUntil
               /\ m.ts \in {l.ts, Cleaned(l.ts, now - c.window)}
               /\ Len(m.ts) <= Len(l.ts)
               /\ InOrder(l.ts, now) => InOrder(m.ts, now)
  <1>1. /\ Cleaned(l.ts, now - c.window) \in Seq(Time)
        /\ Len(Cleaned(l.ts, now - c.window)) <= Len(l.ts)
    <2>1. l.ts \in Seq(Time) /\ now - c.window \in Int
      BY DEF LimiterState
    <2>2. Popped(l.ts, now - c.window) \in 0..Len(l.ts)
      BY <2>1, PoppedType
    <2>3. Len(l.ts) \in Nat
      BY <2>1, LenProperties
    <2>4. /\ Cleaned(l.ts, now - c.window) \in Seq(Time)
          /\ Len(Cleaned(l.ts, now - c.window))
                = Len(l.ts) - Popped(l.ts, now - c.window)
      BY <2>1, CleanedProperties
    <2> QED
      BY <2>2, <2>3, <2>4
  <1>2. InOrder(l.ts, now) => InOrder(Cleaned(l.ts, now - c.window), now)
    BY CleanedInOrder DEF LimiterState
  <1>3. Len(l.ts) \in Nat
    BY LenProperties DEF LimiterState
  <1> QED
    BY <1>1, <1>2, <1>3 DEF AfterIsLimited, LimiterState

\* release drops at most the last timestamp and nothing else.
LEMMA ReleaseProperties ==
    ASSUME NEW l \in LimiterState, NEW now \in Int
    PROVE  LET m == Release(l)
           IN  /\ m \in LimiterState
               /\ m.lockedUntil = l.lockedUntil
               /\ m.blockedUntil = l.blockedUntil
               /\ Len(m.ts) <= Len(l.ts)
               /\ InOrder(l.ts, now) => InOrder(m.ts, now)
  <1> DEFINE ts == l.ts
             n  == Len(ts)
             rest == SubSeq(ts, 1, n - 1)
  <1>1. ts \in Seq(Time)
    BY DEF LimiterState
  <1>2. n \in Nat /\ DOMAIN ts = 1..n /\ (ts # <<>> => n > 0)
    BY <1>1, LenProperties, EmptySeq
  <1>3. CASE ts = <<>>
    BY <1>3, <1>2 DEF Release
  <1>4. CASE ts # <<>>
    <2>1. \A i \in 1..(n - 1) : ts[i] \in Time
      BY <1>1, <1>2, ElementOfSeq
    <2>2. /\ rest \in Seq(Time)
          /\ Len(rest) = IF 1 <= n - 1 THEN n - 1 - 1 + 1 ELSE 0
          /\ \A i \in 1..(n - 1 - 1 + 1) : rest[i] = ts[1 + i - 1]
      <3> HIDE DEF ts, n
      <3> QED BY <2>1, <1>2, SubSeqProperties
    <2>3. DOMAIN rest = 1..Len(rest)
      BY <2>2, LenProperties
    <2>4. Len(rest) = n - 1 /\ \A i \in 1..(n - 1) : rest[i] = ts[i]
      BY <2>2, <1>2, <1>4
    <2> HIDE DEF ts, n, rest
    <2>5. InOrder(ts, now) => InOrder(rest, now)
      <3>1. \A i \in DOMAIN rest : i \in DOMAIN ts /\ rest[i] = ts[i]
        BY <2>3, <2>4, <1>2
      <3> QED
        BY <3>1 DEF InOrder
    <2>6. Release(l) = [l EXCEPT !.ts = rest]
      BY <1>4 DEF Release, rest, n, ts
    <2> QED
      BY <2>2, <2>4, <2>5, <2>6, <1>2 DEF LimiterState, ts, n
  <1> QED
    BY <1>3, <1>4

\* record appends the current time and nothing else.
LEMMA RecordProperties ==
    ASSUME NEW l \in LimiterState, NEW now \in Time
    PROVE  LET m == Record(l, now)
           IN  /\ m \in LimiterState
               /\ m.lockedUntil = l.lockedUntil
               /\ m.blockedUntil = l.blockedUntil
               /\ Len(m.ts) = Len(l.ts) + 1
               /\ InOrder(l.ts, now) => InOrder(m.ts, now)
  <1> DEFINE ts == l.ts
             n  == Len(ts)
             more == Append(ts, now)
  <1>1. ts \in Seq(Time)
    BY DEF LimiterState
  <1>2. n \in Nat /\ DOMAIN ts = 1..n
    BY <1>1, LenProperties
  <1>3. /\ more \in Seq(Time)
        /\ Len(more) = n + 1
        /\ \A i \in 1..n : more[i] = ts[i]
        /\ more[n + 1] = now
    BY <1>1, AppendProperties
  <1>4. DOMAIN more = 1..(n + 1)
    BY <1>3, LenProperties
  <1>5. \A i \in 1..n : ts[i] \in Nat
    BY <1>1, <1>2, ElementOfSeq DEF Time
  <1> HIDE DEF more
  <1>6. InOrder(ts, now) => InOrder(more, now)
    <2> SUFFICES ASSUME InOrder(ts, now) PROVE InOrder(more, now)
      OBVIOUS
    <2> HIDE DEF ts, n
    <2>1. \A i \in 1..(n + 1) : more[i] <= now /\ (i = n + 1 \/ i \in 1..n)
      BY <1>2, <1>3 DEF InOrder, Time
    <2>2. \A i, j \in 1..(n + 1) : i <= j => more[i] <= more[j]
      <3> SUFFICES ASSUME NEW i \in 1..(n + 1), NEW j \in 1..(n + 1), i <= j
                   PROVE  more[i] <= more[j]
        OBVIOUS
      <3>1. CASE j = n + 1
        BY <3>1, <2>1, <1>3
      <3>2. CASE j # n + 1
        <4>1. i \in DOMAIN ts /\ j \in DOMAIN ts
          BY <3>2, <1>2
        <4> QED
          BY <4>1, <1>2, <1>3 DEF InOrder
      <3> QED
        BY <3>1, <3>2
    <2> QED
      BY <1>4, <2>1, <2>2 DEF InOrder
  <1>7. Record(l, now) = [l EXCEPT !.ts = more]
    BY DEF Record, more
  <1> QED
    BY <1>3, <1>6, <1>7 DEF LimiterState

\* A later window pops no fewer timestamps.
LEMMA PoppedMonotonic ==
    ASSUME NEW ts \in Seq(Time), NEW a \in Int, NEW b \in Int, a <= b
    PROVE  Popped(ts, a) <= Popped(ts, b)
  <1> DEFINE old(s) == {i \in DOMAIN ts : \A j \in 1..i : ts[j] < s}
  <1>1. Len(ts) \in Nat /\ DOMAIN ts = 1..Len(ts) /\ \A i \in 1..Len(ts) : ts[i] \in Nat
    BY LenProperties, ElementOfSeq DEF Time
  <1>2. old(a) \subseteq old(b)
    BY <1>1
  <1>3. IsFiniteSet(old(b))
    <2>1. IsFiniteSet(1..Len(ts))
      BY <1>1, FS_Interval
    <2> QED  BY <1>1, <2>1, FS_Subset
  <1>4. Popped(ts, a) = Cardinality(old(a)) /\ Popped(ts, b) = Cardinality(old(b))
    BY DEF Popped
  <1> HIDE DEF old
  <1> QED  BY <1>2, <1>3, <1>4, FS_Subset

\* A window that starts after the k-th timestamp pops k timestamps or more.
LEMMA PoppedPast ==
    ASSUME NEW ts \in Seq(Time), NEW now \in Int, InOrder(ts, now),
           NEW k \in 1..Len(ts), NEW start \in Int, ts[k] < start
    PROVE  Popped(ts, start) >= k
  <1> DEFINE old == {i \in DOMAIN ts : \A j \in 1..i : ts[j] < start}
  <1>1. Len(ts) \in Nat /\ DOMAIN ts = 1..Len(ts) /\ \A i \in 1..Len(ts) : ts[i] \in Nat
    BY LenProperties, ElementOfSeq DEF Time
  <1>2. \A j \in 1..k : ts[j] < start
    <2> TAKE j \in 1..k
    <2>1. j \in DOMAIN ts /\ k \in DOMAIN ts /\ j <= k
      BY <1>1
    <2>2. ts[j] <= ts[k] /\ ts[j] \in Nat /\ ts[k] \in Nat
      BY <1>1, <2>1 DEF InOrder
    <2> QED  BY <2>2
  <1>3. 1..k \subseteq old
    BY <1>1, <1>2
  <1>4. IsFiniteSet(old)
    <2>1. IsFiniteSet(1..Len(ts))
      BY <1>1, FS_Interval
    <2> QED  BY <1>1, <2>1, FS_Subset
  <1>5. Cardinality(1..k) = k
    BY <1>1, FS_Interval
  <1>6. Popped(ts, start) = Cardinality(old)
    BY DEF Popped
  <1> HIDE DEF old
  <1>7. Cardinality(1..k) <= Cardinality(old) /\ Cardinality(old) \in Nat
    BY <1>3, <1>4, FS_Subset, FS_CardinalityType
  <1> QED  BY <1>1, <1>5, <1>6, <1>7

\* An exempt request waits for the lock and the cool-down alone.
LEMMA ExemptWaitSuffices ==
    ASSUME NEW l \in LimiterState, NEW t \in Time, NEW c
    PROVE  ~KeyUnavailable(l, c, t + KeyWait(l, c, t, FALSE) + 1, FALSE)
  BY DEF KeyUnavailable, KeyWait, TimeUntilUnlocked, Locked, Blocked, Larger, LimiterState, Time

\* A waiter that sleeps for KeyWait and one tick more finds the key free.
LEMMA KeyWaitSuffices ==
    ASSUME NEW l \in LimiterState, NEW t \in Time,
           NEW c, c.limit \in Nat, c.window \in Nat, InOrder(l.ts, t), ~Unlimited(c) => Len(l.ts) <= c.limit
    PROVE  ~KeyUnavailable(l, c, t + KeyWait(l, c, t, TRUE) + 1, TRUE)
  <1> DEFINE reset == TimeUntilReset(l, c, t)
             wait  == KeyWait(l, c, t, TRUE)
             then  == t + wait + 1
             ts    == AfterIsLimited(l, c, t).ts
             start == t - c.window
             blocked == Larger(0, l.blockedUntil - t)
  <1>1. /\ l.ts \in Seq(Time) /\ l.lockedUntil \in Nat /\ l.blockedUntil \in Nat
        /\ c.limit \in Nat /\ c.window \in Nat /\ t \in Nat /\ start \in Int
        /\ Len(l.ts) \in Nat
    BY LenProperties DEF LimiterState, LimiterConfig, Time
  <1>2. blocked \in Nat /\ blocked >= l.blockedUntil - t
    BY <1>1 DEF Larger
  <1>3. ts \in Seq(Time) /\ ts \in {l.ts, Cleaned(l.ts, start)}
    BY <1>1, AfterIsLimitedProperties DEF LimiterState
  <1>4. ts # <<>> => ts[1] \in Nat /\ Len(ts) \in Nat /\ Len(ts) > 0
    BY <1>3, LenProperties, EmptySeq, ElementOfSeq DEF Time
  <1>5. reset = IF ~IsLimited(l, c, t) THEN 0
                ELSE IF ts = <<>> THEN blocked
                ELSE Larger(blocked, ts[1] + c.window - t)
    BY DEF TimeUntilReset
  <1>6. wait = IF Locked(l, t) THEN Larger(reset, TimeUntilUnlocked(l, t)) ELSE reset
    BY DEF KeyWait
  <1> HIDE DEF wait, reset, ts, blocked, start
  <1>7. /\ reset \in Nat
        /\ IsLimited(l, c, t) => reset >= blocked
        /\ IsLimited(l, c, t) /\ ts # <<>> => reset >= ts[1] + c.window - t
    BY <1>1, <1>2, <1>4, <1>5 DEF Larger
  <1>8. /\ wait \in Nat /\ wait >= reset
        /\ Locked(l, t) => wait >= l.lockedUntil - t
    BY <1>1, <1>6, <1>7 DEF Larger, TimeUntilUnlocked, Locked
  <1>9. then \in Nat /\ then >= t /\ then - c.window \in Int
    BY <1>1, <1>8
  <1>10. ~Locked(l, then)
    BY <1>1, <1>8, <1>9 DEF Locked
  <1>11. ~Blocked(l, then)
    <2>1. Blocked(l, t) => IsLimited(l, c, t)
      BY DEF IsLimited
    <2> QED  BY <1>1, <1>2, <1>7, <1>8, <2>1 DEF Blocked
  <1>12. ASSUME ~Unlimited(c) PROVE Len(Cleaned(l.ts, then - c.window)) < c.limit
    <2>1. /\ Len(Cleaned(l.ts, then - c.window)) = Len(l.ts) - Popped(l.ts, then - c.window)
          /\ Popped(l.ts, then - c.window) \in 0..Len(l.ts)
          /\ Len(Cleaned(l.ts, start)) = Len(l.ts) - Popped(l.ts, start)
          /\ Popped(l.ts, start) \in 0..Len(l.ts)
      BY <1>1, <1>9, CleanedProperties, PoppedType
    <2>2. c.limit > 0 /\ Len(l.ts) <= c.limit
      BY <1>1, <1>12 DEF Unlimited
    <2>3. CASE Len(Cleaned(l.ts, start)) < c.limit
      <3>1. Popped(l.ts, start) <= Popped(l.ts, then - c.window)
        <4>1. start <= then - c.window
          BY <1>1, <1>9 DEF start
        <4> QED  BY <1>1, <1>9, <4>1, PoppedMonotonic
      <3> QED  BY <1>1, <2>1, <2>3, <3>1
    <2>4. CASE ~(Len(Cleaned(l.ts, start)) < c.limit)
      <3>1. IsLimited(l, c, t)
        <4>1. Len(Cleaned(l.ts, t - c.window)) >= c.limit
          BY <1>1, <2>1, <2>4 DEF start
        <4> QED  BY <1>12, <4>1 DEF IsLimited
      <3>2. Len(l.ts) > 0 /\ Len(Cleaned(l.ts, start)) > 0
        BY <1>1, <2>1, <2>2, <2>4
      <3>3. ts # <<>>
        BY <1>3, <3>2, EmptySeq
      <3>4. PICK k \in 1..Len(l.ts) : ts[1] = l.ts[k]
        <4>1. CASE ts = l.ts
          BY <1>1, <3>2, <4>1
        <4>2. CASE ts = Cleaned(l.ts, start)
          <5>1. 1 \in 1..Len(Cleaned(l.ts, start))
            BY <1>1, <2>1, <3>2
          <5>2. /\ 1 + Popped(l.ts, start) \in 1..Len(l.ts)
                /\ Cleaned(l.ts, start)[1] = l.ts[1 + Popped(l.ts, start)]
            BY <1>1, <5>1, CleanedProperties
          <5> QED  BY <4>2, <5>2
        <4> QED  BY <1>3, <4>1, <4>2
      <3>5. l.ts[k] < then - c.window
        <4>1. ts[1] \in Nat /\ reset >= ts[1] + c.window - t
          BY <1>4, <1>7, <3>1, <3>3
        <4>2. ts[1] < t + wait + 1 - c.window
          BY <1>1, <1>7, <1>8, <4>1
        <4> QED  BY <1>1, <1>8, <3>4, <4>1, <4>2
      <3>6. Popped(l.ts, then - c.window) >= k
        BY <1>1, <1>9, <3>5, PoppedPast
      <3> QED  BY <1>1, <2>1, <2>2, <3>6
    <2> QED  BY <2>3, <2>4
  <1>13. Len(Cleaned(l.ts, then - c.window)) \in Nat
    BY <1>1, <1>9, CleanedProperties, LenProperties
  <1>14. ~IsLimited(l, c, then)
    BY <1>1, <1>10, <1>11, <1>12, <1>13 DEF IsLimited
  <1> QED  BY <1>10, <1>11, <1>14 DEF KeyUnavailable, wait

\* What is popped lies before the window, what stays at the front does not.
LEMMA PoppedExact ==
    ASSUME NEW ts \in Seq(Time), NEW start \in Int
    PROVE  LET p == Popped(ts, start)
           IN  /\ p \in 0..Len(ts)
               /\ \A j \in 1..p : ts[j] < start
               /\ p < Len(ts) => ts[p + 1] >= start
  <1> DEFINE old == {i \in DOMAIN ts : \A j \in 1..i : ts[j] < start}
             p == Popped(ts, start)
  <1>1. Len(ts) \in Nat /\ DOMAIN ts = 1..Len(ts) /\ \A i \in 1..Len(ts) : ts[i] \in Nat
    BY LenProperties, ElementOfSeq DEF Time
  <1>2. p = Cardinality(old) /\ p \in 0..Len(ts)
    BY PoppedType DEF Popped
  <1>3. \A i : i \in old <=> i \in 1..Len(ts) /\ \A j \in 1..i : ts[j] < start
    BY <1>1
  <1>4. IsFiniteSet(1..Len(ts)) /\ old \subseteq 1..Len(ts)
    BY <1>1, <1>3, FS_Interval
  <1>5. IsFiniteSet(old)
    BY <1>4, FS_Subset
  <1> HIDE DEF old, p
  <1>6. ASSUME NEW k \in 1..p, ~(ts[k] < start) PROVE FALSE
    <2>1. old \subseteq 1..(k - 1)
      BY <1>1, <1>2, <1>3, <1>6
    <2>2. IsFiniteSet(1..(k - 1)) /\ Cardinality(1..(k - 1)) = k - 1
      <3>1. k \in Int /\ k >= 1 /\ k - 1 \in Int
        BY <1>1, <1>2
      <3> QED  BY <3>1, FS_Interval
    <2>3. Cardinality(old) <= k - 1
      BY <2>1, <2>2, FS_Subset
    <2> QED  BY <1>2, <2>3
  <1>7. ASSUME p < Len(ts), ~(ts[p + 1] >= start) PROVE FALSE
    <2>1. p + 1 \in 1..Len(ts) /\ ts[p + 1] < start
      BY <1>1, <1>2, <1>7
    <2>2. \A j \in 1..(p + 1) : ts[j] < start
      BY <1>2, <1>6, <2>1
    <2>3. 1..(p + 1) \subseteq old
      BY <1>1, <1>2, <1>3, <2>1, <2>2
    <2>4. Cardinality(1..(p + 1)) = p + 1
      BY <1>2, FS_Interval
    <2>5. p + 1 <= p
      BY <1>2, <1>5, <2>3, <2>4, FS_Subset
    <2> QED  BY <1>2, <2>5
  <1> QED  BY <1>2, <1>6, <1>7 DEF p

\* Nothing else has that property.
LEMMA PoppedUnique ==
    ASSUME NEW ts \in Seq(Time), NEW start \in Int, NEW q \in 0..Len(ts),
           \A j \in 1..q : ts[j] < start,
           q < Len(ts) => ts[q + 1] >= start
    PROVE  Popped(ts, start) = q
  <1> DEFINE p == Popped(ts, start)
  <1>1. Len(ts) \in Nat /\ \A i \in 1..Len(ts) : ts[i] \in Nat
    BY LenProperties, ElementOfSeq DEF Time
  <1>2. /\ p \in 0..Len(ts)
        /\ \A j \in 1..p : ts[j] < start
        /\ p < Len(ts) => ts[p + 1] >= start
    BY PoppedExact
  <1> HIDE DEF p
  <1>3. CASE p < q
    <2>1. p + 1 \in 1..q /\ p + 1 \in 1..Len(ts) /\ p < Len(ts)
      BY <1>1, <1>2, <1>3
    <2> QED  BY <1>1, <1>2, <2>1
  <1>4. CASE q < p
    <2>1. q + 1 \in 1..p /\ q + 1 \in 1..Len(ts) /\ q < Len(ts)
      BY <1>1, <1>2, <1>4
    <2> QED  BY <1>1, <1>2, <2>1
  <1>5. p = q
    BY <1>1, <1>2, <1>3, <1>4
  <1> QED  BY <1>5 DEF p

\* How many timestamps lie at or after s.
Kept(ts, s) == Len(ts) - Popped(ts, s)

LEMMA KeptType == ASSUME NEW ts \in Seq(Time), NEW s \in Int PROVE Kept(ts, s) \in Nat
  BY PoppedType, LenProperties DEF Kept

\* Cleaning removes none of a window that starts no earlier.
LEMMA CleanedKeeps ==
    ASSUME NEW ts \in Seq(Time), NEW start \in Int, NEW s \in Int, start <= s
    PROVE  Kept(Cleaned(ts, start), s) = Kept(ts, s)
  <1> DEFINE cl == Cleaned(ts, start)
             p == Popped(ts, start)
             q == Popped(cl, s)
  <1>1. Len(ts) \in Nat /\ \A i \in 1..Len(ts) : ts[i] \in Nat
    BY LenProperties, ElementOfSeq DEF Time
  <1>2. /\ cl \in Seq(Time) /\ Len(cl) = Len(ts) - p
        /\ \A i \in 1..Len(cl) : cl[i] = ts[i + p]
    BY CleanedProperties
  <1>3. p \in 0..Len(ts) /\ \A j \in 1..p : ts[j] < start
    BY PoppedExact
  <1>4. /\ q \in 0..Len(cl) /\ \A j \in 1..q : cl[j] < s
        /\ q < Len(cl) => cl[q + 1] >= s
    BY <1>2, PoppedExact
  <1> HIDE DEF cl, p, q
  <1>5. p + q \in 0..Len(ts)
    BY <1>1, <1>2, <1>3, <1>4
  <1>6. ASSUME NEW j \in 1..(p + q) PROVE ts[j] < s
    <2>1. ts[j] \in Nat
      BY <1>1, <1>5
    <2>2. CASE j <= p
      BY <1>3, <2>1, <2>2
    <2>3. CASE p < j
      <3>1. j - p \in 1..q /\ j - p \in 1..Len(cl) /\ (j - p) + p = j
        BY <1>1, <1>2, <1>3, <1>4, <2>3
      <3>2. cl[j - p] = ts[j] /\ cl[j - p] < s
        BY <1>2, <1>4, <3>1
      <3> QED  BY <3>2
    <2> QED  BY <1>3, <1>4, <2>2, <2>3
  <1>7. ASSUME p + q < Len(ts) PROVE ts[p + q + 1] >= s
    <2>1. q < Len(cl) /\ q + 1 \in 1..Len(cl) /\ (q + 1) + p = p + q + 1
      BY <1>1, <1>2, <1>3, <1>4, <1>7
    <2>2. cl[q + 1] = ts[p + q + 1]
      BY <1>2, <2>1
    <2> QED  BY <1>4, <2>1, <2>2
  <1>8. Popped(ts, s) = p + q
    BY <1>5, <1>6, <1>7, PoppedUnique
  <1>9. Popped(cl, s) = q
    BY DEF q
  <1> QED  BY <1>1, <1>2, <1>3, <1>4, <1>8, <1>9 DEF Kept, cl

\* A grant adds one to every window it falls into.
LEMMA AppendKept ==
    ASSUME NEW ts \in Seq(Time), NEW t \in Time, NEW s \in Int, s <= t
    PROVE  Kept(Append(ts, t), s) = Kept(ts, s) + 1
  <1> DEFINE more == Append(ts, t)
             n == Len(ts)
             p == Popped(ts, s)
  <1>1. n \in Nat /\ \A i \in 1..n : ts[i] \in Nat
    BY LenProperties, ElementOfSeq DEF Time
  <1>2. /\ more \in Seq(Time) /\ Len(more) = n + 1
        /\ \A i \in 1..n : more[i] = ts[i]
        /\ more[n + 1] = t
    BY AppendProperties
  <1>3. p \in 0..n /\ (\A j \in 1..p : ts[j] < s) /\ (p < n => ts[p + 1] >= s)
    BY PoppedExact
  <1> HIDE DEF more, n, p
  <1>4. p \in 0..Len(more) /\ \A j \in 1..p : more[j] < s
    BY <1>1, <1>2, <1>3
  <1>5. p < Len(more) => more[p + 1] >= s
    BY <1>1, <1>2, <1>3 DEF Time
  <1>6. Popped(more, s) = p
    BY <1>2, <1>4, <1>5, PoppedUnique
  <1> QED  BY <1>1, <1>2, <1>3, <1>6 DEF Kept, more, n, p

\* A refund takes at most one from any window.
LEMMA ReleaseKept ==
    ASSUME NEW l \in LimiterState, NEW s \in Int
    PROVE  Kept(Release(l).ts, s) >= Kept(l.ts, s) - 1
  <1> DEFINE ts == l.ts
             n == Len(ts)
             p == Popped(ts, s)
             rest == SubSeq(ts, 1, n - 1)
  <1>1. /\ ts \in Seq(Time) /\ n \in Nat /\ \A i \in 1..n : ts[i] \in Nat
        /\ ts # <<>> => n > 0
    BY LenProperties, ElementOfSeq, EmptySeq DEF LimiterState, Time
  <1>2. p \in 0..n /\ (\A j \in 1..p : ts[j] < s) /\ (p < n => ts[p + 1] >= s)
    BY <1>1, PoppedExact
  <1>3. CASE ts = <<>>
    <2>1. Release(l).ts = ts
      BY <1>3 DEF Release
    <2>2. Kept(ts, s) = n - p
      BY DEF Kept
    <2> HIDE DEF ts, n, p
    <2> QED  BY <1>1, <1>2, <2>1, <2>2 DEF ts
  <1>4. CASE ts # <<>>
    <2>1. \A i \in 1..(n - 1) : ts[i] \in Time
      BY <1>1 DEF Time
    <2>2. /\ rest \in Seq(Time)
          /\ Len(rest) = IF 1 <= n - 1 THEN n - 1 - 1 + 1 ELSE 0
          /\ \A i \in 1..(n - 1 - 1 + 1) : rest[i] = ts[1 + i - 1]
      <3> HIDE DEF ts, n
      <3> QED BY <2>1, <1>1, SubSeqProperties
    <2>3. Len(rest) = n - 1 /\ \A i \in 1..(n - 1) : rest[i] = ts[i]
      BY <1>1, <1>4, <2>2
    <2>4. Release(l).ts = rest
      BY <1>4 DEF Release, LimiterState
    <2>5. Kept(ts, s) = n - p
      BY DEF Kept
    <2> HIDE DEF ts, n, p, rest
    <2>6. CASE p < n
      <3>1. p \in 0..Len(rest) /\ \A j \in 1..p : rest[j] < s
        BY <1>1, <1>2, <2>3, <2>6
      <3>2. p < Len(rest) => rest[p + 1] >= s
        BY <1>1, <1>2, <2>3, <2>6
      <3>3. Popped(rest, s) = p
        BY <2>2, <3>1, <3>2, PoppedUnique
      <3> QED  BY <1>1, <1>2, <2>3, <2>4, <2>5, <3>3 DEF Kept, ts
    <2>7. CASE p = n
      <3>1. Popped(rest, s) \in 0..Len(rest) /\ Len(rest) \in Nat
        BY <2>2, PoppedType, LenProperties
      <3> QED  BY <1>1, <2>3, <2>4, <2>5, <2>7, <3>1 DEF Kept, ts
    <2> QED  BY <1>1, <1>2, <2>6, <2>7
  <1> QED  BY <1>3, <1>4

\* A later window holds no more.
LEMMA KeptMonotonic ==
    ASSUME NEW ts \in Seq(Time), NEW a \in Int, NEW b \in Int, a <= b
    PROVE  Kept(ts, b) <= Kept(ts, a)
  <1>1. /\ Len(ts) \in Nat
        /\ Popped(ts, a) \in 0..Len(ts) /\ Popped(ts, b) \in 0..Len(ts)
        /\ Popped(ts, a) <= Popped(ts, b)
    BY PoppedType, PoppedMonotonic, LenProperties
  <1> QED  BY <1>1 DEF Kept

\* A window that starts after every timestamp holds none.
LEMMA KeptNone ==
    ASSUME NEW ts \in Seq(Time), NEW s \in Int, \A i \in 1..Len(ts) : ts[i] < s
    PROVE  Kept(ts, s) = 0
  <1>1. Len(ts) \in Nat
    BY LenProperties
  <1>2. Popped(ts, s) = Len(ts)
    BY <1>1, PoppedUnique
  <1> QED  BY <1>1, <1>2 DEF Kept

\* Cleaning leaves what the window holds, and adds to no other window.
LEMMA KeptCleaned ==
    ASSUME NEW ts \in Seq(Time), NEW start \in Int, NEW s \in Int
    PROVE  /\ Len(Cleaned(ts, start)) = Kept(ts, start)
           /\ Kept(Cleaned(ts, start), s) <= Kept(ts, s)
  <1>1. /\ Cleaned(ts, start) \in Seq(Time)
        /\ Len(Cleaned(ts, start)) = Kept(ts, start)
    BY CleanedProperties DEF Kept
  <1>2. CASE start <= s
    <2>1. Kept(Cleaned(ts, start), s) = Kept(ts, s)
      BY <1>2, CleanedKeeps
    <2> QED  BY <1>1, <2>1, KeptType
  <1>3. CASE s <= start
    <2>1. Kept(ts, start) <= Kept(ts, s) /\ Kept(ts, start) \in Nat /\ Kept(ts, s) \in Nat
      BY <1>3, KeptMonotonic, KeptType
    <2>2. Popped(Cleaned(ts, start), s) \in 0..Len(Cleaned(ts, start))
      BY <1>1, PoppedType
    <2>3. Len(Cleaned(ts, start)) - Popped(Cleaned(ts, start), s) <= Len(Cleaned(ts, start))
      BY <1>1, <2>1, <2>2
    <2>4. Kept(Cleaned(ts, start), s) <= Kept(ts, start) /\ Kept(Cleaned(ts, start), s) \in Nat
      BY <1>1, <2>3, KeptType DEF Kept
    <2> QED  BY <1>1, <2>1, <2>4
  <1> QED  BY <1>1, <1>2, <1>3

\* In an ordered deque cleaning is a filter: exactly the timestamps before the
\* window are popped.
LEMMA CleanedExact ==
    ASSUME NEW ts \in Seq(Time), NEW now \in Int, InOrder(ts, now), NEW start \in Int,
           NEW i \in 1..Len(ts)
    PROVE  i <= Popped(ts, start) <=> ts[i] < start
  <1>1. /\ Len(ts) \in Nat /\ DOMAIN ts = 1..Len(ts) /\ \A j \in 1..Len(ts) : ts[j] \in Nat
    BY LenProperties, ElementOfSeq DEF Time
  <1>2. /\ Popped(ts, start) \in 0..Len(ts)
        /\ \A j \in 1..Popped(ts, start) : ts[j] < start
    BY PoppedExact
  <1>3. ts[i] < start => i <= Popped(ts, start)
    BY PoppedPast
  <1> QED  BY <1>1, <1>2, <1>3
============================================================================
