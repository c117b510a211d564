-------------------------- MODULE PersistenceProofs --------------------------
(***************************************************************************)
(* The registry of limiters stays bounded by recent use, makes up nothing  *)
(* and forgets nothing that still counts, for every set of names,          *)
(* configurations and intervals, and across restarts and crashes.          *)
(***************************************************************************)
EXTENDS Persistence, LimiterProofs

\* The clocks have their types; of the limiters' own state nothing is needed.
ClocksOK ==
    /\ now \in Nat
    /\ rate \in [Names -> LimiterConfig]
    /\ DOMAIN limiter = Names
    /\ accessed \in [Names -> Nat]
    /\ lastPrune \in Nat
    /\ lastPrune <= now

\* The last prune left no limiter that had been idle for longer than its TTL.
PruneLeftRecent ==
    \A n \in Prunable :
        limiter[n] # Absent => lastPrune - accessed[n] <= IdleTTL(n)

\* Nothing was accessed a whole interval after the last prune without pruning.
PrunedInTime ==
    \A n \in Names : limiter[n] # Absent => accessed[n] < lastPrune + PruneInterval

\* A process that is not running has no limiters.
Gone == ~running => \A n \in Names : limiter[n] = Absent

\* The inductive invariant.
IInv == ClocksOK /\ PruneLeftRecent /\ PrunedInTime /\ Gone

---------------------------------------------------------------------------

\* How long a limiter may be idle is a number of seconds.
LEMMA IdleTTLType == ASSUME ClocksOK, NEW n \in Names PROVE IdleTTL(n) \in Nat
  BY PersistenceAssumption DEF ClocksOK, IdleTTL, Larger, LimiterConfig

LEMMA InitInv == Init => IInv
  <1> SUFFICES ASSUME Init PROVE IInv
    OBVIOUS
  <1>1. ClocksOK
    BY PersistenceAssumption DEF Init, ClocksOK, None
  <1>2. \A n \in Names : limiter[n] = Absent
    BY DEF Init, None
  <1> QED
    BY <1>1, <1>2, PersistenceAssumption
       DEF IInv, PruneLeftRecent, PrunedInTime, Gone

\* Any access, whatever it does to the limiter it obtains.
LEMMA AccessInv ==
    ASSUME IInv, NEW n \in Names, NEW l, Access(n, l)
    PROVE  IInv'
  <1> USE DEF IInv
  <1>1. /\ now \in Nat /\ lastPrune \in Nat /\ accessed \in [Names -> Nat]
        /\ PruneInterval \in Nat \ {0} /\ Prunable \subseteq Names
        /\ now' = now /\ rate' = rate /\ running' = running /\ running
        /\ lastPrune <= now
    BY PersistenceAssumption DEF ClocksOK, Access
  <1>2. /\ lastPrune' = IF PruneDue THEN now ELSE lastPrune
        /\ lastPrune' \in Nat
    BY <1>1 DEF Access
  <1>3. \A m \in Names :
           /\ limiter'[m] = IF m = n THEN l ELSE Pruned[m]
           /\ accessed'[m] = IF m = n THEN now ELSE IF Pruned[m] = Absent THEN 0 ELSE accessed[m]
    BY DEF Access, Pruned
  <1>4. \A m \in Names : Pruned[m] # Absent => limiter[m] # Absent /\ ~(PruneDue /\ Stale(m))
    BY DEF Pruned
  <1>5. ClocksOK'
    <2>1. accessed' \in [Names -> Nat] /\ DOMAIN limiter' = Names
      BY <1>1 DEF Access, Pruned
    <2> QED  BY <1>1, <1>2, <2>1 DEF ClocksOK
  <1>6. \A m \in Names : IdleTTL(m)' = IdleTTL(m) /\ IdleTTL(m) \in Nat
    BY <1>1, IdleTTLType DEF IdleTTL
  <1>7. PruneLeftRecent'
    <2> SUFFICES ASSUME NEW m \in Prunable, limiter'[m] # Absent
                 PROVE  lastPrune' - accessed'[m] <= IdleTTL(m)
      BY <1>1, <1>6 DEF PruneLeftRecent
    <2>1. m \in Names
      BY <1>1
    <2>2. CASE m = n
      <3>1. accessed'[m] = now
        BY <1>3, <2>1, <2>2
      <3>2. CASE PruneDue
        <4>1. lastPrune' = now
          BY <1>2, <3>2
        <4>2. now - now <= IdleTTL(m)
          BY <1>1, <1>6, <2>1
        <4> QED  BY <3>1, <4>1, <4>2
      <3>3. CASE ~PruneDue
        <4>1. lastPrune' = lastPrune /\ now - lastPrune < PruneInterval
          BY <1>1, <1>2, <3>3 DEF PruneDue
        <4> QED  BY <1>1, <1>6, <2>1, <3>1, <4>1
      <3> QED  BY <3>2, <3>3
    <2>3. CASE m # n
      <3>1. Pruned[m] # Absent /\ accessed'[m] = accessed[m]
        BY <1>3, <2>1, <2>3
      <3>2. limiter[m] # Absent /\ ~(PruneDue /\ Stale(m))
        BY <1>4, <2>1, <3>1
      <3>3. CASE PruneDue
        <4>1. ~(now - accessed[m] > IdleTTL(m))
          BY <3>2, <3>3 DEF Stale
        <4> QED  BY <1>1, <1>2, <1>6, <2>1, <3>1, <3>3, <4>1
      <3>4. CASE ~PruneDue
        BY <1>2, <3>1, <3>2, <3>4 DEF PruneLeftRecent
      <3> QED  BY <3>3, <3>4
    <2> QED  BY <2>2, <2>3
  <1>8. PrunedInTime'
    <2> SUFFICES ASSUME NEW m \in Names, limiter'[m] # Absent
                 PROVE  accessed'[m] < lastPrune' + PruneInterval
      BY DEF PrunedInTime
    <2>1. CASE PruneDue
      <3>1. m # n => accessed[m] < lastPrune + PruneInterval /\ accessed'[m] = accessed[m]
        BY <1>3, <1>4 DEF PrunedInTime
      <3>2. now - lastPrune >= PruneInterval /\ lastPrune' = now
        BY <1>2, <2>1 DEF PruneDue
      <3>3. m = n => accessed'[m] = now
        BY <1>3
      <3> QED  BY <1>1, <3>1, <3>2, <3>3
    <2>2. CASE ~PruneDue
      <3>1. m # n => accessed[m] < lastPrune + PruneInterval /\ accessed'[m] = accessed[m]
        BY <1>3, <1>4 DEF PrunedInTime
      <3>2. now - lastPrune < PruneInterval /\ lastPrune' = lastPrune
        BY <1>1, <1>2, <2>2 DEF PruneDue
      <3>3. m = n => accessed'[m] = now
        BY <1>3
      <3> QED  BY <1>1, <3>1, <3>2, <3>3
    <2> QED  BY <2>1, <2>2
  <1>9. Gone'
    BY <1>1 DEF Gone
  <1> QED  BY <1>5, <1>7, <1>8, <1>9

\* However a process ends, its limiters end with it.
LEMMA EndInv == ASSUME IInv, ProcessEnds, now' = now, rate' = rate PROVE IInv'
  <1>1. \A n \in Names : limiter'[n] = Absent
    BY DEF ProcessEnds, None
  <1>2. ClocksOK'
    BY DEF IInv, ClocksOK, ProcessEnds, None
  <1> QED
    BY <1>1, <1>2, PersistenceAssumption DEF IInv, PruneLeftRecent, PrunedInTime, Gone

LEMMA StartInv == ASSUME IInv, Start PROVE IInv'
  <1>1. \A n \in Names : limiter'[n] = Absent
    BY DEF IInv, Gone, Start
  <1>2. ClocksOK'
    BY PersistenceAssumption DEF IInv, ClocksOK, Start
  <1> QED
    BY <1>1, <1>2, PersistenceAssumption DEF IInv, PruneLeftRecent, PrunedInTime, Gone

LEMMA TickInv == ASSUME IInv, Tick PROVE IInv'
  <1>1. ClocksOK'
    BY DEF IInv, ClocksOK, Tick, process
  <1>2. PruneLeftRecent' /\ PrunedInTime' /\ Gone'
    BY DEF IInv, PruneLeftRecent, PrunedInTime, Gone, Tick, process, IdleTTL
  <1> QED  BY <1>1, <1>2 DEF IInv

\* IInv is inductive.
LEMMA NextInv == ASSUME IInv, [Next]_vars PROVE IInv'
  <1>1. CASE \E n \in Names : Query(n) \/ Use(n)
    BY <1>1, AccessInv DEF Query, Use
  <1>2. CASE \E n \in Names, d \in CoolDowns : Block(n, d)
    BY <1>2, AccessInv DEF Block
  <1>3. CASE Stop
    BY <1>3, EndInv DEF Stop
  <1>4. CASE Die
    BY <1>4, EndInv DEF Die
  <1>5. CASE Start
    BY <1>5, StartInv
  <1>6. CASE Tick
    BY <1>6, TickInv
  <1>7. CASE UNCHANGED vars
    BY <1>7 DEF vars, process, IInv, ClocksOK, PruneLeftRecent, PrunedInTime, Gone, IdleTTL
  <1> QED  BY <1>1, <1>2, <1>3, <1>4, <1>5, <1>6, <1>7 DEF Next

\* IInv holds in every reachable state.
THEOREM Invariance == Spec => []IInv
  <1> QED  BY InitInv, NextInv, PTL DEF Spec

\* Idle clients are forgotten: whenever some limiter was accessed, none that may
\* be pruned has been idle for its TTL and one pruning interval, whatever the
\* windows and however the process is restarted (control.py _prune_idle_limiters).
THEOREM RegistryBounded == Spec => []IdleBounded
  <1>1. ASSUME IInv, NEW m \in Names, NEW n \in Names,
               limiter[m] # Absent, limiter[n] # Absent, n \in Prunable
        PROVE  accessed[m] - accessed[n] < IdleTTL(n) + PruneInterval
    <2>1. /\ accessed[m] \in Nat /\ accessed[n] \in Nat /\ lastPrune \in Nat
          /\ PruneInterval \in Nat
      BY <1>1, PersistenceAssumption DEF IInv, ClocksOK
    <2>2. IdleTTL(n) \in Nat
      BY <1>1, IdleTTLType DEF IInv
    <2>3. accessed[m] < lastPrune + PruneInterval /\ lastPrune - accessed[n] <= IdleTTL(n)
      BY <1>1 DEF IInv, PrunedInTime, PruneLeftRecent
    <2> QED  BY <2>1, <2>2, <2>3
  <1>2. IInv => IdleBounded
    BY <1>1 DEF IdleBounded
  <1> QED  BY <1>2, Invariance, PTL

---------------------------------------------------------------------------
(* Saving and restoring.                                                   *)

\* ts holds no use that U does not, whichever window is looked at.
Within(ts, U) == \A s \in Int : Kept(ts, s) <= Kept(U, s)

\* ts holds every use in U after a time.
Covered(U, ts, from) == \A s \in Int : from < s => Kept(U, s) <= Kept(ts, s)

\* The cut that stands for the filter of export_state and restore_state keeps
\* exactly the timestamps inside the window.
LEMMA RecentExact ==
    ASSUME now \in Nat, NEW ts \in Seq(Time), InOrder(ts, now), NEW window \in Nat
    PROVE  /\ \A i \in 1..Len(ts) :
                i <= Popped(ts, now - window + 1) <=> ~(now - ts[i] < window)
           /\ Recent(ts, window) =
                SubSeq(ts, Popped(ts, now - window + 1) + 1, Len(ts))
  <1>1. \A i \in 1..Len(ts) :
           i <= Popped(ts, now - window + 1) <=> ts[i] < now - window + 1
    BY CleanedExact
  <1>2. \A i \in 1..Len(ts) : ts[i] \in Nat
    BY ElementOfSeq DEF Time
  <1> QED  BY <1>1, <1>2 DEF Recent, Cleaned

\* What Recent does to the type, the order and the windows of a deque.
LEMMA RecentProperties ==
    ASSUME now \in Nat, NEW ts \in Seq(Time), NEW window \in Nat
    PROVE  /\ Recent(ts, window) \in Seq(Time)
           /\ Len(Recent(ts, window)) = Kept(ts, now - window + 1)
           /\ InOrder(ts, now) => InOrder(Recent(ts, window), now)
           /\ Within(Recent(ts, window), ts)
           /\ \A s \in Int : now - window < s => Kept(Recent(ts, window), s) = Kept(ts, s)
  <1>1. now - window + 1 \in Int
    OBVIOUS
  <1>2. \A s \in Int : now - window < s => now - window + 1 <= s
    OBVIOUS
  <1>3. \A s \in Int : now - window < s =>
           Kept(Cleaned(ts, now - window + 1), s) = Kept(ts, s)
    BY <1>1, <1>2, CleanedKeeps
  <1>4. \A s \in Int : Kept(Cleaned(ts, now - window + 1), s) <= Kept(ts, s)
    BY <1>1, KeptCleaned
  <1>5. Len(Cleaned(ts, now - window + 1)) = Kept(ts, now - window + 1)
    BY <1>1, KeptCleaned
  <1>6. Cleaned(ts, now - window + 1) \in Seq(Time)
    BY <1>1, CleanedProperties
  <1>7. InOrder(ts, now) => InOrder(Cleaned(ts, now - window + 1), now)
    BY <1>1, CleanedInOrder
  <1> QED  BY <1>3, <1>4, <1>5, <1>6, <1>7 DEF Recent, Within

\* No timestamp of an ordered deque is in the future.
LEMMA PastAll ==
    ASSUME now \in Nat, NEW ts \in Seq(Time)
    PROVE  /\ Past(ts) \in Seq(Time)
           /\ InOrder(ts, now) => Past(ts) = ts
  <1>1. /\ Len(ts) \in Nat /\ DOMAIN ts = 1..Len(ts)
        /\ \A i \in 1..Len(ts) : ts[i] \in Time
    BY LenProperties, ElementOfSeq
  <1>2. Popped(ts, now + 1) \in 0..Len(ts)
    BY PoppedType
  <1>3. Past(ts) \in Seq(Time)
    <2>1. \A i \in 1..Popped(ts, now + 1) : ts[i] \in Time
      BY <1>1, <1>2
    <2> QED  BY <1>2, <2>1, SubSeqProperties DEF Past
  <1>4. ASSUME InOrder(ts, now) PROVE Past(ts) = ts
    <2>1. \A i \in 1..Len(ts) : ts[i] < now + 1
      BY <1>1, <1>4 DEF InOrder, Time
    <2>2. Popped(ts, now + 1) = Len(ts)
      BY <1>1, <2>1, PoppedUnique
    <2> QED  BY <2>2, SubSeqFull DEF Past
  <1> QED  BY <1>3, <1>4

\* A restored limiter holds what the entry does of the window, and nothing else.
LEMMA RestoredProperties ==
    ASSUME now \in Nat, NEW entry \in Entry, NEW c \in LimiterConfig
    PROVE  LET m == Restored(entry, c)
           IN  /\ m \in LimiterState
               /\ m.blockedUntil <= entry.blockedUntil
               /\ now < entry.blockedUntil => m.blockedUntil = entry.blockedUntil
               /\ InOrder(entry.ts, now) =>
                     /\ InOrder(m.ts, now)
                     /\ Within(m.ts, entry.ts)
                     /\ Covered(entry.ts, m.ts, now - c.window)
  <1> DEFINE ts == IF c.window = 0 THEN Past(entry.ts) ELSE Recent(Past(entry.ts), c.window)
             until == IF entry.blockedUntil > now THEN entry.blockedUntil ELSE 0
  <1>1. entry.ts \in Seq(Time) /\ entry.blockedUntil \in Nat /\ c.window \in Nat
    BY DEF Entry, LimiterConfig, Time
  <1>2. Past(entry.ts) \in Seq(Time)
    BY <1>1, PastAll
  <1>3. ts \in Seq(Time)
    BY <1>1, <1>2, RecentProperties
  <1>4. until \in Nat /\ until <= entry.blockedUntil
        /\ (now < entry.blockedUntil => until = entry.blockedUntil)
    BY <1>1
  <1>5. ASSUME InOrder(entry.ts, now)
        PROVE  InOrder(ts, now) /\ Within(ts, entry.ts) /\ Covered(entry.ts, ts, now - c.window)
    <2>1. Past(entry.ts) = entry.ts
      BY <1>1, <1>5, PastAll
    <2>2. \A s \in Int : Kept(entry.ts, s) \in Nat
      BY <1>1, KeptType
    <2>3. CASE c.window = 0
      BY <1>5, <2>1, <2>2, <2>3 DEF Within, Covered
    <2>4. CASE c.window # 0
      <3>1. /\ InOrder(Recent(entry.ts, c.window), now)
            /\ Within(Recent(entry.ts, c.window), entry.ts)
            /\ \A s \in Int :
                  now - c.window < s => Kept(Recent(entry.ts, c.window), s) = Kept(entry.ts, s)
        BY <1>1, <1>5, RecentProperties
      <3>2. Covered(entry.ts, Recent(entry.ts, c.window), now - c.window)
        BY <2>2, <3>1 DEF Covered
      <3> QED  BY <2>1, <2>4, <3>1, <3>2
    <2> QED  BY <2>3, <2>4
  <1>6. Restored(entry, c) = [NewLimiter EXCEPT !.ts = ts, !.blockedUntil = until]
    BY DEF Restored
  <1> HIDE DEF ts, until
  <1>7. Restored(entry, c) = [ts |-> ts, lockedUntil |-> 0, blockedUntil |-> until]
    BY <1>6 DEF NewLimiter
  <1> QED  BY <1>3, <1>4, <1>5, <1>7 DEF LimiterState, Time

\* The deque and the cool-down of a limiter or an entry, if there is one.
Deque(x) == IF x = Absent THEN <<>> ELSE x.ts

Deadline(x) == IF x = Absent THEN 0 ELSE x.blockedUntil

\* An empty deque holds nothing.
LEMMA KeptEmpty == \A s \in Int : Kept(<<>>, s) = 0
  <1>1. <<>> \in Seq(Time) /\ \A s \in Int : \A i \in 1..Len(<<>>) : <<>>[i] < s
    BY EmptySeq
  <1> QED  BY <1>1, KeptNone

\* An entry, or none, holds what the limiter does of its window, and nothing else.
LEMMA ExportedProperties ==
    ASSUME now \in Nat, NEW l \in LimiterState, NEW c \in LimiterConfig
    PROVE  LET e == Exported(l, c)
           IN  /\ e \in Entry \cup {Absent}
               /\ Deadline(e) <= l.blockedUntil
               /\ now < l.blockedUntil => Deadline(e) = l.blockedUntil
               /\ InOrder(l.ts, now) =>
                     /\ InOrder(Deque(e), now)
                     /\ Within(Deque(e), l.ts)
                     /\ Covered(l.ts, Deque(e), now - c.window)
  <1> DEFINE ts == IF c.window = 0 THEN <<>> ELSE Recent(l.ts, c.window)
             until == IF Blocked(l, now) THEN l.blockedUntil ELSE 0
  <1>1. l.ts \in Seq(Time) /\ l.blockedUntil \in Nat /\ c.window \in Nat
    BY DEF LimiterState, LimiterConfig, Time
  <1>2. ts \in Seq(Time)
    BY <1>1, RecentProperties, EmptySeq
  <1>3. until \in Nat /\ until <= l.blockedUntil
        /\ (now < l.blockedUntil => until = l.blockedUntil)
    BY <1>1 DEF Blocked
  <1>4. ASSUME InOrder(l.ts, now)
        PROVE  InOrder(ts, now) /\ Within(ts, l.ts) /\ Covered(l.ts, ts, now - c.window)
    <2>1. \A s \in Int : Kept(l.ts, s) \in Nat
      BY <1>1, KeptType
    <2>2. CASE c.window = 0
      <3>1. ts = <<>>
        BY <2>2
      <3>2. InOrder(ts, now)
        BY <3>1 DEF InOrder
      <3>3. Within(ts, l.ts)
        BY <2>1, <3>1, KeptEmpty DEF Within
      <3>4. \A s \in Int : now < s => Kept(l.ts, s) = 0
        <4>1. \A i \in 1..Len(l.ts) : l.ts[i] <= now /\ l.ts[i] \in Nat
          BY <1>1, <1>4, LenProperties, ElementOfSeq DEF InOrder, Time
        <4>2. \A s \in Int : now < s => \A i \in 1..Len(l.ts) : l.ts[i] < s
          BY <4>1
        <4> QED  BY <1>1, <4>2, KeptNone
      <3>5. Covered(l.ts, ts, now - c.window)
        <4>1. now - c.window = now
          BY <2>2
        <4> QED  BY <3>1, <3>4, <4>1, KeptEmpty DEF Covered
      <3> QED  BY <3>2, <3>3, <3>5
    <2>3. CASE c.window # 0
      <3>1. /\ InOrder(Recent(l.ts, c.window), now)
            /\ Within(Recent(l.ts, c.window), l.ts)
            /\ \A s \in Int :
                  now - c.window < s => Kept(Recent(l.ts, c.window), s) = Kept(l.ts, s)
        BY <1>1, <1>4, RecentProperties
      <3>2. Covered(l.ts, Recent(l.ts, c.window), now - c.window)
        BY <2>1, <3>1 DEF Covered
      <3> QED  BY <2>3, <3>1, <3>2
    <2> QED  BY <2>2, <2>3
  <1>5. Exported(l, c) = IF ts = <<>> /\ until = 0 THEN Absent
                         ELSE [ts |-> ts, blockedUntil |-> until]
    BY DEF Exported
  <1> HIDE DEF ts, until
  <1>6. [ts |-> ts, blockedUntil |-> until] \in Entry
    BY <1>2, <1>3 DEF Entry, Time
  <1>7. [ts |-> ts, blockedUntil |-> until] # Absent
    BY <1>6, AbsentAssumption
  <1>8. Deque(Exported(l, c)) = ts /\ Deadline(Exported(l, c)) = until
    BY <1>5, <1>7 DEF Deque, Deadline
  <1>9. Exported(l, c) \in Entry \cup {Absent}
    BY <1>5, <1>6
  <1> QED  BY <1>3, <1>4, <1>8, <1>9

---------------------------------------------------------------------------
(* Nothing is made up.                                                     *)

\* x, a limiter, an entry or none, is in order at t, and counts no use that U
\* does not and no cool-down beyond the one asked for.
Honest(x, U, cool, t) ==
    /\ InOrder(Deque(x), t)
    /\ Within(Deque(x), U)
    /\ Deadline(x) <= cool

\* Uses are recorded in order, and no window is narrower than the narrowest.
HistoryOK ==
    \A n \in Names : InOrder(uses[n], now) /\ narrowest[n] <= rate[n].window

\* Neither the limiters nor what is staged or saved counts what was not used.
NothingAdded ==
    \A n \in Names :
        /\ Honest(limiter[n], uses[n], coolUntil[n], now)
        /\ Honest(staged[n], uses[n], coolUntil[n], now)
        /\ Honest(file[n], uses[n], coolUntil[n], now)

\* The inductive invariant of this section.
HInv == TypeOK /\ HistoryOK /\ NothingAdded

\* Limiters and entries have a deque and a deadline.
LEMMA DequeType ==
    ASSUME NEW x \in LimiterState \cup Entry \cup {Absent}
    PROVE  /\ Deque(x) \in Seq(Time)
           /\ Deadline(x) \in Nat
           /\ x \in LimiterState \cup Entry =>
                Deque(x) = x.ts /\ Deadline(x) = x.blockedUntil
  BY EmptySeq, AbsentAssumption DEF Deque, Deadline, LimiterState, Entry, Time

\* No state is honest.
LEMMA HonestNothing ==
    ASSUME NEW U \in Seq(Time), NEW cool \in Nat, NEW t \in Nat
    PROVE  Honest(Absent, U, cool, t) /\ Honest(NewLimiter, U, cool, t)
  <1>1. Deque(Absent) = <<>> /\ Deadline(Absent) = 0
    BY DEF Deque, Deadline
  <1>2. Deque(NewLimiter) = <<>> /\ Deadline(NewLimiter) = 0
    BY DEF NewLimiter, Deque, Deadline
  <1>3. InOrder(<<>>, t)
    BY DEF InOrder
  <1>4. Within(<<>>, U)
    BY KeptType, KeptEmpty DEF Within
  <1> QED  BY <1>1, <1>2, <1>3, <1>4 DEF Honest

\* A deque stays in order as time passes.
LEMMA InOrderLater ==
    ASSUME NEW ts \in Seq(Time), NEW t \in Nat, NEW u \in Nat, t <= u, InOrder(ts, t)
    PROVE  InOrder(ts, u)
  <1>1. \A i \in DOMAIN ts : ts[i] \in Nat
    BY LenProperties, ElementOfSeq DEF Time
  <1> QED  BY <1>1 DEF InOrder

\* What counts less than something within U is within U.
LEMMA WithinTransitive ==
    ASSUME NEW ts \in Seq(Time), NEW mid \in Seq(Time), NEW U \in Seq(Time),
           Within(ts, mid), Within(mid, U)
    PROVE  Within(ts, U)
  <1>1. \A s \in Int : Kept(ts, s) \in Nat /\ Kept(mid, s) \in Nat /\ Kept(U, s) \in Nat
    BY KeptType
  <1> QED  BY <1>1 DEF Within

LEMMA WithinItself == ASSUME NEW ts \in Seq(Time) PROVE Within(ts, ts)
  BY KeptType DEF Within

\* What was honest stays honest as time passes and more is used or blocked.
LEMMA HonestLater ==
    ASSUME NEW x \in LimiterState \cup Entry \cup {Absent},
           NEW U \in Seq(Time), NEW V \in Seq(Time), Within(U, V),
           NEW cool \in Nat, NEW d \in Nat, cool <= d,
           NEW t \in Nat, NEW u \in Nat, t <= u,
           Honest(x, U, cool, t)
    PROVE  Honest(x, V, d, u)
  <1>1. Deque(x) \in Seq(Time) /\ Deadline(x) \in Nat
    BY DequeType
  <1>2. InOrder(Deque(x), u)
    BY <1>1, InOrderLater DEF Honest
  <1>3. Within(Deque(x), V)
    BY <1>1, WithinTransitive DEF Honest
  <1> QED  BY <1>1, <1>2, <1>3 DEF Honest

\* The types a proof about one name needs.
LEMMA NameTypes ==
    ASSUME TypeOK, NEW n \in Names
    PROVE  /\ now \in Nat /\ rate[n] \in LimiterConfig /\ rate[n].window \in Nat
           /\ limiter[n] \in LimiterState \cup {Absent}
           /\ staged[n] \in Entry \cup {Absent} /\ file[n] \in Entry \cup {Absent}
           /\ uses[n] \in Seq(Time) /\ narrowest[n] \in Nat /\ coolUntil[n] \in Nat
           /\ accessed[n] \in Nat
  BY DEF TypeOK, LimiterConfig, Time

\* A limiter restored from an honest entry is honest.
LEMMA RestoredHonest ==
    ASSUME now \in Nat, NEW entry \in Entry, NEW c \in LimiterConfig,
           NEW U \in Seq(Time), NEW cool \in Nat, Honest(entry, U, cool, now)
    PROVE  /\ Restored(entry, c) \in LimiterState
           /\ Honest(Restored(entry, c), U, cool, now)
  <1> DEFINE m == Restored(entry, c)
  <1>1. entry.ts \in Seq(Time) /\ Deque(entry) = entry.ts /\ Deadline(entry) = entry.blockedUntil
        /\ entry.blockedUntil \in Nat
    BY DequeType DEF Entry, Time
  <1>2. InOrder(entry.ts, now) /\ Within(entry.ts, U) /\ entry.blockedUntil <= cool
    BY <1>1 DEF Honest
  <1>3. /\ m \in LimiterState /\ m.blockedUntil <= entry.blockedUntil
        /\ InOrder(m.ts, now) /\ Within(m.ts, entry.ts)
    BY <1>2, RestoredProperties
  <1> HIDE DEF m
  <1>4. m.ts \in Seq(Time) /\ Deque(m) = m.ts /\ Deadline(m) = m.blockedUntil
        /\ m.blockedUntil \in Nat
    BY <1>3, DequeType DEF LimiterState, Time
  <1>5. Within(m.ts, U)
    BY <1>1, <1>2, <1>3, <1>4, WithinTransitive
  <1> QED  BY <1>1, <1>2, <1>3, <1>4, <1>5 DEF Honest, m

\* The limiter a caller is given is one, and honest.
LEMMA ObtainedHonest ==
    ASSUME HInv, NEW n \in Names
    PROVE  /\ Obtained(n) \in LimiterState
           /\ Honest(Obtained(n), uses[n], coolUntil[n], now)
  <1>1. /\ now \in Nat /\ rate[n] \in LimiterConfig
        /\ limiter[n] \in LimiterState \cup {Absent}
        /\ staged[n] \in Entry \cup {Absent}
        /\ uses[n] \in Seq(Time) /\ coolUntil[n] \in Nat
    BY NameTypes DEF HInv
  <1>2. /\ Honest(limiter[n], uses[n], coolUntil[n], now)
        /\ Honest(staged[n], uses[n], coolUntil[n], now)
    BY DEF HInv, NothingAdded
  <1>3. CASE Pruned[n] # Absent
    <2>1. Pruned[n] = limiter[n] /\ limiter[n] # Absent
      BY <1>3 DEF Pruned
    <2>2. Obtained(n) = limiter[n]
      BY <1>3, <2>1 DEF Obtained
    <2> QED  BY <1>1, <1>2, <2>1, <2>2
  <1>4. CASE Pruned[n] = Absent /\ staged[n] # Absent
    <2>1. Obtained(n) = Restored(staged[n], rate[n]) /\ staged[n] \in Entry
      BY <1>1, <1>4 DEF Obtained
    <2> QED  BY <1>1, <1>2, <2>1, RestoredHonest
  <1>5. CASE Pruned[n] = Absent /\ staged[n] = Absent
    <2>1. Obtained(n) = NewLimiter
      BY <1>5 DEF Obtained
    <2> QED  BY <1>1, <2>1, HonestNothing, NewLimiterProperties
  <1> QED  BY <1>3, <1>4, <1>5

\* So is the one that would be given after a start.
LEMMA ViewHonest ==
    ASSUME HInv, NEW n \in Names
    PROVE  /\ View(n) \in LimiterState
           /\ Honest(View(n), uses[n], coolUntil[n], now)
  <1>1. /\ now \in Nat /\ rate[n] \in LimiterConfig
        /\ file[n] \in Entry \cup {Absent}
        /\ uses[n] \in Seq(Time) /\ coolUntil[n] \in Nat
    BY NameTypes DEF HInv
  <1>2. Honest(file[n], uses[n], coolUntil[n], now)
    BY DEF HInv, NothingAdded
  <1>3. CASE running
    BY <1>3, ObtainedHonest DEF View
  <1>4. CASE ~running /\ file[n] # Absent
    <2>1. View(n) = Restored(file[n], rate[n]) /\ file[n] \in Entry
      BY <1>1, <1>4 DEF View
    <2> QED  BY <1>1, <1>2, <2>1, RestoredHonest
  <1>5. CASE ~running /\ file[n] = Absent
    <2>1. View(n) = NewLimiter
      BY <1>5 DEF View
    <2> QED  BY <1>1, <2>1, HonestNothing, NewLimiterProperties
  <1> QED  BY <1>3, <1>4, <1>5

\* A check leaves an honest limiter honest, and its window as full.
LEMMA CheckedHonest ==
    ASSUME now \in Nat, NEW l \in LimiterState, NEW c \in LimiterConfig,
           NEW U \in Seq(Time), NEW cool \in Nat, Honest(l, U, cool, now)
    PROVE  LET m == AfterIsLimited(l, c, now)
           IN  /\ m \in LimiterState
               /\ m.blockedUntil = l.blockedUntil
               /\ Honest(m, U, cool, now)
               /\ \A s \in Int : now - c.window < s => Kept(m.ts, s) = Kept(l.ts, s)
  <1> DEFINE m == AfterIsLimited(l, c, now)
  <1>1. /\ c.window \in Int /\ l.ts \in Seq(Time)
        /\ Deque(l) = l.ts /\ Deadline(l) = l.blockedUntil
    BY DequeType DEF LimiterConfig, LimiterState
  <1>2. InOrder(l.ts, now) /\ Within(l.ts, U) /\ l.blockedUntil <= cool
    BY <1>1 DEF Honest
  <1>3. /\ m \in LimiterState /\ m.blockedUntil = l.blockedUntil
        /\ m.ts \in {l.ts, Cleaned(l.ts, now - c.window)}
        /\ InOrder(m.ts, now)
    BY <1>1, <1>2, AfterIsLimitedProperties
  <1> HIDE DEF m
  <1>4. m.ts \in Seq(Time) /\ Deque(m) = m.ts /\ Deadline(m) = m.blockedUntil
    BY <1>3, DequeType DEF LimiterState
  <1>5. /\ \A s \in Int : Kept(Cleaned(l.ts, now - c.window), s) <= Kept(l.ts, s)
        /\ \A s \in Int : now - c.window <= s =>
              Kept(Cleaned(l.ts, now - c.window), s) = Kept(l.ts, s)
    BY <1>1, KeptCleaned, CleanedKeeps
  <1>6. \A s \in Int : now - c.window < s => Kept(m.ts, s) = Kept(l.ts, s)
    BY <1>1, <1>3, <1>5
  <1>7. Within(m.ts, l.ts)
    <2>1. CASE m.ts = l.ts
      BY <1>1, <2>1, WithinItself
    <2>2. CASE m.ts = Cleaned(l.ts, now - c.window)
      BY <1>5, <2>2 DEF Within
    <2> QED  BY <1>3, <2>1, <2>2
  <1>8. Within(m.ts, U)
    BY <1>1, <1>2, <1>4, <1>7, WithinTransitive
  <1> QED  BY <1>2, <1>3, <1>4, <1>6, <1>8 DEF Honest, m

\* A use now adds one to every window that has begun, and none has more.
LEMMA AppendNow ==
    ASSUME NEW ts \in Seq(Time), NEW t \in Nat, InOrder(ts, t)
    PROVE  /\ Append(ts, t) \in Seq(Time)
           /\ InOrder(Append(ts, t), t)
           /\ \A s \in Int : s <= t => Kept(Append(ts, t), s) = Kept(ts, s) + 1
           /\ \A s \in Int : t < s => Kept(Append(ts, t), s) = 0 /\ Kept(ts, s) = 0
  <1>1. /\ Len(ts) \in Nat /\ DOMAIN ts = 1..Len(ts)
        /\ \A i \in 1..Len(ts) : ts[i] \in Nat /\ ts[i] <= t
    BY LenProperties, ElementOfSeq DEF Time, InOrder
  <1>2. /\ Append(ts, t) \in Seq(Time) /\ Len(Append(ts, t)) = Len(ts) + 1
        /\ \A i \in 1..Len(ts) : Append(ts, t)[i] = ts[i]
        /\ Append(ts, t)[Len(ts) + 1] = t
    BY AppendProperties DEF Time
  <1>3. DOMAIN Append(ts, t) = 1..(Len(ts) + 1)
    BY <1>2, LenProperties
  <1>4. \A i \in 1..(Len(ts) + 1) : Append(ts, t)[i] \in Nat /\ Append(ts, t)[i] <= t
    BY <1>1, <1>2
  <1>5. InOrder(Append(ts, t), t)
    <2>1. ASSUME NEW i \in DOMAIN Append(ts, t), NEW j \in DOMAIN Append(ts, t), i <= j
          PROVE  Append(ts, t)[i] <= Append(ts, t)[j]
      <3>1. CASE j = Len(ts) + 1
        BY <1>2, <1>3, <1>4, <3>1
      <3>2. CASE j # Len(ts) + 1
        <4>1. i \in DOMAIN ts /\ j \in DOMAIN ts
          BY <1>1, <1>3, <2>1, <3>2
        <4> QED  BY <1>1, <1>2, <2>1, <4>1 DEF InOrder
      <3> QED  BY <3>1, <3>2
    <2> QED  BY <1>3, <1>4, <2>1 DEF InOrder
  <1>6. \A s \in Int : s <= t => Kept(Append(ts, t), s) = Kept(ts, s) + 1
    BY AppendKept DEF Time
  <1>7. ASSUME NEW s \in Int, t < s PROVE Kept(Append(ts, t), s) = 0 /\ Kept(ts, s) = 0
    <2>1. \A i \in 1..Len(ts) : ts[i] < s
      BY <1>1, <1>7
    <2>2. \A i \in 1..Len(Append(ts, t)) : Append(ts, t)[i] < s
      BY <1>2, <1>4, <1>7
    <2>3. Kept(ts, s) = 0
      BY <2>1, KeptNone
    <2>4. Kept(Append(ts, t), s) = 0
      BY <1>2, <2>2, KeptNone
    <2> QED  BY <2>3, <2>4
  <1> QED  BY <1>2, <1>5, <1>6, <1>7

\* A use that is recorded in the limiter and in the history.
LEMMA RecordedHonest ==
    ASSUME now \in Nat, NEW l \in LimiterState, NEW U \in Seq(Time), NEW cool \in Nat,
           InOrder(U, now), Honest(l, U, cool, now)
    PROVE  /\ Record(l, now) \in LimiterState
           /\ Honest(Record(l, now), Append(U, now), cool, now)
           /\ Within(U, Append(U, now))
  <1> DEFINE m == Record(l, now)
  <1>1. /\ l.ts \in Seq(Time) /\ Deque(l) = l.ts /\ Deadline(l) = l.blockedUntil
    BY DequeType DEF LimiterState
  <1>2. InOrder(l.ts, now) /\ Within(l.ts, U) /\ l.blockedUntil <= cool
    BY <1>1 DEF Honest
  <1>3. m \in LimiterState /\ m.blockedUntil = l.blockedUntil
    BY RecordProperties DEF Time
  <1>4. m.ts = Append(l.ts, now)
    BY DEF Record, LimiterState
  <1> HIDE DEF m
  <1>5. Deque(m) = m.ts /\ Deadline(m) = m.blockedUntil
    BY <1>3, DequeType
  <1>6. /\ InOrder(Append(l.ts, now), now)
        /\ \A s \in Int : s <= now => Kept(Append(l.ts, now), s) = Kept(l.ts, s) + 1
        /\ \A s \in Int : now < s => Kept(Append(l.ts, now), s) = 0
    BY <1>1, <1>2, AppendNow
  <1>7. /\ \A s \in Int : s <= now => Kept(Append(U, now), s) = Kept(U, s) + 1
        /\ \A s \in Int : now < s => Kept(Append(U, now), s) = 0 /\ Kept(U, s) = 0
    BY AppendNow
  <1>8. \A s \in Int : Kept(l.ts, s) \in Nat /\ Kept(U, s) \in Nat /\ Kept(l.ts, s) <= Kept(U, s)
    BY <1>1, <1>2, KeptType DEF Within
  <1>9. ASSUME NEW s \in Int
        PROVE  /\ Kept(Append(l.ts, now), s) <= Kept(Append(U, now), s)
               /\ Kept(U, s) <= Kept(Append(U, now), s)
    <2> DEFINE a == Kept(l.ts, s)
               b == Kept(U, s)
               a1 == Kept(Append(l.ts, now), s)
               b1 == Kept(Append(U, now), s)
    <2>1. /\ s <= now => a1 = a + 1 /\ b1 = b + 1
          /\ now < s => a1 = 0 /\ b1 = 0 /\ b = 0
          /\ a \in Nat /\ b \in Nat /\ a <= b
      BY <1>6, <1>7, <1>8, Zenon
    <2> HIDE DEF a, b, a1, b1
    <2>2. a1 <= b1 /\ b <= b1
      BY <2>1
    <2> QED  BY <2>2 DEF a1, b, b1
  <1>10. Within(Append(l.ts, now), Append(U, now))
    BY <1>9 DEF Within
  <1>11. Within(U, Append(U, now))
    BY <1>9 DEF Within
  <1> QED  BY <1>2, <1>3, <1>4, <1>5, <1>6, <1>10, <1>11 DEF Honest, m

\* A cool-down that is imposed and entered in the history.
LEMMA BlockedHonest ==
    ASSUME now \in Nat, NEW l \in LimiterState, NEW U \in Seq(Time), NEW cool \in Nat,
           NEW d \in Nat, Honest(l, U, cool, now)
    PROVE  /\ BlockFor(l, now, d) \in LimiterState
           /\ BlockFor(l, now, d).ts = l.ts
           /\ BlockFor(l, now, d).blockedUntil = Larger(l.blockedUntil, now + d)
           /\ Honest(BlockFor(l, now, d), U, Larger(cool, now + d), now)
           /\ Larger(cool, now + d) \in Nat /\ cool <= Larger(cool, now + d)
  <1> DEFINE m == BlockFor(l, now, d)
  <1>1. /\ l.ts \in Seq(Time) /\ Deque(l) = l.ts /\ Deadline(l) = l.blockedUntil
        /\ l.blockedUntil \in Nat
    BY DequeType DEF LimiterState, Time
  <1>2. Larger(l.blockedUntil, now + d) \in Nat /\ Larger(cool, now + d) \in Nat
    BY <1>1 DEF Larger
  <1>3. /\ m \in LimiterState /\ m.ts = l.ts
        /\ m.blockedUntil = Larger(l.blockedUntil, now + d)
    BY <1>2 DEF BlockFor, LimiterState, Time
  <1>4. InOrder(l.ts, now) /\ Within(l.ts, U) /\ l.blockedUntil <= cool
    BY <1>1 DEF Honest
  <1>5. Larger(l.blockedUntil, now + d) <= Larger(cool, now + d) /\ cool <= Larger(cool, now + d)
    BY <1>1, <1>4 DEF Larger
  <1> HIDE DEF m
  <1>6. Deque(m) = m.ts /\ Deadline(m) = m.blockedUntil
    BY <1>3, DequeType
  <1> QED  BY <1>2, <1>3, <1>4, <1>5, <1>6 DEF Honest, m

LEMMA InitHonest == Init => HInv
  <1> SUFFICES ASSUME Init PROVE HInv
    OBVIOUS
  <1>1. rate \in [Names -> LimiterConfig] /\ now \in Nat
    BY PersistenceAssumption DEF Init
  <1>2. TypeOK
    BY <1>1, EmptySeq DEF Init, TypeOK, None, Time, LimiterConfig
  <1>3. HistoryOK
    BY <1>1 DEF Init, HistoryOK, InOrder, LimiterConfig
  <1>4. ASSUME NEW n \in Names
        PROVE  Honest(Absent, uses[n], coolUntil[n], now)
    BY <1>1, <1>2, NameTypes, HonestNothing
  <1>5. NothingAdded
    BY <1>4 DEF Init, None, NothingAdded
  <1> QED  BY <1>2, <1>3, <1>5 DEF HInv

\* Whatever an access does to the limiter it obtains, as long as the history
\* accounts for it.
LEMMA AccessHonest ==
    ASSUME HInv, NEW n \in Names, NEW l \in LimiterState, Access(n, l),
           uses' \in [Names -> Seq(Time)], coolUntil' \in [Names -> Nat],
           \A m \in Names : /\ Within(uses[m], uses'[m]) /\ InOrder(uses'[m], now)
                            /\ coolUntil[m] <= coolUntil'[m],
           Honest(l, uses'[n], coolUntil'[n], now)
    PROVE  HInv'
  <1>1. /\ now' = now /\ rate' = rate /\ file' = file /\ narrowest' = narrowest
        /\ unsaved' = unsaved /\ running' = running /\ now \in Nat
    BY DEF Access, HInv, TypeOK, Time
  <1>2. \A m \in Names :
           /\ limiter'[m] \in {l, limiter[m], Absent}
           /\ limiter'[m] = l => m = n \/ limiter'[m] \in {limiter[m], Absent}
           /\ staged'[m] \in {staged[m], Absent}
    <2>1. DOMAIN staged = Names
      BY DEF HInv, TypeOK
    <2> QED  BY <2>1 DEF Access, Pruned
  <1>3. TypeOK'
    <2>1. limiter' \in [Names -> LimiterState \cup {Absent}]
      BY DEF Access, Pruned, HInv, TypeOK
    <2>2. accessed' \in [Names -> Time] /\ lastPrune' \in Time
      BY DEF Access, HInv, TypeOK, Time
    <2>3. staged' \in [Names -> Entry \cup {Absent}]
      BY DEF Access, HInv, TypeOK
    <2> QED  BY <1>1, <2>1, <2>2, <2>3 DEF HInv, TypeOK, Time
  <1>4. HistoryOK'
    BY <1>1 DEF HInv, HistoryOK
  <1>5. ASSUME NEW m \in Names, NEW x \in LimiterState \cup Entry \cup {Absent},
               Honest(x, uses[m], coolUntil[m], now)
        PROVE  Honest(x, uses'[m], coolUntil'[m], now)
    <2>1. /\ uses[m] \in Seq(Time) /\ uses'[m] \in Seq(Time)
          /\ coolUntil[m] \in Nat /\ coolUntil'[m] \in Nat
          /\ Within(uses[m], uses'[m]) /\ coolUntil[m] <= coolUntil'[m] /\ now <= now
      BY <1>1, NameTypes DEF HInv
    <2> QED  BY ONLY <1>1, <1>5, <2>1, HonestLater
  <1>6. ASSUME NEW m \in Names
        PROVE  /\ Honest(limiter'[m], uses'[m], coolUntil'[m], now)
               /\ Honest(staged'[m], uses'[m], coolUntil'[m], now)
               /\ Honest(file[m], uses'[m], coolUntil'[m], now)
    <2>1. /\ limiter[m] \in LimiterState \cup {Absent}
          /\ staged[m] \in Entry \cup {Absent} /\ file[m] \in Entry \cup {Absent}
      BY NameTypes DEF HInv
    <2>2. /\ Honest(limiter[m], uses'[m], coolUntil'[m], now)
          /\ Honest(staged[m], uses'[m], coolUntil'[m], now)
          /\ Honest(file[m], uses'[m], coolUntil'[m], now)
      BY <1>5, <2>1 DEF HInv, NothingAdded
    <2>3. Honest(Absent, uses'[m], coolUntil'[m], now)
      BY <1>1, HonestNothing
    <2> QED  BY <1>2, <2>2, <2>3
  <1>7. NothingAdded'
    BY <1>1, <1>6 DEF NothingAdded
  <1> QED  BY <1>3, <1>4, <1>7 DEF HInv

LEMMA QueryHonest == ASSUME HInv, NEW n \in Names, Query(n) PROVE HInv'
  <1> DEFINE l == AfterIsLimited(Obtained(n), rate[n], now)
  <1>1. Access(n, l) /\ uses' = uses /\ coolUntil' = coolUntil
    BY DEF Query
  <1>2. /\ uses \in [Names -> Seq(Time)] /\ coolUntil \in [Names -> Nat] /\ now \in Nat
        /\ \A m \in Names : uses[m] \in Seq(Time) /\ coolUntil[m] \in Nat
        /\ rate[n] \in LimiterConfig
    BY DEF HInv, TypeOK, Time
  <1>3. l \in LimiterState /\ Honest(l, uses[n], coolUntil[n], now)
    BY <1>2, ObtainedHonest, CheckedHonest
  <1>4. \A m \in Names : Within(uses[m], uses[m]) /\ InOrder(uses[m], now)
                         /\ coolUntil[m] <= coolUntil[m]
    BY <1>2, WithinItself DEF HInv, HistoryOK
  <1> HIDE DEF l
  <1> QED  BY <1>1, <1>2, <1>3, <1>4, AccessHonest

LEMMA UseHonest == ASSUME HInv, NEW n \in Names, Use(n) PROVE HInv'
  <1> DEFINE l == AfterIsLimited(Obtained(n), rate[n], now)
             m == Record(l, now)
  <1>1. /\ Access(n, m) /\ coolUntil' = coolUntil
        /\ uses' = [uses EXCEPT ![n] = Append(@, now)]
    BY DEF Use
  <1>2. /\ uses \in [Names -> Seq(Time)] /\ coolUntil \in [Names -> Nat] /\ now \in Nat
        /\ \A k \in Names : uses[k] \in Seq(Time) /\ coolUntil[k] \in Nat
        /\ rate[n] \in LimiterConfig
        /\ \A k \in Names : InOrder(uses[k], now)
    BY DEF HInv, TypeOK, Time, HistoryOK
  <1>3. l \in LimiterState /\ Honest(l, uses[n], coolUntil[n], now)
    BY <1>2, ObtainedHonest, CheckedHonest
  <1> HIDE DEF l
  <1>4. /\ m \in LimiterState
        /\ Honest(m, Append(uses[n], now), coolUntil[n], now)
        /\ Within(uses[n], Append(uses[n], now))
    BY <1>2, <1>3, RecordedHonest
  <1>5. Append(uses[n], now) \in Seq(Time) /\ InOrder(Append(uses[n], now), now)
    BY <1>2, AppendNow
  <1> HIDE DEF m
  <1>6. /\ uses' \in [Names -> Seq(Time)] /\ uses'[n] = Append(uses[n], now)
        /\ \A k \in Names \ {n} : uses'[k] = uses[k]
    BY <1>1, <1>2, <1>5
  <1>7. \A k \in Names : Within(uses[k], uses'[k]) /\ InOrder(uses'[k], now)
                         /\ coolUntil[k] <= coolUntil'[k]
    BY <1>1, <1>2, <1>4, <1>5, <1>6, WithinItself
  <1> QED  BY <1>1, <1>2, <1>4, <1>6, <1>7, AccessHonest

LEMMA BlockHonest ==
    ASSUME HInv, NEW n \in Names, NEW d \in CoolDowns, Block(n, d) PROVE HInv'
  <1> DEFINE l == BlockFor(Obtained(n), now, d)
             until == Larger(coolUntil[n], now + d)
  <1>1. /\ Access(n, l) /\ uses' = uses
        /\ coolUntil' = [coolUntil EXCEPT ![n] = until]
    BY DEF Block
  <1>2. /\ uses \in [Names -> Seq(Time)] /\ coolUntil \in [Names -> Nat] /\ now \in Nat
        /\ \A k \in Names : uses[k] \in Seq(Time) /\ coolUntil[k] \in Nat
        /\ \A k \in Names : InOrder(uses[k], now)
        /\ d \in Nat
    BY PersistenceAssumption DEF HInv, TypeOK, Time, HistoryOK
  <1>3. /\ l \in LimiterState /\ Honest(l, uses[n], until, now)
        /\ until \in Nat /\ coolUntil[n] <= until
    BY <1>2, ObtainedHonest, BlockedHonest
  <1> HIDE DEF l, until
  <1>4. /\ coolUntil' \in [Names -> Nat] /\ coolUntil'[n] = until
        /\ \A k \in Names \ {n} : coolUntil'[k] = coolUntil[k]
    BY <1>1, <1>2, <1>3
  <1>5. \A k \in Names : Within(uses[k], uses'[k]) /\ InOrder(uses'[k], now)
                         /\ coolUntil[k] <= coolUntil'[k]
    BY <1>1, <1>2, <1>3, <1>4, WithinItself
  <1> QED  BY <1>1, <1>2, <1>3, <1>4, <1>5, AccessHonest

\* A process ends; what is written to the file, if anything, is honest.
LEMMA StopHonest == ASSUME HInv, Stop PROVE HInv'
  <1>1. /\ now' = now /\ rate' = rate /\ uses' = uses /\ coolUntil' = coolUntil
        /\ narrowest' = narrowest /\ limiter' = None /\ staged' = None
        /\ file' = ExportedState /\ now \in Nat
    BY DEF Stop, ProcessEnds, HInv, TypeOK, Time
  <1>2. ASSUME NEW n \in Names
        PROVE  /\ ExportedState[n] \in Entry \cup {Absent}
               /\ Honest(ExportedState[n], uses[n], coolUntil[n], now)
    <2>1. /\ rate[n] \in LimiterConfig /\ limiter[n] \in LimiterState \cup {Absent}
          /\ uses[n] \in Seq(Time) /\ coolUntil[n] \in Nat
          /\ Honest(limiter[n], uses[n], coolUntil[n], now)
      BY NameTypes DEF HInv, NothingAdded
    <2>2. CASE limiter[n] = Absent
      BY <1>1, <2>1, <2>2, HonestNothing DEF ExportedState
    <2>3. CASE limiter[n] # Absent
      <3> DEFINE l == limiter[n]
                 e == Exported(l, rate[n])
      <3>1. ExportedState[n] = e /\ l \in LimiterState
        BY <2>1, <2>3 DEF ExportedState
      <3>2. /\ l.ts \in Seq(Time) /\ Deque(l) = l.ts /\ Deadline(l) = l.blockedUntil
            /\ l.blockedUntil \in Nat
        BY <3>1, DequeType DEF LimiterState, Time
      <3>3. InOrder(l.ts, now) /\ Within(l.ts, uses[n]) /\ l.blockedUntil <= coolUntil[n]
        BY <2>1, <3>2 DEF Honest
      <3>4. /\ e \in Entry \cup {Absent} /\ Deadline(e) <= l.blockedUntil
            /\ InOrder(Deque(e), now) /\ Within(Deque(e), l.ts)
        BY <1>1, <2>1, <3>1, <3>3, ExportedProperties
      <3> HIDE DEF l, e
      <3>5. Deque(e) \in Seq(Time) /\ Deadline(e) \in Nat
        BY <3>4, DequeType
      <3>6. Within(Deque(e), uses[n])
        BY <2>1, <3>2, <3>3, <3>4, <3>5, WithinTransitive
      <3> QED  BY <2>1, <3>1, <3>2, <3>3, <3>4, <3>5, <3>6 DEF Honest
    <2> QED  BY <2>2, <2>3
  <1>3. TypeOK'
    <2>1. file' \in [Names -> Entry \cup {Absent}]
      BY <1>1, <1>2 DEF ExportedState
    <2>2. /\ limiter' \in [Names -> LimiterState \cup {Absent}]
          /\ staged' \in [Names -> Entry \cup {Absent}]
      BY <1>1 DEF None
    <2>3. /\ accessed' \in [Names -> Time] /\ lastPrune' \in Time /\ running' \in BOOLEAN
          /\ unsaved' \subseteq Names
      BY DEF Stop, ProcessEnds, HInv, TypeOK, Time
    <2> QED  BY <1>1, <2>1, <2>2, <2>3 DEF HInv, TypeOK
  <1>4. HistoryOK'
    BY <1>1 DEF HInv, HistoryOK
  <1>5. NothingAdded'
    BY <1>1, <1>2, NameTypes, HonestNothing DEF HInv, NothingAdded, None
  <1> QED  BY <1>3, <1>4, <1>5 DEF HInv

LEMMA DieHonest == ASSUME HInv, Die PROVE HInv'
  <1>1. /\ now' = now /\ rate' = rate /\ uses' = uses /\ coolUntil' = coolUntil
        /\ narrowest' = narrowest /\ limiter' = None /\ staged' = None
        /\ file' = file /\ now \in Nat
    BY DEF Die, ProcessEnds, HInv, TypeOK, Time
  <1>2. TypeOK'
    <2>1. /\ limiter' \in [Names -> LimiterState \cup {Absent}]
          /\ staged' \in [Names -> Entry \cup {Absent}]
      BY <1>1 DEF None
    <2>2. /\ accessed' \in [Names -> Time] /\ lastPrune' \in Time /\ running' \in BOOLEAN
          /\ unsaved' \subseteq Names
      BY DEF Die, ProcessEnds, HInv, TypeOK, Time
    <2> QED  BY <1>1, <2>1, <2>2 DEF HInv, TypeOK
  <1>3. HistoryOK'
    BY <1>1 DEF HInv, HistoryOK
  <1>4. NothingAdded'
    BY <1>1, NameTypes, HonestNothing DEF HInv, NothingAdded, None
  <1> QED  BY <1>2, <1>3, <1>4 DEF HInv

LEMMA StartHonest == ASSUME HInv, Start PROVE HInv'
  <1>1. /\ now' = now /\ uses' = uses /\ coolUntil' = coolUntil /\ limiter' = limiter
        /\ staged' = file /\ file' = file /\ running' = TRUE /\ unsaved' = unsaved
        /\ accessed' = accessed /\ lastPrune' = lastPrune
        /\ rate' \in [Names -> LimiterConfig]
    BY PersistenceAssumption DEF Start
  <1>2. \A n \in Names : narrowest'[n] \in Nat /\ narrowest'[n] <= rate'[n].window
    BY <1>1 DEF Start, HInv, TypeOK, LimiterConfig
  <1>3. narrowest' \in [Names -> Nat]
    BY <1>2 DEF Start
  <1>4. TypeOK'
    BY <1>1, <1>3 DEF HInv, TypeOK
  <1>5. HistoryOK'
    BY <1>1, <1>2 DEF HInv, HistoryOK
  <1>6. NothingAdded'
    BY <1>1 DEF HInv, NothingAdded
  <1> QED  BY <1>4, <1>5, <1>6 DEF HInv

LEMMA TickHonest == ASSUME HInv, Tick PROVE HInv'
  <1>1. /\ now' = now + 1 /\ now \in Nat /\ now + 1 \in Nat /\ now <= now + 1
        /\ uses' = uses /\ coolUntil' = coolUntil /\ limiter' = limiter
        /\ staged' = staged /\ file' = file /\ rate' = rate /\ narrowest' = narrowest
    BY DEF Tick, process, history, HInv, TypeOK, Time
  <1>2. TypeOK'
    BY <1>1 DEF Tick, process, history, HInv, TypeOK, Time
  <1>3. ASSUME NEW n \in Names PROVE InOrder(uses[n], now + 1)
    BY <1>1, NameTypes, InOrderLater DEF HInv, HistoryOK
  <1>4. HistoryOK'
    BY <1>1, <1>3 DEF HInv, HistoryOK
  <1>5. ASSUME NEW n \in Names, NEW x \in LimiterState \cup Entry \cup {Absent},
               Honest(x, uses[n], coolUntil[n], now)
        PROVE  Honest(x, uses[n], coolUntil[n], now + 1)
    <2>1. /\ uses[n] \in Seq(Time) /\ coolUntil[n] \in Nat /\ coolUntil[n] <= coolUntil[n]
          /\ Within(uses[n], uses[n])
      BY NameTypes, WithinItself DEF HInv
    <2> QED  BY ONLY <1>1, <1>5, <2>1, HonestLater
  <1>6. NothingAdded'
    BY <1>1, <1>5, NameTypes DEF HInv, NothingAdded
  <1> QED  BY <1>2, <1>4, <1>6 DEF HInv

\* HInv is inductive.
LEMMA NextHonest == ASSUME HInv, [Next]_vars PROVE HInv'
  <1>1. CASE \E n \in Names : Query(n) \/ Use(n)
    BY <1>1, QueryHonest, UseHonest
  <1>2. CASE \E n \in Names, d \in CoolDowns : Block(n, d)
    BY <1>2, BlockHonest
  <1>3. CASE UNCHANGED vars
    BY <1>3 DEF vars, process, history, HInv, TypeOK, HistoryOK, NothingAdded
  <1> QED
    BY <1>1, <1>2, <1>3, StopHonest, DieHonest, StartHonest, TickHonest DEF Next

\* HInv holds in every reachable state.
THEOREM HonestAlways == Spec => []HInv
  <1> QED  BY InitHonest, NextHonest, PTL DEF Spec

\* Every variable has its type.
THEOREM TypeCorrect == Spec => []TypeOK
  <1>1. HInv => TypeOK
    BY DEF HInv
  <1> QED  BY <1>1, HonestAlways, PTL

\* No limiter that a caller is given, before or after any number of restarts,
\* crashes and edits, counts a use twice or cools down for longer than was asked.
THEOREM NoneInvented == Spec => []NothingInvented
  <1>1. ASSUME HInv, NEW n \in Names
        PROVE  /\ Len(Recent(View(n).ts, rate[n].window)) <= Len(Recent(uses[n], rate[n].window))
               /\ View(n).blockedUntil <= coolUntil[n]
    <2> DEFINE v == View(n)
    <2>1. /\ now \in Nat /\ rate[n].window \in Nat /\ uses[n] \in Seq(Time)
      BY <1>1, NameTypes DEF HInv
    <2>2. v \in LimiterState /\ Honest(v, uses[n], coolUntil[n], now)
      BY <1>1, ViewHonest
    <2> HIDE DEF v
    <2>3. v.ts \in Seq(Time) /\ Deque(v) = v.ts /\ Deadline(v) = v.blockedUntil
      BY <2>2, DequeType DEF LimiterState
    <2>4. /\ Len(Recent(v.ts, rate[n].window)) = Kept(v.ts, now - rate[n].window + 1)
          /\ Len(Recent(uses[n], rate[n].window)) = Kept(uses[n], now - rate[n].window + 1)
      BY <2>1, <2>3, RecentProperties
    <2>5. now - rate[n].window + 1 \in Int
      BY <2>1
    <2> QED  BY <2>2, <2>3, <2>4, <2>5 DEF Honest, Within, v
  <1>2. HInv => NothingInvented
    BY <1>1 DEF NothingInvented
  <1> QED  BY <1>2, HonestAlways, PTL

---------------------------------------------------------------------------
(* Nothing is forgotten.                                                   *)

\* x holds every use of U inside the window, and a cool-down that still runs.
Complete(x, U, cool, t, window) ==
    /\ Covered(U, Deque(x), t - window)
    /\ t < cool => Deadline(x) = cool

\* Where the state of a name is: in its limiter, staged for it, or in the file.
Held(n) == IF ~running THEN file[n] ELSE IF limiter[n] # Absent THEN limiter[n] ELSE staged[n]

NothingLost ==
    \A n \in Names \ unsaved :
        Complete(Held(n), uses[n], coolUntil[n], now, narrowest[n])

\* No use is later than the limiter's last access.
AccessedLast ==
    \A n \in Names : limiter[n] # Absent =>
        \A i \in 1..Len(uses[n]) : uses[n][i] <= accessed[n]

\* No cool-down of a name that may be pruned lasts longer than the least time
\* for which a limiter may be idle.
CoolDownsOutlived == \A n \in Prunable \cap Blockable : \A d \in CoolDowns : d <= MinIdle

\* So it is over when the limiter is pruned.
CoolDownsShort ==
    \A n \in Prunable :
        /\ coolUntil[n] <= now + MinIdle
        /\ limiter[n] # Absent => coolUntil[n] <= accessed[n] + MinIdle

\* The inductive invariant of this section.
LInv == IInv /\ HInv /\ AccessedLast /\ CoolDownsShort /\ NothingLost

\* What covers a cover, of a window at least as wide, covers.
LEMMA CoveredTransitive ==
    ASSUME NEW U \in Seq(Time), NEW mid \in Seq(Time), NEW ts \in Seq(Time),
           NEW a \in Int, NEW b \in Int, b <= a, Covered(U, mid, a), Covered(mid, ts, b)
    PROVE  Covered(U, ts, a)
  <1> SUFFICES ASSUME NEW s \in Int, a < s PROVE Kept(U, s) <= Kept(ts, s)
    BY DEF Covered
  <1>1. Kept(ts, s) \in Nat /\ Kept(mid, s) \in Nat /\ Kept(U, s) \in Nat
    BY KeptType
  <1>2. b < s
    OBVIOUS
  <1>3. Kept(U, s) <= Kept(mid, s) /\ Kept(mid, s) <= Kept(ts, s)
    BY <1>2 DEF Covered
  <1> QED  BY <1>1, <1>3

\* What was complete stays so when the window moves on or shrinks.
LEMMA CompleteLater ==
    ASSUME NEW x, NEW U, NEW cool \in Nat, NEW t \in Nat, NEW u \in Nat, t <= u,
           NEW v \in Nat, NEW w \in Nat, t - v <= u - w,
           Complete(x, U, cool, t, v)
    PROVE  Complete(x, U, cool, u, w)
  BY DEF Complete, Covered

\* What holds the window of a complete state, of no narrower a rate, and the
\* running cool-down, is complete.
LEMMA CompleteCover ==
    ASSUME now \in Nat,
           NEW x \in LimiterState \cup Entry \cup {Absent},
           NEW y \in LimiterState \cup Entry \cup {Absent},
           NEW U \in Seq(Time), NEW cool \in Nat,
           NEW v \in Nat, NEW w \in Nat, v <= w,
           Complete(x, U, cool, now, v),
           Covered(Deque(x), Deque(y), now - w),
           now < Deadline(x) => Deadline(y) = Deadline(x)
    PROVE  Complete(y, U, cool, now, v)
  <1>1. Deque(x) \in Seq(Time) /\ Deque(y) \in Seq(Time)
    BY DequeType
  <1>2. Covered(U, Deque(y), now - v)
    <2>1. now - w <= now - v /\ now - w \in Int /\ now - v \in Int
      OBVIOUS
    <2>2. Covered(U, Deque(x), now - v)
      BY DEF Complete
    <2> QED  BY <1>1, <2>1, <2>2, CoveredTransitive
  <1> QED  BY <1>2 DEF Complete

LEMMA RestoredComplete ==
    ASSUME now \in Nat, NEW entry \in Entry, NEW c \in LimiterConfig,
           NEW U \in Seq(Time), NEW cool \in Nat, NEW v \in Nat, v <= c.window,
           Honest(entry, U, cool, now), Complete(entry, U, cool, now, v)
    PROVE  Complete(Restored(entry, c), U, cool, now, v)
  <1> DEFINE m == Restored(entry, c)
  <1>1. Deque(entry) = entry.ts /\ Deadline(entry) = entry.blockedUntil /\ c.window \in Nat
    BY DequeType DEF LimiterConfig
  <1>2. InOrder(entry.ts, now)
    BY <1>1 DEF Honest
  <1>3. /\ m \in LimiterState
        /\ now < entry.blockedUntil => m.blockedUntil = entry.blockedUntil
        /\ Covered(entry.ts, m.ts, now - c.window)
    BY <1>2, RestoredProperties
  <1> HIDE DEF m
  <1>4. Deque(m) = m.ts /\ Deadline(m) = m.blockedUntil
    BY <1>3, DequeType
  <1>5. Covered(Deque(entry), Deque(m), now - c.window)
    BY <1>1, <1>3, <1>4
  <1>6. now < Deadline(entry) => Deadline(m) = Deadline(entry)
    BY <1>1, <1>3, <1>4
  <1>7. Complete(m, U, cool, now, v)
    BY <1>1, <1>3, <1>5, <1>6, CompleteCover
  <1> QED  BY <1>7 DEF m

\* Of a limiter that has gone stale nothing is needed any more.
LEMMA StaleDispensable ==
    ASSUME LInv, NEW n \in Names, Stale(n),
           NEW x \in LimiterState \cup Entry \cup {Absent}
    PROVE  Complete(x, uses[n], coolUntil[n], now, narrowest[n])
  <1>1. /\ now \in Nat /\ rate[n].window \in Nat /\ uses[n] \in Seq(Time)
        /\ narrowest[n] \in Nat /\ coolUntil[n] \in Nat /\ accessed[n] \in Nat
        /\ narrowest[n] <= rate[n].window /\ MinIdle \in Nat
    BY NameTypes, PersistenceAssumption DEF LInv, HInv, HistoryOK
  <1>2. n \in Prunable /\ limiter[n] # Absent /\ now - accessed[n] > IdleTTL(n)
    BY DEF Stale
  <1>3. accessed[n] < now - narrowest[n] /\ accessed[n] + MinIdle < now
    BY <1>1, <1>2 DEF IdleTTL, Larger
  <1>4. ~(now < coolUntil[n])
    BY <1>1, <1>2, <1>3 DEF LInv, CoolDownsShort
  <1>5. \A i \in 1..Len(uses[n]) : uses[n][i] \in Nat /\ uses[n][i] <= accessed[n]
    BY <1>1, <1>2, ElementOfSeq DEF LInv, AccessedLast, Time
  <1>6. ASSUME NEW s \in Int, now - narrowest[n] < s PROVE Kept(uses[n], s) = 0
    <2>1. \A i \in 1..Len(uses[n]) : uses[n][i] < s
      BY <1>1, <1>3, <1>5, <1>6
    <2> QED  BY <1>1, <2>1, KeptNone
  <1>7. \A s \in Int : Kept(Deque(x), s) \in Nat
    BY DequeType, KeptType
  <1>8. Covered(uses[n], Deque(x), now - narrowest[n])
    BY <1>6, <1>7 DEF Covered
  <1> QED  BY <1>4, <1>8 DEF Complete

\* The limiter a caller is given is complete.
LEMMA ObtainedComplete ==
    ASSUME LInv, running, NEW n \in Names \ unsaved
    PROVE  Complete(Obtained(n), uses[n], coolUntil[n], now, narrowest[n])
  <1>1. /\ now \in Nat /\ rate[n] \in LimiterConfig
        /\ limiter[n] \in LimiterState \cup {Absent} /\ staged[n] \in Entry \cup {Absent}
        /\ uses[n] \in Seq(Time) /\ narrowest[n] \in Nat /\ coolUntil[n] \in Nat
        /\ narrowest[n] <= rate[n].window
    BY NameTypes DEF LInv, HInv, HistoryOK
  <1>2. Complete(Held(n), uses[n], coolUntil[n], now, narrowest[n])
    BY DEF LInv, NothingLost
  <1>3. Obtained(n) \in LimiterState
    BY ObtainedHonest DEF LInv
  <1>4. CASE Pruned[n] # Absent
    <2>1. Pruned[n] = limiter[n] /\ limiter[n] # Absent
      BY <1>4 DEF Pruned
    <2> QED  BY <1>2, <1>4, <2>1 DEF Obtained, Held
  <1>5. CASE Pruned[n] = Absent /\ limiter[n] # Absent
    <2>1. Stale(n)
      BY <1>5 DEF Pruned
    <2> QED  BY <1>3, <2>1, StaleDispensable
  <1>6. CASE limiter[n] = Absent /\ staged[n] # Absent
    <2>1. Pruned[n] = Absent
      BY <1>6 DEF Pruned
    <2>2. Obtained(n) = Restored(staged[n], rate[n]) /\ staged[n] \in Entry
      BY <1>1, <1>6, <2>1 DEF Obtained
    <2>3. /\ Honest(staged[n], uses[n], coolUntil[n], now)
          /\ Complete(staged[n], uses[n], coolUntil[n], now, narrowest[n])
      BY <1>2, <1>6 DEF LInv, HInv, NothingAdded, Held
    <2> QED  BY <1>1, <2>2, <2>3, RestoredComplete
  <1>7. CASE limiter[n] = Absent /\ staged[n] = Absent
    <2>1. Pruned[n] = Absent
      BY <1>7 DEF Pruned
    <2>2. Obtained(n) = NewLimiter
      BY <1>7, <2>1 DEF Obtained
    <2>3. Complete(Absent, uses[n], coolUntil[n], now, narrowest[n])
      BY <1>2, <1>7 DEF Held
    <2>4. Deque(NewLimiter) = Deque(Absent) /\ Deadline(NewLimiter) = Deadline(Absent)
      BY DEF NewLimiter, Deque, Deadline
    <2> QED  BY <2>2, <2>3, <2>4 DEF Complete
  <1> QED  BY <1>4, <1>5, <1>6, <1>7

LEMMA ViewComplete ==
    ASSUME LInv, NEW n \in Names \ unsaved
    PROVE  Complete(View(n), uses[n], coolUntil[n], now, narrowest[n])
  <1>1. /\ now \in Nat /\ rate[n] \in LimiterConfig /\ file[n] \in Entry \cup {Absent}
        /\ uses[n] \in Seq(Time) /\ narrowest[n] \in Nat /\ coolUntil[n] \in Nat
        /\ narrowest[n] <= rate[n].window
    BY NameTypes DEF LInv, HInv, HistoryOK
  <1>2. CASE running
    BY <1>2, ObtainedComplete DEF View
  <1>3. CASE ~running
    <2>1. /\ Complete(file[n], uses[n], coolUntil[n], now, narrowest[n])
          /\ Honest(file[n], uses[n], coolUntil[n], now)
      BY <1>3 DEF LInv, HInv, NothingLost, NothingAdded, Held
    <2>2. CASE file[n] # Absent
      <3>1. View(n) = Restored(file[n], rate[n]) /\ file[n] \in Entry
        BY <1>1, <1>3, <2>2 DEF View
      <3> QED  BY <1>1, <2>1, <3>1, RestoredComplete
    <2>3. CASE file[n] = Absent
      <3>1. View(n) = NewLimiter
        BY <1>3, <2>3 DEF View
      <3>2. Deque(NewLimiter) = Deque(Absent) /\ Deadline(NewLimiter) = Deadline(Absent)
        BY DEF NewLimiter, Deque, Deadline
      <3> QED  BY <2>1, <2>3, <3>1, <3>2 DEF Complete
    <2> QED  BY <2>2, <2>3
  <1> QED  BY <1>2, <1>3

LEMMA InitComplete == Init => LInv
  <1> SUFFICES ASSUME Init PROVE LInv
    OBVIOUS
  <1>1. IInv /\ HInv
    BY InitInv, InitHonest
  <1>2. AccessedLast /\ CoolDownsShort
    BY <1>1, PersistenceAssumption
       DEF Init, AccessedLast, CoolDownsShort, None, HInv, TypeOK, Time
  <1>3. ASSUME NEW n \in Names
        PROVE  Complete(Held(n), uses[n], coolUntil[n], now, narrowest[n])
    <2>1. Held(n) = Absent /\ uses[n] = <<>> /\ coolUntil[n] = 0
      BY DEF Init, None, Held
    <2>2. now \in Nat
      BY <1>1, NameTypes DEF HInv
    <2>3. Covered(<<>>, <<>>, now - narrowest[n])
      BY KeptEmpty DEF Covered
    <2> QED  BY <2>1, <2>2, <2>3 DEF Complete, Deque
  <1>4. NothingLost
    BY <1>3 DEF NothingLost
  <1> QED  BY <1>1, <1>2, <1>4 DEF LInv

\* Whatever an access does to the limiter it obtains, as long as that is complete.
LEMMA AccessComplete ==
    ASSUME LInv, HInv', NEW n \in Names, NEW l \in LimiterState, Access(n, l),
           \A m \in Names \ {n} : uses'[m] = uses[m] /\ coolUntil'[m] = coolUntil[m],
           n \in Prunable => coolUntil'[n] <= now + MinIdle,
           n \notin unsaved => Complete(l, uses'[n], coolUntil'[n], now, narrowest[n])
    PROVE  LInv'
  <1>1. /\ now' = now /\ running /\ running' /\ narrowest' = narrowest
        /\ unsaved' = unsaved /\ now \in Nat /\ l # Absent
        /\ Prunable \subseteq Names
    BY AbsentAssumption, PersistenceAssumption DEF Access, LInv, HInv, TypeOK, Time
  <1>2. limiter'[n] = l /\ accessed'[n] = now
    BY DEF Access, Pruned
  <1>3. ASSUME NEW m \in Names \ {n}
        PROVE  /\ uses'[m] = uses[m] /\ coolUntil'[m] = coolUntil[m]
               /\ staged'[m] = staged[m]
               /\ limiter'[m] # Absent => limiter'[m] = limiter[m] /\ accessed'[m] = accessed[m]
               /\ limiter'[m] = Absent => limiter[m] = Absent \/ Stale(m)
    <2>1. staged \in [Names -> Entry \cup {Absent}]
      BY DEF LInv, HInv, TypeOK
    <2> QED  BY <2>1 DEF Access, Pruned
  <1>4. IInv'
    BY AccessInv DEF LInv
  <1>5. AccessedLast'
    <2>1. \A i \in 1..Len(uses'[n]) : uses'[n][i] <= now
      <3>1. InOrder(uses'[n], now) /\ uses'[n] \in Seq(Time)
        BY <1>1 DEF HInv, HistoryOK, TypeOK
      <3> QED  BY <3>1, LenProperties DEF InOrder
    <2> QED  BY <1>2, <1>3, <2>1 DEF LInv, AccessedLast
  <1>6. CoolDownsShort'
    BY <1>1, <1>2, <1>3 DEF LInv, CoolDownsShort
  <1>7. ASSUME NEW m \in Names \ unsaved
        PROVE  Complete(Held(m)', uses'[m], coolUntil'[m], now, narrowest[m])
    <2>1. CASE m = n
      BY <1>1, <1>2, <2>1 DEF Held
    <2>2. CASE m # n /\ limiter'[m] # Absent
      <3>1. Held(m)' = Held(m) /\ uses'[m] = uses[m] /\ coolUntil'[m] = coolUntil[m]
        BY <1>1, <1>3, <2>2 DEF Held
      <3> QED  BY <3>1 DEF LInv, NothingLost
    <2>3. CASE m # n /\ limiter'[m] = Absent
      <3>1. Held(m)' = staged[m] /\ uses'[m] = uses[m] /\ coolUntil'[m] = coolUntil[m]
        BY <1>1, <1>3, <2>3 DEF Held
      <3>2. CASE limiter[m] = Absent
        <4>1. Held(m) = staged[m]
          BY <1>1, <3>2 DEF Held
        <4> QED  BY <3>1, <4>1 DEF LInv, NothingLost
      <3>3. CASE Stale(m)
        <4>1. staged[m] \in LimiterState \cup Entry \cup {Absent}
          BY NameTypes DEF LInv, HInv
        <4> QED  BY <3>1, <3>3, <4>1, StaleDispensable
      <3> QED  BY <1>3, <2>3, <3>2, <3>3
    <2> QED  BY <2>1, <2>2, <2>3
  <1>8. NothingLost'
    BY <1>1, <1>7 DEF NothingLost
  <1> QED  BY <1>4, <1>5, <1>6, <1>8 DEF LInv

\* A check leaves a complete limiter complete.
LEMMA CheckedComplete ==
    ASSUME LInv, running, NEW n \in Names \ unsaved
    PROVE  Complete(AfterIsLimited(Obtained(n), rate[n], now),
                    uses[n], coolUntil[n], now, narrowest[n])
  <1> DEFINE o == Obtained(n)
             l == AfterIsLimited(o, rate[n], now)
  <1>1. /\ now \in Nat /\ rate[n] \in LimiterConfig /\ rate[n].window \in Nat
        /\ uses[n] \in Seq(Time) /\ narrowest[n] \in Nat /\ coolUntil[n] \in Nat
        /\ narrowest[n] <= rate[n].window
    BY NameTypes DEF LInv, HInv, HistoryOK
  <1>2. o \in LimiterState /\ Honest(o, uses[n], coolUntil[n], now)
    BY ObtainedHonest DEF LInv
  <1>3. Complete(o, uses[n], coolUntil[n], now, narrowest[n])
    BY ObtainedComplete
  <1> HIDE DEF o
  <1>4. /\ l \in LimiterState /\ l.blockedUntil = o.blockedUntil
        /\ \A s \in Int : now - rate[n].window < s => Kept(l.ts, s) = Kept(o.ts, s)
    BY <1>1, <1>2, CheckedHonest
  <1> HIDE DEF l
  <1>5. /\ Deque(o) = o.ts /\ Deque(l) = l.ts /\ l.ts \in Seq(Time) /\ o.ts \in Seq(Time)
        /\ Deadline(o) = Deadline(l)
    BY <1>2, <1>4, DequeType DEF LimiterState
  <1>6. Covered(Deque(o), Deque(l), now - rate[n].window)
    <2>1. \A s \in Int : Kept(l.ts, s) \in Nat
      BY <1>5, KeptType
    <2> QED  BY <1>4, <1>5, <2>1 DEF Covered
  <1>7. Complete(l, uses[n], coolUntil[n], now, narrowest[n])
    BY <1>1, <1>2, <1>3, <1>4, <1>5, <1>6, CompleteCover
  <1> QED  BY <1>7 DEF l, o

LEMMA QueryComplete == ASSUME LInv, NEW n \in Names, Query(n) PROVE LInv'
  <1> DEFINE l == AfterIsLimited(Obtained(n), rate[n], now)
  <1>1. Access(n, l) /\ uses' = uses /\ coolUntil' = coolUntil /\ running
    BY DEF Query, Access
  <1>2. now \in Nat /\ rate[n] \in LimiterConfig /\ uses[n] \in Seq(Time) /\ coolUntil[n] \in Nat
    BY NameTypes DEF LInv, HInv
  <1>3. l \in LimiterState
    BY <1>2, ObtainedHonest, CheckedHonest DEF LInv
  <1>4. n \notin unsaved => Complete(l, uses[n], coolUntil[n], now, narrowest[n])
    BY <1>1, CheckedComplete
  <1>5. HInv'
    BY QueryHonest DEF LInv
  <1>6. n \in Prunable => coolUntil[n] <= now + MinIdle
    BY DEF LInv, CoolDownsShort
  <1> HIDE DEF l
  <1> QED  BY <1>1, <1>3, <1>4, <1>5, <1>6, AccessComplete

LEMMA UseComplete == ASSUME LInv, NEW n \in Names, Use(n) PROVE LInv'
  <1> DEFINE l == AfterIsLimited(Obtained(n), rate[n], now)
             m == Record(l, now)
             U == uses[n]
  <1>1. /\ Access(n, m) /\ coolUntil' = coolUntil /\ running
        /\ uses' = [uses EXCEPT ![n] = Append(U, now)]
    BY DEF Use, Access
  <1>2. /\ now \in Nat /\ rate[n] \in LimiterConfig /\ U \in Seq(Time) /\ coolUntil[n] \in Nat
        /\ narrowest[n] \in Nat /\ InOrder(U, now) /\ uses \in [Names -> Seq(Time)]
    BY NameTypes DEF LInv, HInv, HistoryOK, TypeOK
  <1>3. l \in LimiterState /\ Honest(l, U, coolUntil[n], now)
    BY <1>2, ObtainedHonest, CheckedHonest DEF LInv
  <1>4. n \notin unsaved => Complete(l, U, coolUntil[n], now, narrowest[n])
    BY <1>1, CheckedComplete
  <1>5. HInv'
    BY UseHonest DEF LInv
  <1>6. n \in Prunable => coolUntil[n] <= now + MinIdle
    BY DEF LInv, CoolDownsShort
  <1> HIDE DEF l
  <1>7. m \in LimiterState /\ m.blockedUntil = l.blockedUntil /\ m.ts = Append(l.ts, now)
    BY <1>2, <1>3, RecordedHonest DEF Record, LimiterState
  <1> HIDE DEF m
  <1>8. /\ Deque(l) = l.ts /\ Deque(m) = m.ts /\ Deadline(l) = l.blockedUntil
        /\ Deadline(m) = m.blockedUntil /\ l.ts \in Seq(Time)
    BY <1>3, <1>7, DequeType DEF LimiterState
  <1>9. InOrder(l.ts, now)
    BY <1>3, <1>8 DEF Honest
  <1>10. ASSUME n \notin unsaved
         PROVE  Complete(m, Append(U, now), coolUntil[n], now, narrowest[n])
    <2>1. Complete(l, U, coolUntil[n], now, narrowest[n])
      BY <1>4, <1>10
    <2>2. ASSUME NEW s \in Int, now - narrowest[n] < s
          PROVE  Kept(Append(U, now), s) <= Kept(m.ts, s)
      <3> DEFINE a == Kept(U, s)
                 b == Kept(l.ts, s)
                 a1 == Kept(Append(U, now), s)
                 b1 == Kept(Append(l.ts, now), s)
      <3>1. /\ s <= now => a1 = a + 1
            /\ now < s => a1 = 0
        BY <1>2, AppendNow
      <3>2. /\ s <= now => b1 = b + 1
            /\ now < s => b1 = 0
        BY <1>2, <1>8, <1>9, AppendNow
      <3>3. a \in Nat /\ b \in Nat
        BY <1>2, <1>8, KeptType
      <3>4. a <= b
        BY <1>8, <2>1, <2>2 DEF Complete, Covered
      <3> HIDE DEF a, b, a1, b1
      <3>5. a1 <= b1
        BY <1>2, <3>1, <3>2, <3>3, <3>4
      <3> QED  BY <1>7, <3>5 DEF a1, b1
    <2> HIDE DEF U
    <2> QED  BY <1>7, <1>8, <2>1, <2>2 DEF Complete, Covered
  <1>11. /\ uses'[n] = Append(U, now)
         /\ \A k \in Names \ {n} : uses'[k] = uses[k] /\ coolUntil'[k] = coolUntil[k]
    BY <1>1, <1>2
  <1> HIDE DEF U
  <1> QED  BY <1>1, <1>5, <1>6, <1>7, <1>10, <1>11, AccessComplete

LEMMA BlockComplete ==
    ASSUME CoolDownsOutlived, LInv, NEW n \in Names, NEW d \in CoolDowns, Block(n, d)
    PROVE  LInv'
  <1> DEFINE o == Obtained(n)
             l == BlockFor(o, now, d)
             until == Larger(coolUntil[n], now + d)
  <1>1. /\ Access(n, l) /\ uses' = uses /\ running /\ n \in Blockable
        /\ coolUntil' = [coolUntil EXCEPT ![n] = until]
    BY DEF Block, Access
  <1>2. /\ now \in Nat /\ uses[n] \in Seq(Time) /\ coolUntil[n] \in Nat
        /\ coolUntil \in [Names -> Nat] /\ d \in Nat /\ MinIdle \in Nat
    BY NameTypes, PersistenceAssumption DEF LInv, HInv, TypeOK, Time
  <1>3. o \in LimiterState /\ Honest(o, uses[n], coolUntil[n], now)
    BY ObtainedHonest DEF LInv
  <1>4. n \notin unsaved => Complete(o, uses[n], coolUntil[n], now, narrowest[n])
    BY <1>1, ObtainedComplete
  <1>5. HInv'
    BY BlockHonest DEF LInv
  <1> HIDE DEF o
  <1>6. /\ l \in LimiterState /\ l.ts = o.ts
        /\ l.blockedUntil = Larger(o.blockedUntil, now + d)
    BY <1>2, <1>3, BlockedHonest
  <1> HIDE DEF l
  <1>7. /\ Deque(o) = o.ts /\ Deadline(o) = o.blockedUntil /\ o.blockedUntil \in Nat
        /\ Deque(l) = l.ts /\ Deadline(l) = l.blockedUntil
    BY <1>3, <1>6, DequeType DEF LimiterState, Time
  <1>8. n \in Prunable => until <= now + MinIdle
    <2>1. n \in Prunable => d <= MinIdle /\ coolUntil[n] <= now + MinIdle
      BY <1>1 DEF CoolDownsOutlived, LInv, CoolDownsShort
    <2> QED  BY <1>2, <2>1 DEF Larger
  <1>9. ASSUME n \notin unsaved
        PROVE  Complete(l, uses[n], until, now, narrowest[n])
    <2>1. Complete(o, uses[n], coolUntil[n], now, narrowest[n])
      BY <1>4, <1>9
    <2>2. Covered(uses[n], Deque(l), now - narrowest[n])
      BY <1>6, <1>7, <2>1 DEF Complete
    <2>3. Deadline(l) = until
      <3>1. o.blockedUntil <= coolUntil[n]
        BY <1>3, <1>7 DEF Honest
      <3>2. now < coolUntil[n] => o.blockedUntil = coolUntil[n]
        BY <1>7, <2>1 DEF Complete
      <3> QED  BY <1>2, <1>6, <1>7, <3>1, <3>2 DEF Larger
    <2> QED  BY <2>2, <2>3 DEF Complete
  <1> HIDE DEF until
  <1>10. /\ coolUntil'[n] = until
         /\ \A k \in Names \ {n} : uses'[k] = uses[k] /\ coolUntil'[k] = coolUntil[k]
    BY <1>1, <1>2
  <1> QED  BY <1>1, <1>5, <1>6, <1>8, <1>9, <1>10, AccessComplete

\* What a clean stop saves of a limiter is complete; what is only staged goes.
LEMMA StopComplete == ASSUME LInv, Stop PROVE LInv'
  <1>1. /\ now' = now /\ rate' = rate /\ uses' = uses /\ coolUntil' = coolUntil
        /\ narrowest' = narrowest /\ limiter' = None /\ file' = ExportedState
        /\ unsaved' = unsaved \cup {n \in Names : staged[n] # Absent}
        /\ running /\ ~running'
    BY DEF Stop, ProcessEnds
  <1>2. IInv' /\ HInv'
    BY <1>1, EndInv, StopHonest DEF LInv, Stop
  <1>3. AccessedLast' /\ CoolDownsShort'
    BY <1>1, PersistenceAssumption DEF AccessedLast, LInv, CoolDownsShort, None
  <1>4. ASSUME NEW n \in Names, n \notin unsaved'
        PROVE  Complete(Held(n)', uses[n], coolUntil[n], now, narrowest[n])
    <2> DEFINE l == limiter[n]
               e == Exported(l, rate[n])
    <2>1. n \in Names \ unsaved /\ staged[n] = Absent
      BY <1>1, <1>4
    <2>2. /\ now \in Nat /\ rate[n] \in LimiterConfig /\ rate[n].window \in Nat
          /\ l \in LimiterState \cup {Absent}
          /\ uses[n] \in Seq(Time) /\ narrowest[n] \in Nat /\ coolUntil[n] \in Nat
          /\ narrowest[n] <= rate[n].window /\ Honest(l, uses[n], coolUntil[n], now)
      BY NameTypes DEF LInv, HInv, HistoryOK, NothingAdded
    <2>3. Held(n)' = ExportedState[n] /\ Held(n) = l
      BY <1>1, <2>1 DEF Held
    <2>4. Complete(l, uses[n], coolUntil[n], now, narrowest[n])
      BY <2>1, <2>3 DEF LInv, NothingLost
    <2>5. CASE l = Absent
      <3>1. ExportedState[n] = Absent
        BY <2>5 DEF ExportedState
      <3> QED  BY <2>3, <2>4, <2>5, <3>1
    <2>6. CASE l # Absent
      <3>1. ExportedState[n] = e /\ l \in LimiterState
        BY <2>2, <2>6 DEF ExportedState
      <3>2. Deque(l) = l.ts /\ Deadline(l) = l.blockedUntil
        BY <3>1, DequeType
      <3>3. InOrder(l.ts, now)
        BY <2>2, <3>2 DEF Honest
      <3>4. /\ e \in Entry \cup {Absent}
            /\ now < l.blockedUntil => Deadline(e) = l.blockedUntil
            /\ Covered(l.ts, Deque(e), now - rate[n].window)
        BY <2>2, <3>1, <3>3, ExportedProperties
      <3> HIDE DEF l, e
      <3>5. Complete(e, uses[n], coolUntil[n], now, narrowest[n])
        BY <2>2, <2>4, <3>1, <3>2, <3>4, CompleteCover
      <3> QED  BY <2>3, <3>1, <3>5
    <2> QED  BY <2>5, <2>6
  <1>5. NothingLost'
    BY <1>1, <1>4 DEF NothingLost
  <1> QED  BY <1>2, <1>3, <1>5 DEF LInv

LEMMA DieComplete == ASSUME LInv, Die PROVE LInv'
  <1>1. /\ now' = now /\ rate' = rate /\ coolUntil' = coolUntil /\ limiter' = None
        /\ unsaved' = Names
    BY DEF Die, ProcessEnds
  <1>2. IInv' /\ HInv'
    BY <1>1, EndInv, DieHonest DEF LInv, Die
  <1>3. AccessedLast' /\ CoolDownsShort'
    BY <1>1, PersistenceAssumption DEF AccessedLast, LInv, CoolDownsShort, None
  <1>4. NothingLost'
    BY <1>1 DEF NothingLost
  <1> QED  BY <1>2, <1>3, <1>4 DEF LInv

\* The file's entries are staged as they are, and a window only ever narrows.
LEMMA StartComplete == ASSUME LInv, Start PROVE LInv'
  <1>1. /\ now' = now /\ uses' = uses /\ coolUntil' = coolUntil /\ limiter' = limiter
        /\ staged' = file /\ unsaved' = unsaved /\ accessed' = accessed
        /\ ~running /\ running'
        /\ \A n \in Names : limiter[n] = Absent
    BY DEF Start, LInv, IInv, Gone
  <1>2. IInv' /\ HInv'
    BY StartInv, StartHonest DEF LInv
  <1>3. AccessedLast' /\ CoolDownsShort'
    BY <1>1 DEF AccessedLast, LInv, CoolDownsShort
  <1>4. ASSUME NEW n \in Names \ unsaved
        PROVE  Complete(Held(n)', uses[n], coolUntil[n], now, narrowest'[n])
    <2>1. Held(n) = file[n] /\ Held(n)' = file[n]
      BY <1>1 DEF Held
    <2>2. Complete(file[n], uses[n], coolUntil[n], now, narrowest[n])
      BY <2>1 DEF LInv, NothingLost
    <2>3. /\ now \in Nat /\ narrowest[n] \in Nat /\ narrowest'[n] \in Nat
          /\ coolUntil[n] \in Nat
      BY <1>2, NameTypes DEF LInv, HInv, TypeOK
    <2>4. narrowest'[n] <= narrowest[n]
      <3>1. rate'[n].window \in Nat
        BY <1>2 DEF HInv, TypeOK, LimiterConfig
      <3> QED  BY <2>3, <3>1 DEF Start
    <2>5. now <= now /\ now - narrowest[n] <= now - narrowest'[n]
      BY <2>3, <2>4
    <2> QED  BY <2>1, <2>2, <2>3, <2>5, CompleteLater
  <1>5. NothingLost'
    BY <1>1, <1>4 DEF NothingLost
  <1> QED  BY <1>2, <1>3, <1>5 DEF LInv

LEMMA TickComplete == ASSUME LInv, Tick PROVE LInv'
  <1>1. /\ now' = now + 1 /\ now \in Nat /\ MinIdle \in Nat
        /\ uses' = uses /\ coolUntil' = coolUntil /\ limiter' = limiter
        /\ staged' = staged /\ file' = file /\ narrowest' = narrowest
        /\ accessed' = accessed /\ unsaved' = unsaved /\ running' = running
    BY PersistenceAssumption DEF Tick, process, history, LInv, HInv, TypeOK, Time
  <1>2. IInv' /\ HInv'
    BY TickInv, TickHonest DEF LInv
  <1>3. AccessedLast'
    BY <1>1 DEF AccessedLast, LInv
  <1>4. CoolDownsShort'
    <2>1. \A n \in Prunable : coolUntil[n] \in Nat
      BY NameTypes, PersistenceAssumption DEF LInv, HInv
    <2> QED  BY <1>1, <2>1 DEF LInv, CoolDownsShort
  <1>5. ASSUME NEW n \in Names \ unsaved
        PROVE  Complete(Held(n)', uses[n], coolUntil[n], now + 1, narrowest[n])
    <2>1. Held(n)' = Held(n)
      BY <1>1 DEF Held
    <2>2. Complete(Held(n), uses[n], coolUntil[n], now, narrowest[n])
      BY DEF LInv, NothingLost
    <2>3. narrowest[n] \in Nat /\ coolUntil[n] \in Nat
      BY NameTypes DEF LInv, HInv
    <2>4. now + 1 \in Nat /\ now <= now + 1 /\ now - narrowest[n] <= now + 1 - narrowest[n]
      BY <1>1, <2>3
    <2> QED  BY <1>1, <2>1, <2>2, <2>3, <2>4, CompleteLater
  <1>6. NothingLost'
    BY <1>1, <1>5 DEF NothingLost
  <1> QED  BY <1>2, <1>3, <1>4, <1>6 DEF LInv

\* LInv is inductive.
LEMMA NextComplete == ASSUME CoolDownsOutlived, LInv, [Next]_vars PROVE LInv'
  <1>1. CASE \E n \in Names : Query(n) \/ Use(n)
    BY <1>1, QueryComplete, UseComplete
  <1>2. CASE \E n \in Names, d \in CoolDowns : Block(n, d)
    BY <1>2, BlockComplete
  <1>3. CASE UNCHANGED vars
    <2>1. IInv' /\ HInv'
      BY <1>3, NextInv, NextHonest DEF LInv
    <2> QED
      BY <1>3, <2>1
         DEF vars, process, history, LInv, AccessedLast, CoolDownsShort, NothingLost, Held
  <1> QED
    BY <1>1, <1>2, <1>3, StopComplete, DieComplete, StartComplete, TickComplete DEF Next

\* Creating, pruning, saving, editing and restoring limiters in any order forgets
\* no consumed quota and no cool-down, but those a process took with it.  A name
\* that may be pruned keeps its cool-down as long as that is no longer than the
\* least idle time: key limiters, which are blocked, are not pruned, unless the
\* name of their API or the key itself contains "_ip_" or "_user_".
THEOREM QuotaRemembered == ASSUME CoolDownsOutlived PROVE Spec => []QuotaKept
  <1>1. ASSUME LInv, NEW n \in Names \ unsaved PROVE Remembered(n)
    <2> DEFINE v == View(n)
               w == rate[n].window
    <2>1. /\ now \in Nat /\ w \in Nat /\ uses[n] \in Seq(Time)
          /\ narrowest[n] \in Nat /\ narrowest[n] <= w
      BY <1>1, NameTypes DEF LInv, HInv, HistoryOK
    <2>2. v \in LimiterState
      BY <1>1, ViewHonest DEF LInv
    <2>3. Complete(v, uses[n], coolUntil[n], now, narrowest[n])
      BY <1>1, ViewComplete
    <2> HIDE DEF v, w
    <2>4. v.ts \in Seq(Time) /\ Deque(v) = v.ts /\ Deadline(v) = v.blockedUntil
      BY <2>2, DequeType DEF LimiterState
    <2>5. /\ now - narrowest[n] + 1 \in Int /\ now - w + 1 \in Int
          /\ now - w + 1 <= now - narrowest[n] + 1
          /\ now - narrowest[n] < now - narrowest[n] + 1
      BY <2>1
    <2>6. Kept(uses[n], now - narrowest[n] + 1) <= Kept(v.ts, now - narrowest[n] + 1)
      BY <2>3, <2>4, <2>5 DEF Complete, Covered
    <2>7. Kept(v.ts, now - narrowest[n] + 1) <= Kept(v.ts, now - w + 1)
      BY <2>4, <2>5, KeptMonotonic
    <2>8. /\ Len(Recent(uses[n], narrowest[n])) = Kept(uses[n], now - narrowest[n] + 1)
          /\ Len(Recent(v.ts, w)) = Kept(v.ts, now - w + 1)
      BY <2>1, <2>4, RecentProperties
    <2>9. /\ Kept(uses[n], now - narrowest[n] + 1) \in Nat
          /\ Kept(v.ts, now - narrowest[n] + 1) \in Nat /\ Kept(v.ts, now - w + 1) \in Nat
      BY <2>1, <2>4, <2>5, KeptType
    <2>10. Len(Recent(uses[n], narrowest[n])) <= Len(Recent(v.ts, w))
      BY <2>6, <2>7, <2>8, <2>9
    <2>11. now < coolUntil[n] => v.blockedUntil = coolUntil[n]
      BY <2>3, <2>4 DEF Complete
    <2>12. coolUntil[n] \in Nat
      BY <1>1, NameTypes DEF LInv, HInv
    <2> QED  BY <2>1, <2>10, <2>11, <2>12 DEF Remembered, v, w
  <1>2. LInv => QuotaKept
    BY <1>1 DEF QuotaKept
  <1>3. LInv /\ [Next]_vars => LInv'
    BY NextComplete
  <1> QED  BY <1>2, <1>3, InitComplete, PTL DEF Spec
=============================================================================
