------------------------- MODULE RequestQueueProofs -------------------------
(***************************************************************************)
(* Safety of the request queue for every number of requests, keys, workers *)
(* and retries, and every queue size.                                      *)
(***************************************************************************)
EXTENDS RequestQueue, FiniteSetTheorems, TLAPS

\* A request's future and its place agree.  In particular a request that was
\* answered with a response is nowhere the queue could still touch its future.
FutureFitsPlace ==
    \A r \in Requests :
        /\ place[r] = "new" <=> future[r] = "none"
        /\ future[r] = "rejected" => place[r] = "gone"
        /\ place[r] \in {"delivered", "streaming", "orphan"} =>
              future[r] \in {"ok", "error"}
        /\ future[r] \in {"ok", "error"} =>
              place[r] \in {"delivered", "streaming", "orphan", "gone"}

\* A request that may reach the processor again has a try left.
TriesLeft ==
    \A r \in Requests :
        place[r] \in {"new", "heap", "parked", "awake", "retry"} =>
            attempts[r] < MaxTries

\* Only a request that was tried is retried.
Retried ==
    \A r \in Requests : place[r] \in {"upstream", "retry"} => attempts[r] > 0

\* Whoever may release a key knows which.
KeyKnown ==
    \A r \in Requests :
        place[r] \in Using \/ closing[r] > 0 => key[r] \in Keys

\* The part of the inductive invariant about single requests.
PerRequest ==
    /\ TypeOK
    /\ FutureFitsPlace
    /\ TriesLeft
    /\ Retried
    /\ KeyKnown
    /\ NotLost

---------------------------------------------------------------------------

LEMMA MaxTriesType == MaxTries \in Nat \ {0} /\ MaxRetries <= MaxTries
  BY QueueAssumption DEF MaxTries

LEMMA InitPerRequest == Init => PerRequest
  <1> SUFFICES ASSUME Init PROVE PerRequest
    OBVIOUS
  <1>1. TypeOK
    <2>1. /\ locked \in [Keys -> BOOLEAN]
          /\ cooling \in [Keys -> BOOLEAN]
          /\ notify \in BOOLEAN
      BY Zenon DEF Init
    <2>2. /\ attempts \in [Requests -> Nat]
          /\ closing \in [Requests -> Nat]
          /\ charged \in [Requests -> Int]
          /\ kept \in [Requests -> Nat]
          /\ left \subseteq Keys
          /\ raised \in [Requests -> Nat]
          /\ expiries \in [Keys -> Nat]
          /\ stolen \in [Keys -> Nat]
      BY DEF Init
    <2>3. /\ future \in [Requests -> Futures]
          /\ place \in [Requests -> Places]
          /\ key \in [Requests -> Keys \cup {NoKey}]
          /\ phase \in {"open", "clearing", "closed"}
      BY DEF Init, Futures, Places
    <2> QED
      BY <2>1, <2>2, <2>3 DEF TypeOK
  <1>2. FutureFitsPlace /\ NotLost /\ Retried
    BY DEF Init, FutureFitsPlace, NotLost, Retried
  <1>3. TriesLeft
    BY MaxTriesType DEF Init, TriesLeft
  <1>4. KeyKnown
    BY DEF Init, KeyKnown, Using
  <1> QED
    BY <1>1, <1>2, <1>3, <1>4 DEF PerRequest

LEMMA ClientPerRequest == PerRequest /\ Client => PerRequest'
  <1> SUFFICES ASSUME PerRequest, NEW r \in Requests,
                      Submit(r) \/ GiveUp(r) \/ StartStream(r) \/ DropStream(r)
               PROVE  PerRequest'
    BY DEF Client
  <1> USE MaxTriesType
      DEF PerRequest, TypeOK, FutureFitsPlace, TriesLeft, Retried, KeyKnown,
          NotLost, Futures, Answers, Places, Using
  <1>1. CASE Submit(r)
    BY <1>1 DEF Submit
  <1>2. CASE GiveUp(r)
    BY <1>2 DEF GiveUp
  <1>3. CASE StartStream(r)
    BY <1>3 DEF StartStream
  <1>4. CASE DropStream(r)
    BY <1>4 DEF DropStream
  <1> QED
    BY <1>1, <1>2, <1>3, <1>4

LEMMA WorkerPerRequest ==
    ASSUME PerRequest, NEW r \in Requests, Worker(r) PROVE PerRequest'
  <1> USE MaxTriesType
      DEF PerRequest, TypeOK, FutureFitsPlace, TriesLeft, Retried, KeyKnown,
          NotLost, Futures, Answers, Places, Using, Turn, Claimable, Done
  <1>1. CASE Drop(r)
    BY <1>1 DEF Drop
  <1>2. CASE Expire(r)
    BY <1>2 DEF Expire
  <1>3. CASE OverQuota(r)
    BY <1>3 DEF OverQuota
  <1>4. CASE Park(r)
    BY <1>4 DEF Park
  <1>5. ASSUME NEW k \in Keys, GiveBack(r, k) PROVE PerRequest'
    BY <1>5 DEF GiveBack
  <1>6. ASSUME NEW k \in Keys, Grant(r, k) PROVE PerRequest'
    BY <1>6 DEF Grant, Charge
  <1> QED
    BY <1>1, <1>2, <1>3, <1>4, <1>5, <1>6 DEF Worker

LEMMA UpstreamPerRequest ==
    ASSUME PerRequest, NEW r \in Requests, Upstream(r) PROVE PerRequest'
  <1> USE MaxTriesType
      DEF PerRequest, TypeOK, FutureFitsPlace, TriesLeft, Retried, KeyKnown,
          NotLost, Futures, Answers, Places, Using, Done, Free, UnlockKey, Closes, Charge
  <1>1. CASE Success(r)
    BY <1>1 DEF Success
  <1>2. CASE StreamedSuccess(r)
    BY <1>2 DEF StreamedSuccess
  <1>3. CASE Raises(r)
    BY <1>3 DEF Raises
  <1>4. ASSUME NEW streamed \in BOOLEAN, Abandoned(r, streamed) PROVE PerRequest'
    BY <1>4 DEF Abandoned
  <1>5. ASSUME NEW streamed \in BOOLEAN, RetryStatus(r, streamed) PROVE PerRequest'
    BY <1>5, QueueAssumption DEF RetryStatus, Retries
  <1>6. ASSUME NEW streamed \in BOOLEAN, RetryUnfreed(r, streamed) PROVE PerRequest'
    BY <1>6, QueueAssumption DEF RetryUnfreed, Retries
  <1>7. ASSUME NEW streamed \in BOOLEAN, NEW quarantine \in BOOLEAN,
               ErrorStatus(r, streamed, quarantine)
        PROVE  PerRequest'
    BY <1>7 DEF ErrorStatus
  <1> QED
    BY <1>1, <1>2, <1>3, <1>4, <1>5, <1>6, <1>7 DEF Upstream

LEMMA ClosingPerRequest ==
    ASSUME PerRequest, NEW r \in Requests, Closing(r) \/ EndStream(r)
    PROVE  PerRequest'
  <1> USE MaxTriesType
      DEF PerRequest, TypeOK, FutureFitsPlace, TriesLeft, Retried, KeyKnown,
          NotLost, Futures, Answers, Places, Using, Free, UnlockKey, Charge
  <1>1. CASE CloseReturns(r)
    BY <1>1 DEF CloseReturns
  <1>2. CASE CloseRaises(r)
    BY <1>2 DEF CloseRaises
  <1>3. CASE EndStream(r)
    BY <1>3 DEF EndStream
  <1> QED
    BY <1>1, <1>2, <1>3 DEF Closing

LEMMA ClockPerRequest == PerRequest /\ (Clock \/ NotifyAll) => PerRequest'
  <1> SUFFICES ASSUME PerRequest, Clock \/ NotifyAll PROVE PerRequest'
    OBVIOUS
  <1> USE MaxTriesType
      DEF PerRequest, TypeOK, FutureFitsPlace, TriesLeft, Retried, KeyKnown,
          NotLost, Futures, Answers, Places, Using, Done
  <1>1. CASE NotifyAll
    BY <1>1 DEF NotifyAll
  <1>2. ASSUME NEW r \in Requests, TimerFires(r) PROVE PerRequest'
    BY <1>2 DEF TimerFires
  <1>3. ASSUME NEW r \in Requests, Requeue(r) PROVE PerRequest'
    BY <1>3 DEF Requeue
  <1>4. ASSUME NEW k \in Keys, LockExpires(k) PROVE PerRequest'
    BY <1>4 DEF LockExpires
  <1>5. ASSUME NEW k \in Keys, CoolDownEnds(k) PROVE PerRequest'
    BY <1>5 DEF CoolDownEnds
  <1> QED
    BY <1>1, <1>2, <1>3, <1>4, <1>5 DEF Clock

LEMMA ControlPerRequest ==
    PerRequest /\ (ClearQueue \/ BeginClose \/ EndClose) => PerRequest'
  <1> SUFFICES ASSUME PerRequest, ClearQueue \/ BeginClose \/ EndClose
               PROVE  PerRequest'
    OBVIOUS
  <1> USE MaxTriesType
      DEF PerRequest, TypeOK, FutureFitsPlace, TriesLeft, Retried, KeyKnown,
          NotLost, Futures, Answers, Places, Using, Clear
  <1>1. CASE ClearQueue
    BY <1>1 DEF ClearQueue
  <1>2. CASE BeginClose
    BY <1>2 DEF BeginClose
  <1>3. CASE EndClose
    BY <1>3 DEF EndClose
  <1> QED
    BY <1>1, <1>2, <1>3

LEMMA NextPerRequest == PerRequest /\ [Next]_vars => PerRequest'
  <1> SUFFICES ASSUME PerRequest, [Next]_vars PROVE PerRequest'
    OBVIOUS
  <1>1. CASE UNCHANGED vars
    <2>1. TypeOK'
      BY <1>1 DEF vars, PerRequest, TypeOK
    <2>2. FutureFitsPlace' /\ TriesLeft' /\ Retried' /\ KeyKnown' /\ NotLost'
      BY <1>1 DEF vars, PerRequest, FutureFitsPlace, TriesLeft, Retried,
                  KeyKnown, NotLost
    <2> QED
      BY <2>1, <2>2 DEF PerRequest
  <1> QED
    BY <1>1, ClientPerRequest, WorkerPerRequest, UpstreamPerRequest,
       ClosingPerRequest, ClockPerRequest, ControlPerRequest DEF Next

---------------------------------------------------------------------------
(* Locks and holders.  A step is one of seven kinds as far as they go.       *)

\* Nobody but the requests of R begins or ends to hold a key.
OthersHold(R) == \A s \in Requests \ R : Holds(s)' <=> Holds(s)

\* No key changes hands.
SameUsers ==
    /\ UNCHANGED <<locked, left, expiries, stolen>>
    /\ OthersHold({})
    /\ \A r \in Requests : Holds(r) => key'[r] = key[r]

\* r becomes a holder of k.
Enters(r, k) ==
    /\ ~locked[k]
    /\ ~Holds(r)
    /\ Holds(r)'
    /\ OthersHold({r})
    /\ key' = [key EXCEPT ![r] = k]
    /\ locked' = [locked EXCEPT ![k] = ~KeyConcurrency]
    /\ UNCHANGED <<left, expiries, stolen>>

\* r stops holding its key and unlocks it.
Leaves(r) ==
    /\ Holds(r)
    /\ ~Holds(r)'
    /\ OthersHold({r})
    /\ locked' = [locked EXCEPT ![key[r]] = FALSE]
    /\ left' = left \ {key[r]}
    /\ UNCHANGED <<key, expiries, stolen>>

\* r stops holding its key and leaves it as it is.
Walks(r) ==
    /\ Holds(r)
    /\ ~Holds(r)'
    /\ OthersHold({r})
    /\ left \subseteq left'
    /\ locked[key[r]] => key[r] \in left'
    /\ UNCHANGED <<locked, key, expiries, stolen>>

\* A failing close unlocks k, whoever holds it.
Steals(k) ==
    /\ locked' = [locked EXCEPT ![k] = FALSE]
    /\ stolen' = [stolen EXCEPT ![k] = IF locked[k] THEN @ + 1 ELSE @]
    /\ left' = left \ {k}
    /\ OthersHold({})
    /\ UNCHANGED <<key, expiries>>

LockStep ==
    \/ SameUsers
    \/ \E r \in Requests, k \in Keys : Enters(r, k)
    \/ \E r \in Requests : Leaves(r) \/ Walks(r)
    \/ \E k \in Keys : Steals(k)
    \/ \E k \in Keys : LockExpires(k)
    \/ EndClose

LEMMA NextLockStep ==
    PerRequest /\ [Next]_vars => LockStep /\ (phase = "closed" => phase' = "closed")
  <1> SUFFICES ASSUME PerRequest, [Next]_vars
               PROVE  LockStep /\ (phase = "closed" => phase' = "closed")
    OBVIOUS
  <1> USE DEF PerRequest, TypeOK, Futures, Answers, Places, Using, Free, UnlockKey,
          Holds, OthersHold, FutureFitsPlace
  <1>1. CASE UNCHANGED vars
    BY <1>1 DEF vars, LockStep, SameUsers
  <1>2. ASSUME NEW r \in Requests,
               Submit(r) \/ GiveUp(r) \/ StartStream(r) \/ DropStream(r)
        PROVE  SameUsers /\ UNCHANGED phase
    BY <1>2 DEF Submit, GiveUp, StartStream, DropStream, SameUsers
  <1>3. ASSUME NEW r \in Requests,
               NotifyAll \/ TimerFires(r) \/ Requeue(r) \/ CloseReturns(r)
        PROVE  SameUsers /\ UNCHANGED phase
    BY <1>3 DEF NotifyAll, TimerFires, Requeue, CloseReturns, SameUsers
  <1>4. ASSUME NEW r \in Requests, Drop(r) \/ Expire(r) \/ OverQuota(r) \/ Park(r)
        PROVE  SameUsers /\ UNCHANGED phase
    BY <1>4 DEF Drop, Expire, OverQuota, Park, Turn, Claimable, Done, SameUsers
  <1>5. ASSUME NEW r \in Requests, NEW k \in Keys, GiveBack(r, k)
        PROVE  SameUsers /\ UNCHANGED phase
    BY <1>5 DEF GiveBack, SameUsers
  <1>6. ASSUME NEW r \in Requests, NEW k \in Keys, Grant(r, k)
        PROVE  Enters(r, k) /\ UNCHANGED phase
    BY <1>6 DEF Grant, Turn, Claimable, Available, Enters
  <1>7. ASSUME NEW r \in Requests, StreamedSuccess(r)
        PROVE  SameUsers /\ UNCHANGED phase
    BY <1>7 DEF StreamedSuccess, SameUsers
  <1>8. ASSUME NEW r \in Requests, NEW streamed \in BOOLEAN, NEW quarantine \in BOOLEAN,
               \/ Success(r) \/ Raises(r)
               \/ Abandoned(r, streamed) \/ RetryStatus(r, streamed)
               \/ ErrorStatus(r, streamed, quarantine)
        PROVE  Leaves(r) /\ UNCHANGED phase
    BY <1>8 DEF Success, Raises, EndStream, Abandoned, RetryStatus, Retries,
                ErrorStatus, Leaves
  <1>8e. ASSUME NEW r \in Requests, EndStream(r)
         PROVE  (SameUsers \/ Leaves(r)) /\ UNCHANGED phase
    <2>1. CASE future[r] = "ok"
      <3>1. Leaves(r) /\ UNCHANGED phase
        BY <1>8e, <2>1 DEF EndStream, Leaves
      <3> QED
        BY <3>1
    <2>2. CASE future[r] # "ok"
      <3>1. SameUsers /\ UNCHANGED phase
        BY <1>8e, <2>2 DEF EndStream, SameUsers
      <3> QED
        BY <3>1
    <2> QED
      BY <2>1, <2>2
  <1>8u. ASSUME NEW r \in Requests, NEW streamed \in BOOLEAN, RetryUnfreed(r, streamed)
         PROVE  Walks(r) /\ UNCHANGED phase
    BY <1>8u DEF RetryUnfreed, Retries, Walks
  <1>9. ASSUME NEW r \in Requests, CloseRaises(r)
        PROVE  (\E k \in Keys : Steals(k)) /\ UNCHANGED phase
    <2>1. PICK k \in Keys : k = key[r]
      BY <1>9 DEF CloseRaises, KeyKnown
    <2>2. Steals(k) /\ UNCHANGED phase
      BY <1>9, <2>1 DEF CloseRaises, Steals
    <2> QED
      BY <2>2
  <1>10. ASSUME NEW k \in Keys, CoolDownEnds(k) PROVE SameUsers /\ UNCHANGED phase
    BY <1>10 DEF CoolDownEnds, SameUsers
  <1>11. ASSUME NEW k \in Keys, LockExpires(k) PROVE UNCHANGED phase
    BY <1>11 DEF LockExpires
  <1>12. CASE ClearQueue \/ BeginClose
    <2>1. SameUsers /\ phase = "open"
      BY <1>12 DEF ClearQueue, BeginClose, Clear, SameUsers
    <2> QED
      BY <2>1 DEF LockStep
  <1>13. CASE EndClose
    BY <1>13 DEF LockStep, EndClose
  <1>14. TRUE \in BOOLEAN
    OBVIOUS
  <1>15. CASE Client
    BY <1>2, <1>15 DEF Client, LockStep
  <1>16. CASE \E r \in Requests : Worker(r)
    BY <1>4, <1>5, <1>6, <1>16 DEF Worker, LockStep
  <1>17. ASSUME NEW r \in Requests, Upstream(r)
         PROVE  (SameUsers \/ Leaves(r) \/ Walks(r)) /\ UNCHANGED phase
    <2>1. ASSUME Success(r) \/ Raises(r) PROVE Leaves(r) /\ UNCHANGED phase
      BY <1>8, <1>14, <2>1, Zenon
    <2>2. ASSUME NEW streamed \in BOOLEAN,
                 Abandoned(r, streamed) \/ RetryStatus(r, streamed)
          PROVE  Leaves(r) /\ UNCHANGED phase
      BY <1>8, <1>14, <2>2, Zenon
    <2>3. ASSUME NEW streamed \in BOOLEAN, NEW quarantine \in BOOLEAN,
                 ErrorStatus(r, streamed, quarantine)
          PROVE  Leaves(r) /\ UNCHANGED phase
      BY <1>8, <2>3, Zenon
    <2>4. \/ Success(r) \/ Raises(r) \/ StreamedSuccess(r)
          \/ \E streamed \in BOOLEAN :
                Abandoned(r, streamed) \/ RetryStatus(r, streamed)
          \/ \E streamed \in BOOLEAN : RetryUnfreed(r, streamed)
          \/ \E streamed, quarantine \in BOOLEAN : ErrorStatus(r, streamed, quarantine)
      BY <1>17, Zenon DEF Upstream
    <2> QED
      BY <1>7, <1>8u, <2>1, <2>2, <2>3, <2>4, Zenon
  <1>18. CASE \E r \in Requests : Closing(r)
    <2>1. PICK r \in Requests : CloseReturns(r) \/ CloseRaises(r)
      BY <1>18 DEF Closing
    <2>2. CASE CloseReturns(r)
      BY <1>3, <2>2 DEF LockStep
    <2>3. CASE CloseRaises(r)
      BY <1>9, <2>3 DEF LockStep
    <2> QED
      BY <2>1, <2>2, <2>3
  <1>19. CASE Clock
    BY <1>3, <1>10, <1>11, <1>19 DEF Clock, LockStep
  <1>20. CASE NotifyAll
    BY <1>20 DEF NotifyAll, LockStep, SameUsers
  <1>21. CASE \E r \in Requests : Upstream(r) \/ EndStream(r)
    BY <1>8e, <1>17, <1>21 DEF LockStep
  <1> QED
    BY <1>1, <1>12, <1>13, <1>15, <1>16, <1>18, <1>19, <1>20, <1>21 DEF Next

LEMMA UsersFinite ==
    ASSUME NEW k
    PROVE  /\ IsFiniteSet(Users(k))
           /\ Users(k) \subseteq Requests
           /\ Cardinality(Users(k)) \in Nat
  <1>1. Users(k) \in SUBSET Requests
    BY DEF Users
  <1>2. IsFiniteSet(Users(k))
    BY <1>1, QueueAssumption, FS_Subset
  <1> QED
    BY <1>1, <1>2, FS_CardinalityType

\* An unlocked key may lose its holders, a locked one keeps one or is left so.
LEMMA LockHasUserStep ==
    ASSUME TypeOK, KeyKnown, LockHasUser, LockStep,
           phase = "closed" => phase' = "closed"
    PROVE  LockHasUser'
  <1> SUFFICES ASSUME phase' # "closed", NEW k \in Keys, locked'[k]
               PROVE  Users(k)' # {} \/ k \in left'
    BY DEF LockHasUser
  <1>1. locked[k] /\ k \notin left => \E u \in Requests : Holds(u) /\ key[u] = k
    BY DEF LockHasUser, Users
  <1>2. ASSUME NEW u \in Requests, Holds(u)', key'[u] = k
        PROVE  Users(k)' # {}
    BY <1>2 DEF Users
  <1> USE DEF TypeOK
  <1>3. CASE SameUsers
    BY <1>1, <1>2, <1>3 DEF SameUsers, OthersHold
  <1>4. ASSUME NEW r \in Requests, NEW j \in Keys, Enters(r, j) PROVE Users(k)' # {} \/ k \in left'
    <2>1. CASE k = j
      BY <1>2, <1>4, <2>1 DEF Enters, OthersHold
    <2>2. CASE k # j
      BY <1>1, <1>2, <1>4, <2>2 DEF Enters, OthersHold
    <2> QED
      BY <2>1, <2>2
  <1>5. ASSUME NEW r \in Requests, Leaves(r) PROVE Users(k)' # {} \/ k \in left'
    <2>1. key[r] \in Keys
      BY <1>5 DEF Leaves, KeyKnown, Holds
    <2>2. k # key[r] /\ locked[k]
      BY <1>5, <2>1 DEF Leaves, OthersHold
    <2> QED
      BY <1>1, <1>2, <1>5, <2>2 DEF Leaves, OthersHold
  <1>5w. ASSUME NEW r \in Requests, Walks(r) PROVE Users(k)' # {} \/ k \in left'
    BY <1>1, <1>2, <1>5w DEF Walks, OthersHold
  <1>6. ASSUME NEW j \in Keys, Steals(j) PROVE Users(k)' # {} \/ k \in left'
    BY <1>1, <1>2, <1>6 DEF Steals, OthersHold
  <1>7. ASSUME NEW j \in Keys, LockExpires(j) PROVE Users(k)' # {} \/ k \in left'
    BY <1>1, <1>2, <1>7 DEF LockExpires, Holds
  <1>8. CASE EndClose
    BY <1>8 DEF EndClose
  <1> QED
    BY <1>3, <1>4, <1>5, <1>5w, <1>6, <1>7, <1>8 DEF LockStep

\* Every holder beyond the first is paid for by an expiry or a failing close.
LEMMA HoldersBoundedStep ==
    ASSUME TypeOK, KeyKnown, HoldersBounded, LockStep PROVE HoldersBounded'
  <1> SUFFICES ASSUME ~KeyConcurrency, NEW k \in Keys
               PROVE  Cardinality(Users(k)') <=
                        (IF locked'[k] THEN 1 ELSE 0) + expiries'[k] + stolen'[k]
    BY DEF HoldersBounded, Users
  <1> DEFINE n == Cardinality(Users(k))
             n2 == Cardinality(Users(k)')
  <1>1. n <= (IF locked[k] THEN 1 ELSE 0) + expiries[k] + stolen[k]
    BY DEF HoldersBounded
  <1>2. n \in Nat /\ IsFiniteSet(Users(k))
    BY UsersFinite
  <1>3. expiries[k] \in Nat /\ stolen[k] \in Nat
    BY DEF TypeOK
  <1> USE DEF TypeOK
  <1>4. CASE SameUsers
    <2>1. Users(k)' = Users(k)
      BY <1>4 DEF SameUsers, OthersHold, Users
    <2> QED
      BY <1>1, <1>4, <2>1 DEF SameUsers, OthersHold
  <1>5. ASSUME NEW r \in Requests, NEW j \in Keys, Enters(r, j)
        PROVE  n2 <= (IF locked'[k] THEN 1 ELSE 0) + expiries'[k] + stolen'[k]
    <2>1. CASE k = j
      <3>1. Users(k)' = Users(k) \cup {r} /\ r \notin Users(k)
        BY <1>5, <2>1 DEF Enters, OthersHold, Users
      <3>2. n2 = n + 1
        <4>1. Cardinality(Users(k) \cup {r}) =
                 IF r \in Users(k) THEN n ELSE n + 1
          BY <1>2, FS_AddElement, Zenon
        <4> QED
          BY <3>1, <4>1, Zenon
      <3>3. ~locked[k] /\ locked'[k]
        BY <1>5, <2>1 DEF Enters, OthersHold
      <3> QED
        BY <1>1, <1>2, <1>3, <1>5, <3>2, <3>3 DEF Enters, OthersHold
    <2>2. CASE k # j
      <3>1. Users(k)' = Users(k)
        BY <1>5, <2>2 DEF Enters, OthersHold, Users
      <3>2. locked'[k] = locked[k]
        BY <1>5, <2>2 DEF Enters, OthersHold
      <3> QED
        BY <1>1, <1>5, <3>1, <3>2 DEF Enters, OthersHold
    <2> QED
      BY <2>1, <2>2
  <1>6. ASSUME NEW r \in Requests, Leaves(r)
        PROVE  n2 <= (IF locked'[k] THEN 1 ELSE 0) + expiries'[k] + stolen'[k]
    <2>1. key[r] \in Keys
      BY <1>6 DEF Leaves, KeyKnown, Holds
    <2>2. CASE k = key[r]
      <3>1. Users(k)' = Users(k) \ {r} /\ r \in Users(k)
        BY <1>6, <2>2 DEF Leaves, OthersHold, Users
      <3>2. n2 = n - 1
        BY <1>2, <3>1, FS_RemoveElement
      <3>3. ~locked'[k]
        BY <1>6, <2>1, <2>2 DEF Leaves, OthersHold
      <3> QED
        BY <1>1, <1>2, <1>3, <1>6, <3>2, <3>3 DEF Leaves, OthersHold
    <2>3. CASE k # key[r]
      <3>1. Users(k)' = Users(k)
        BY <1>6, <2>3 DEF Leaves, OthersHold, Users
      <3>2. locked'[k] = locked[k]
        BY <1>6, <2>3 DEF Leaves, OthersHold
      <3> QED
        BY <1>1, <1>6, <3>1, <3>2 DEF Leaves, OthersHold
    <2> QED
      BY <2>2, <2>3
  <1>6w. ASSUME NEW r \in Requests, Walks(r)
         PROVE  n2 <= (IF locked'[k] THEN 1 ELSE 0) + expiries'[k] + stolen'[k]
    <2>1. Users(k)' \in SUBSET Users(k)
      BY <1>6w DEF Walks, OthersHold, Users
    <2>2. n2 <= n /\ n2 \in Nat
      BY <1>2, <2>1, FS_Subset, FS_CardinalityType
    <2>3. UNCHANGED <<locked, expiries, stolen>>
      BY <1>6w DEF Walks, OthersHold
    <2> QED
      BY <1>1, <1>2, <1>3, <2>2, <2>3
  <1>7. ASSUME NEW j \in Keys, Steals(j) \/ LockExpires(j)
        PROVE  n2 <= (IF locked'[k] THEN 1 ELSE 0) + expiries'[k] + stolen'[k]
    <2>1. Users(k)' = Users(k)
      BY <1>7 DEF Steals, LockExpires, Users, OthersHold, Holds
    <2>2. CASE k = j
      <3>1. ~locked'[k]
        BY <1>7, <2>2 DEF Steals, LockExpires
      <3>2. expiries'[k] + stolen'[k]
              >= (IF locked[k] THEN 1 ELSE 0) + expiries[k] + stolen[k]
        BY <1>3, <1>7, <2>2 DEF Steals, LockExpires
      <3>3. expiries'[k] \in Nat /\ stolen'[k] \in Nat
        BY <1>3, <1>7, <2>2 DEF Steals, LockExpires
      <3> QED
        BY <1>1, <1>2, <1>3, <2>1, <3>1, <3>2, <3>3
    <2>3. CASE k # j
      <3>1. UNCHANGED <<locked[k], expiries[k], stolen[k]>>
        BY <1>7, <2>3 DEF Steals, LockExpires
      <3> QED
        BY <1>1, <2>1, <3>1
    <2> QED
      BY <2>2, <2>3
  <1>8. CASE EndClose
    <2>1. Users(k)' \in SUBSET Users(k)
      BY <1>8 DEF EndClose, Users, Holds, Using
    <2>2. n2 <= n /\ n2 \in Nat
      BY <1>2, <2>1, FS_Subset, FS_CardinalityType
    <2> QED
      BY <1>1, <1>2, <1>3, <1>8, <2>2 DEF EndClose
  <1> QED
    BY <1>4, <1>5, <1>6, <1>6w, <1>7, <1>8 DEF LockStep

---------------------------------------------------------------------------
(* Refunds.                                                                *)

\* Accounting, of one request.
RightCharge(q) ==
    charged[q] =
        IF q \in Exempt THEN 0
        ELSE (IF Holds(q) \/ future[q] = "ok" THEN 1 ELSE 0)
                + kept[q] - raised[q]

LEMMA AccountingStep ==
    ASSUME PerRequest, Accounting, [Next]_vars PROVE Accounting'
  <1> SUFFICES ASSUME phase' # "closed", NEW q \in Requests
               PROVE  RightCharge(q)'
    BY DEF Accounting, RightCharge
  <1>a. phase # "closed" => RightCharge(q)
    BY DEF Accounting, RightCharge
  <1> USE <1>a
      DEF PerRequest, TypeOK, RightCharge, Holds, Using, Futures, Answers, Places,
          Charge, Free, UnlockKey
  <1>1. CASE UNCHANGED vars
    BY <1>1 DEF vars
  <1>2. CASE Client
    <2>1. ASSUME NEW r \in Requests, Submit(r) PROVE RightCharge(q)'
      BY <2>1 DEF Submit, FutureFitsPlace
    <2>2. ASSUME NEW r \in Requests, GiveUp(r) PROVE RightCharge(q)'
      BY <2>2 DEF GiveUp
    <2>3. ASSUME NEW r \in Requests, StartStream(r) \/ DropStream(r)
          PROVE  RightCharge(q)'
      BY <2>3 DEF StartStream, DropStream
    <2> QED
      BY <1>2, <2>1, <2>2, <2>3 DEF Client
  <1>3. CASE NotifyAll \/ Clock
    BY <1>3 DEF NotifyAll, Clock, TimerFires, Requeue, LockExpires, CoolDownEnds
  <1>4. ASSUME NEW r \in Requests, Worker(r) PROVE RightCharge(q)'
    BY <1>4 DEF Worker, Drop, Expire, OverQuota, Park, GiveBack, Grant, Turn,
                Claimable, FutureFitsPlace
  <1>5. ASSUME NEW r \in Requests, Upstream(r) PROVE RightCharge(q)'
    BY <1>5 DEF Upstream, Success, StreamedSuccess, Raises, Abandoned,
                RetryStatus, RetryUnfreed, Retries, ErrorStatus, FutureFitsPlace
  <1>6. ASSUME NEW r \in Requests, Closing(r) \/ EndStream(r)
        PROVE  RightCharge(q)'
    BY <1>6 DEF Closing, CloseReturns, CloseRaises, EndStream, FutureFitsPlace
  <1>7. CASE ClearQueue \/ BeginClose
    BY <1>7 DEF ClearQueue, BeginClose, Clear
  <1>8. CASE EndClose
    BY <1>8 DEF EndClose
  <1> QED
    BY <1>1, <1>2, <1>3, <1>4, <1>5, <1>6, <1>7, <1>8 DEF Next

---------------------------------------------------------------------------
(* The bound on fresh requests.                                            *)

Fresh == {r \in Requests : place[r] = "heap" /\ attempts[r] = 0}

LEMMA FreshBoundedStep ==
    ASSUME PerRequest, FreshBounded, [Next]_vars PROVE FreshBounded'
  <1>1. IsFiniteSet(Fresh) /\ Cardinality(Fresh) <= MaxSize
    <2>1. Fresh \in SUBSET Requests
      BY DEF Fresh
    <2> QED
      BY <2>1, QueueAssumption, FS_Subset DEF FreshBounded, Fresh
  <1>2. Cardinality(Fresh) \in Nat
    BY <1>1, FS_CardinalityType
  <1>3. SUFFICES Cardinality(Fresh') <= MaxSize
    BY DEF FreshBounded, Fresh
  <1>4. ASSUME Fresh' \in SUBSET Fresh PROVE Cardinality(Fresh') <= MaxSize
    <2>1. Cardinality(Fresh') <= Cardinality(Fresh) /\ IsFiniteSet(Fresh')
      BY <1>1, <1>4, FS_Subset
    <2> QED
      BY <1>1, <1>2, <2>1, FS_CardinalityType, QueueAssumption
  <1> USE DEF PerRequest, TypeOK
  <1>5. ASSUME NEW r \in Requests, Submit(r) PROVE Cardinality(Fresh') <= MaxSize
    <2>1. CASE HeapSize >= MaxSize
      BY <1>4, <1>5, <2>1 DEF Submit, Fresh
    <2>2. CASE ~(HeapSize >= MaxSize)
      <3> DEFINE H == {s \in Requests : place[s] = "heap"}
      <3>1. H \in SUBSET Requests /\ Fresh \in SUBSET H
        BY DEF Fresh
      <3>2. IsFiniteSet(H) /\ Cardinality(Fresh) <= Cardinality(H)
        BY <3>1, QueueAssumption, FS_Subset
      <3>3. Cardinality(H) \in Nat /\ Cardinality(H) < MaxSize
        BY <2>2, <3>2, QueueAssumption, FS_CardinalityType DEF HeapSize
      <3>4. Fresh' \in SUBSET (Fresh \cup {r})
        BY <1>5 DEF Submit, Fresh
      <3>5. /\ IsFiniteSet(Fresh \cup {r})
            /\ Cardinality(Fresh \cup {r}) <= Cardinality(Fresh) + 1
        <4>1. /\ IsFiniteSet(Fresh \cup {r})
              /\ Cardinality(Fresh \cup {r}) =
                    IF r \in Fresh THEN Cardinality(Fresh) ELSE Cardinality(Fresh) + 1
          BY <1>1, FS_AddElement, Zenon
        <4> QED
          BY <1>2, <4>1
      <3>6. Cardinality(Fresh') <= Cardinality(Fresh \cup {r})
        BY <3>4, <3>5, FS_Subset
      <3>7. Cardinality(Fresh') \in Nat /\ Cardinality(Fresh \cup {r}) \in Nat
        BY <3>4, <3>5, FS_Subset, FS_CardinalityType
      <3> HIDE DEF H
      <3> QED
        BY <1>2, <3>2, <3>3, <3>5, <3>6, <3>7, QueueAssumption
    <2> QED
      BY <2>1, <2>2
  <1>6. CASE UNCHANGED vars
    BY <1>4, <1>6 DEF vars, Fresh
  <1>7. ASSUME NEW r \in Requests, GiveUp(r) \/ StartStream(r) \/ DropStream(r)
        PROVE  Fresh' \in SUBSET Fresh
    BY <1>7 DEF GiveUp, StartStream, DropStream, Fresh
  <1>8. CASE NotifyAll \/ Clock
    <2>1. Fresh' \in SUBSET Fresh
      BY <1>8 DEF NotifyAll, Clock, TimerFires, Requeue, LockExpires,
                  CoolDownEnds, Fresh, Retried
    <2> QED
      BY <1>4, <2>1
  <1>9. ASSUME NEW r \in Requests, Worker(r) PROVE Fresh' \in SUBSET Fresh
    BY <1>9 DEF Worker, Drop, Expire, OverQuota, Park, GiveBack, Grant, Fresh
  <1>10. ASSUME NEW r \in Requests, Upstream(r) PROVE Fresh' \in SUBSET Fresh
    BY <1>10 DEF Upstream, Success, StreamedSuccess, Raises, Abandoned,
                 RetryStatus, RetryUnfreed, Retries, ErrorStatus, Fresh
  <1>11. ASSUME NEW r \in Requests, Closing(r) \/ EndStream(r)
         PROVE  Fresh' \in SUBSET Fresh
    BY <1>11 DEF Closing, CloseReturns, CloseRaises, EndStream, Fresh
  <1>12. CASE ClearQueue \/ BeginClose \/ EndClose
    <2>1. Fresh' \in SUBSET Fresh
      BY <1>12 DEF ClearQueue, BeginClose, EndClose, Clear, Fresh
    <2> QED
      BY <1>4, <2>1
  <1> QED
    BY <1>4, <1>5, <1>6, <1>7, <1>8, <1>9, <1>10, <1>11, <1>12 DEF Next, Client

---------------------------------------------------------------------------

\* The inductive invariant.
IInv ==
    /\ PerRequest
    /\ LockHasUser
    /\ HoldersBounded
    /\ Accounting
    /\ FreshBounded

LEMMA InitInv == Init => IInv
  <1> SUFFICES ASSUME Init PROVE IInv
    OBVIOUS
  <1>1. PerRequest
    BY InitPerRequest
  <1>2. LockHasUser /\ Accounting
    BY DEF Init, LockHasUser, Accounting, Holds, Using
  <1>3. HoldersBounded
    <2>1. ASSUME NEW k \in Keys PROVE Users(k) = {} /\ expiries[k] = 0 /\ stolen[k] = 0
      BY DEF Init, Users, Holds, Using
    <2> QED
      BY <2>1, FS_EmptySet DEF HoldersBounded
  <1>4. FreshBounded
    <2>1. {r \in Requests : place[r] = "heap" /\ attempts[r] = 0} = {}
      BY DEF Init
    <2> QED
      BY <2>1, FS_EmptySet, QueueAssumption DEF FreshBounded
  <1> QED
    BY <1>1, <1>2, <1>3, <1>4 DEF IInv

LEMMA NextInv == IInv /\ [Next]_vars => IInv'
  BY NextPerRequest, NextLockStep, LockHasUserStep, HoldersBoundedStep, AccountingStep,
     FreshBoundedStep
  DEF IInv, PerRequest

\* IInv holds in every reachable state.
THEOREM Invariance == Spec => []IInv
  <1> QED
    BY InitInv, NextInv, PTL DEF Spec

\* Every variable has its type.
THEOREM TypeCorrect == Spec => []TypeOK
  <1>1. IInv => TypeOK
    BY DEF IInv, PerRequest
  <1> QED
    BY <1>1, Invariance, PTL

\* No request whose client waits is ever dropped by the running queue, through
\* any interleaving of claims, retries, clearings and closings.
THEOREM NothingLost == Spec => []NotLost
  <1>1. IInv => NotLost
    BY DEF IInv, PerRequest
  <1> QED
    BY <1>1, Invariance, PTL

\* No path of the worker leaves a key locked behind it, but the retry of a
\* status below 400.
THEOREM NoLockLeft == Spec => []LockHasUser
  <1>1. IInv => LockHasUser
    BY DEF IInv
  <1> QED
    BY <1>1, Invariance, PTL

\* Exclusive keys: the number of concurrent holders of a key is bounded by the
\* one that has the lock, the expiries and the failing closes.
THEOREM Exclusion == Spec => []HoldersBounded
  <1>1. IInv => HoldersBounded
    BY DEF IInv
  <1> QED
    BY <1>1, Invariance, PTL

\* Window slots are refunded exactly once, but for failing closes and retries
\* of a status below 400.
THEOREM RefundedOnce == Spec => []Accounting
  <1>1. IInv => Accounting
    BY DEF IInv
  <1> QED
    BY <1>1, Invariance, PTL

\* max_size bounds the requests that wait for their first try; only retries
\* can push the queue beyond it.
THEOREM FreshWithinSize == Spec => []FreshBounded
  <1>1. IInv => FreshBounded
    BY DEF IInv
  <1> QED
    BY <1>1, Invariance, PTL

---------------------------------------------------------------------------
(* Waking.                                                                 *)

\* Every explicit release notifies and a notification leaves nobody parked.
THEOREM ReleasesWake == Spec => ReleaseWakes
  <1> DEFINE A == /\ \A k \in Keys :
                        locked[k] /\ ~locked'[k] /\ expiries'[k] = expiries[k]
                          => notify'
                  /\ notify /\ ~notify' => \A r \in Requests : place'[r] # "parked"
  <1>1. IInv /\ [Next]_vars => [A]_vars
    <2> SUFFICES ASSUME TypeOK, Next PROVE A
      BY DEF IInv, PerRequest
    <2> USE DEF TypeOK
    <2>1. CASE Client
      BY <2>1 DEF Client, Submit, GiveUp, StartStream, DropStream
    <2>2. CASE NotifyAll
      BY <2>2 DEF NotifyAll
    <2>3. ASSUME NEW r \in Requests, Worker(r) PROVE A
      BY <2>3 DEF Worker, Drop, Expire, OverQuota, Park, GiveBack, Grant, Available
    <2>4. ASSUME NEW r \in Requests, Upstream(r) PROVE A
      BY <2>4 DEF Upstream, Success, StreamedSuccess, Raises, Abandoned,
                  RetryStatus, RetryUnfreed, Retries, ErrorStatus, Free, UnlockKey
    <2>5. ASSUME NEW r \in Requests, Closing(r) \/ EndStream(r) PROVE A
      BY <2>5 DEF Closing, CloseReturns, CloseRaises, EndStream, Free, UnlockKey
    <2>6. CASE Clock
      BY <2>6 DEF Clock, TimerFires, Requeue, LockExpires, CoolDownEnds
    <2>7. CASE ClearQueue \/ BeginClose \/ EndClose
      BY <2>7 DEF ClearQueue, BeginClose, EndClose, Clear
    <2> QED
      BY <2>1, <2>2, <2>3, <2>4, <2>5, <2>6, <2>7 DEF Next
  <1> QED
    BY <1>1, Invariance, PTL DEF Spec, ReleaseWakes

---------------------------------------------------------------------------
(* The queue implements RequestLifecycle.                                  *)

Running == [r \in Requests |-> place[r] = "upstream"]

\* A step that neither answers, tries nor ends a try.
Quiet == UNCHANGED <<future, attempts>> /\ Running' = Running

\* A step that only answers pending requests of S, with a.
AnswersOnly(S, a) ==
    /\ future' = [r \in Requests |-> IF r \in S THEN a ELSE future[r]]
    /\ UNCHANGED attempts
    /\ Running' = Running

\* A step that ends the try of r, with answer a, or with none if a = "none".
EndsTry(r, a) ==
    /\ place[r] = "upstream"
    /\ Running' = [Running EXCEPT ![r] = FALSE]
    /\ UNCHANGED attempts
    /\ IF a = "none" THEN UNCHANGED future
       ELSE future[r] = "pending" /\ future' = [future EXCEPT ![r] = a]

LEMMA QuietMaps == Quiet => UNCHANGED Lifecycle!lifecycle
  BY DEF Quiet, Running, Lifecycle!lifecycle

LEMMA AnswersOnlyMaps ==
    ASSUME NEW S, S \subseteq {r \in Requests : future[r] = "pending"},
           NEW a \in {"failed", "cancelled"},
           AnswersOnly(S, a)
    PROVE  Lifecycle!FailSome
  BY DEF AnswersOnly, Running, Lifecycle!FailSome, Lifecycle!Failures

LEMMA EndsTryMaps ==
    ASSUME TypeOK, NEW r \in Requests,
           NEW a \in Answers \cup {"none"}, EndsTry(r, a)
    PROVE  Lifecycle!EndTry(r)
  BY DEF EndsTry, Running, Lifecycle!EndTry, Lifecycle!Responses,
         Lifecycle!Failures, Answers

LEMMA InitMaps == Init => Lifecycle!Init
  BY DEF Init, Lifecycle!Init

LEMMA ClientMaps ==
    ASSUME PerRequest, Client PROVE [Lifecycle!Next]_(Lifecycle!lifecycle)
  <1> USE DEF PerRequest, TypeOK
  <1>1. ASSUME NEW r \in Requests, Submit(r) PROVE Lifecycle!Submit(r)
    <2>1. future[r] = "none"
      BY <1>1 DEF Submit, FutureFitsPlace
    <2>2. Running' = Running
      BY <1>1 DEF Submit, Running
    <2> QED
      BY <1>1, <2>1, <2>2 DEF Submit, Running, Lifecycle!Submit
  <1>2. ASSUME NEW r \in Requests, GiveUp(r) PROVE Lifecycle!FailSome
    <2>1. AnswersOnly({r}, "cancelled")
      BY <1>2 DEF GiveUp, AnswersOnly, Running
    <2> QED
      BY <1>2, <2>1, AnswersOnlyMaps DEF GiveUp
  <1>3. ASSUME NEW r \in Requests, StartStream(r) \/ DropStream(r) PROVE Quiet
    BY <1>3 DEF StartStream, DropStream, Quiet, Running
  <1> QED
    BY <1>1, <1>2, <1>3, QuietMaps DEF Client, Lifecycle!Next

LEMMA WorkerMaps ==
    ASSUME PerRequest, NEW r \in Requests, Worker(r)
    PROVE  [Lifecycle!Next]_(Lifecycle!lifecycle)
  <1> USE DEF PerRequest, TypeOK
  <1>1. CASE Drop(r) \/ Park(r) \/ \E k \in Keys : GiveBack(r, k)
    <2>1. Quiet
      BY <1>1 DEF Drop, Park, GiveBack, Turn, Claimable, Quiet, Running
    <2> QED
      BY <2>1, QuietMaps
  <1>2. CASE Expire(r) \/ OverQuota(r)
    <2>1. AnswersOnly({r}, "failed") /\ future[r] = "pending"
      BY <1>2 DEF Expire, OverQuota, Turn, Claimable, AnswersOnly, Running
    <2> QED
      BY <2>1, AnswersOnlyMaps DEF Lifecycle!Next
  <1>3. ASSUME NEW k \in Keys, Grant(r, k) PROVE Lifecycle!Try(r)
    <2>1. place[r] \in {"heap", "awake"} /\ future[r] = "pending"
      BY <1>3 DEF Grant, Turn, Claimable
    <2>2. attempts[r] < MaxTries
      BY <2>1 DEF TriesLeft
    <2>3. Running' = [Running EXCEPT ![r] = TRUE]
      BY <1>3 DEF Grant, Running
    <2>4. ~Running[r]
      BY <2>1 DEF Running
    <2> QED
      BY <1>3, <2>1, <2>2, <2>3, <2>4 DEF Grant, Running, Lifecycle!Try
  <1> QED
    BY <1>1, <1>2, <1>3 DEF Worker, Lifecycle!Next

LEMMA UpstreamMaps ==
    ASSUME PerRequest, NEW r \in Requests, Upstream(r)
    PROVE  [Lifecycle!Next]_(Lifecycle!lifecycle)
  <1> USE DEF PerRequest, TypeOK, Answers
  <1>1. CASE Success(r) \/ StreamedSuccess(r)
    <2>1. EndsTry(r, "ok")
      BY <1>1 DEF Success, StreamedSuccess, EndsTry, Running
    <2> QED
      BY <2>1, EndsTryMaps DEF Lifecycle!Next
  <1>2. CASE \E streamed, quarantine \in BOOLEAN : ErrorStatus(r, streamed, quarantine)
    <2>1. EndsTry(r, "error")
      BY <1>2 DEF ErrorStatus, EndsTry, Running
    <2> QED
      BY <2>1, EndsTryMaps DEF Lifecycle!Next
  <1>3. CASE Raises(r)
    <2>1. EndsTry(r, "failed") \/ EndsTry(r, "none")
      BY <1>3 DEF Raises, EndsTry, Running
    <2> QED
      BY <2>1, EndsTryMaps DEF Lifecycle!Next
  <1>4. CASE \E streamed \in BOOLEAN : Abandoned(r, streamed)
    <2>1. EndsTry(r, "none")
      BY <1>4 DEF Abandoned, EndsTry, Running
    <2> QED
      BY <2>1, EndsTryMaps DEF Lifecycle!Next
  <1>5. CASE \E streamed \in BOOLEAN : RetryStatus(r, streamed) \/ RetryUnfreed(r, streamed)
    <2>1. EndsTry(r, "failed") \/ EndsTry(r, "none")
      BY <1>5 DEF RetryStatus, RetryUnfreed, Retries, EndsTry, Running
    <2> QED
      BY <2>1, EndsTryMaps DEF Lifecycle!Next
  <1> QED
    BY <1>1, <1>2, <1>3, <1>4, <1>5 DEF Upstream

LEMMA ClosingMaps ==
    ASSUME PerRequest, NEW r \in Requests, Closing(r) \/ EndStream(r)
    PROVE  [Lifecycle!Next]_(Lifecycle!lifecycle)
  <1> USE DEF PerRequest, TypeOK
  <1>1. CASE CloseReturns(r) \/ EndStream(r)
    <2>1. Quiet
      BY <1>1 DEF CloseReturns, EndStream, Quiet, Running
    <2> QED
      BY <2>1, QuietMaps
  <1>2. CASE CloseRaises(r)
    <2>1. CASE future[r] = "pending"
      <3>1. AnswersOnly({r}, "failed")
        BY <1>2, <2>1 DEF CloseRaises, AnswersOnly, Running
      <3> QED
        BY <2>1, <3>1, AnswersOnlyMaps DEF Lifecycle!Next
    <2>2. CASE future[r] # "pending"
      <3>1. Quiet
        BY <1>2, <2>2 DEF CloseRaises, Quiet, Running
      <3> QED
        BY <3>1, QuietMaps
    <2> QED
      BY <2>1, <2>2
  <1> QED
    BY <1>1, <1>2 DEF Closing

LEMMA ControlMaps ==
    ASSUME PerRequest, NotifyAll \/ Clock \/ ClearQueue \/ BeginClose \/ EndClose
    PROVE  [Lifecycle!Next]_(Lifecycle!lifecycle)
  <1> USE DEF PerRequest, TypeOK
  <1>1. CASE NotifyAll \/ Clock
    <2>1. Quiet
      BY <1>1 DEF NotifyAll, Clock, TimerFires, Requeue, LockExpires,
                  CoolDownEnds, Quiet, Running
    <2> QED
      BY <2>1, QuietMaps
  <1>2. CASE ClearQueue \/ BeginClose
    <2> DEFINE S == {r \in Requests : /\ place[r] \in {"heap", "retry"}
                                     /\ future[r] = "pending"}
    <2>1. AnswersOnly(S, "failed")
      BY <1>2 DEF ClearQueue, BeginClose, Clear, AnswersOnly, Running
    <2> QED
      BY <2>1, AnswersOnlyMaps DEF Lifecycle!Next
  <1>3. CASE EndClose
    <2>1. Running' = [r \in Requests |-> FALSE]
      BY <1>3 DEF EndClose, Running
    <2> QED
      BY <1>3, <2>1 DEF EndClose, Running, Lifecycle!StopAll, Lifecycle!Next
  <1> QED
    BY <1>1, <1>2, <1>3

\* Every behaviour of the queue is one RequestLifecycle allows: one answer per
\* request, one try at a time, never more than MaxTries, none after the answer.
THEOREM Refinement == Spec => KeepsPromise
  <1>1. PerRequest /\ [Next]_vars => [Lifecycle!Next]_(Lifecycle!lifecycle)
    <2> SUFFICES ASSUME PerRequest, [Next]_vars
                 PROVE  [Lifecycle!Next]_(Lifecycle!lifecycle)
      OBVIOUS
    <2>1. CASE UNCHANGED vars
      <3>1. Quiet
        BY <2>1 DEF vars, Quiet, Running
      <3> QED
        BY <3>1, QuietMaps
    <2> QED
      BY <2>1, ClientMaps, WorkerMaps, UpstreamMaps, ClosingMaps, ControlMaps DEF Next
  <1>2. IInv => PerRequest
    BY DEF IInv
  <1> QED
    BY <1>1, <1>2, InitMaps, Invariance, PTL DEF Spec, KeepsPromise, Lifecycle!Spec
============================================================================
