--------------------------- MODULE ExchangeProofs ---------------------------
(***************************************************************************)
(* Safety of the upstream exchange, for every number of attempts, every    *)
(* retention and every set of response heads.                              *)
(***************************************************************************)
EXTENDS Exchange, FiniteSetTheorems, WellFoundedInduction, TLAPS

---------------------------------------------------------------------------
(* Numbers and sets.                                                       *)

LEMMA IdsFinite == MaxId \in Nat /\ Ids \subseteq Nat /\ IsFiniteSet(Ids)
  BY ExchangeAssumption, FS_Interval DEF Ids

\* A set of ids that is not empty has a largest member.
LEMMA LargestExists ==
    ASSUME NEW S \in SUBSET (Ids \cup {0}), S # {}
    PROVE  \E m \in S : \A i \in S : i <= m
  <1> DEFINE Less == {ss \in Nat \X Nat : ss[1] < ss[2]}
             T == {MaxId - i : i \in S}
  <1>1. IsWellFoundedOn(Less, Nat)
    BY NatLessThanWellFounded, Zenon DEF OpToRel
  <1>2. T \subseteq Nat /\ T # {}
    BY IdsFinite DEF Ids
  <1>3. PICK x \in T : \A y \in T : <<y, x>> \notin Less
    <2> HIDE DEF Less, T
    <2> QED  BY <1>1, <1>2, WFMin
  <1>4. PICK m \in S : x = MaxId - m
    BY <1>3
  <1>5. \A i \in S : i <= m
    <2> TAKE i \in S
    <2>1. MaxId - i \in Nat /\ MaxId - m \in Nat /\ ~ (MaxId - i < MaxId - m)
      BY <1>2, <1>3, <1>4
    <2>2. i \in Nat /\ m \in Nat
      <3>1. Ids \cup {0} \subseteq Nat
        BY IdsFinite
      <3> HIDE DEF T
      <3> QED  BY <3>1
    <2> QED  BY <2>1, <2>2, IdsFinite
  <1> QED  BY <1>5

\* The next free id is an id, or one past the last, beyond every bundle.
LEMMA NextFreeBeyond ==
    /\ NextFree \in 1 .. MaxId + 1
    /\ \A i \in Existing(bundle) : i < NextFree
  <1> DEFINE S == Existing(bundle) \cup {0}
  <1>1. S \in SUBSET (Ids \cup {0}) /\ S # {}
    BY DEF Existing
  <1>2. Max(S) \in S /\ \A i \in S : i <= Max(S)
    <2> HIDE DEF S
    <2>1. PICK m \in S : \A i \in S : i <= m
      BY <1>1, LargestExists
    <2>2. \A i \in S : m >= i
      BY <1>1, <2>1, IdsFinite
    <2>3. Max(S) \in S /\ \A i \in S : Max(S) >= i
      BY <2>2, Zenon DEF Max
    <2> QED  BY <1>1, <2>3, IdsFinite
  <1>3. NextFree = Max(S) + 1 /\ Existing(bundle) \subseteq S
    BY DEF NextFree
  <1>4. Max(S) \in 0 .. MaxId
    <2> HIDE DEF S
    <2>1. Max(S) \in Ids \cup {0}
      BY <1>1, <1>2
    <2> QED  BY <2>1, IdsFinite DEF Ids
  <1> HIDE DEF S
  <1>5. \A i \in S : i \in Nat
    BY <1>1, IdsFinite
  <1>6. NextFree \in 1 .. MaxId + 1
    BY <1>3, <1>4, IdsFinite
  <1>7. \A i \in Existing(bundle) : i < NextFree
    BY <1>2, <1>3, <1>4, <1>5
  <1> QED  BY <1>6, <1>7

\* Those of S from i on.
From(S, i) == {j \in S : j >= i}

LEMMA FromFinite ==
    ASSUME NEW S \in SUBSET Ids, NEW i
    PROVE  IsFiniteSet(From(S, i)) /\ Cardinality(From(S, i)) \in Nat
  BY IdsFinite, FS_Subset, FS_CardinalityType DEF From

\* A larger set has no fewer of them.
LEMMA FromMonotonic ==
    ASSUME NEW S \in SUBSET Ids, NEW T \in SUBSET S, NEW i
    PROVE  Cardinality(From(T, i)) <= Cardinality(From(S, i))
  BY FromFinite, FS_Subset DEF From

\* Of a set with more than Retention members from i on, at least Retention lie
\* beyond i and have no more than Retention from themselves on.
LEMMA NewestBeyond ==
    ASSUME NEW S \in SUBSET Ids, NEW i \in S, Cardinality(From(S, i)) > Retention
    PROVE  \E m \in S :
             /\ m >= i
             /\ Cardinality(From(S, m) \ {m}) >= Retention
             /\ \A j \in From(S, m) \ {m} : Cardinality(From(S, j)) <= Retention
  <1> DEFINE Old == {m \in S : Cardinality(From(S, m)) > Retention}
  <1>1. i \in Old /\ Old \in SUBSET (Ids \cup {0})
    OBVIOUS
  <1>2. PICK m \in Old : \A j \in Old : j <= m
    <2> HIDE DEF Old
    <2> QED  BY <1>1, LargestExists
  <1>3. m \in S /\ m >= i /\ m \in From(S, m)
    BY <1>1, <1>2, IdsFinite DEF From
  <1>4. /\ Cardinality(From(S, m) \ {m}) = Cardinality(From(S, m)) - 1
        /\ Cardinality(From(S, m)) \in Nat
    BY <1>3, FromFinite, FS_RemoveElement
  <1>5. Cardinality(From(S, m) \ {m}) >= Retention
    BY <1>2, <1>4, ExchangeAssumption
  <1>6. ASSUME NEW j \in From(S, m) \ {m} PROVE Cardinality(From(S, j)) <= Retention
    <2>1. j \in S /\ j \in Nat /\ m \in Nat /\ j > m
      BY <1>3, <1>6, IdsFinite DEF From
    <2>2. j \notin Old
      BY <1>2, <2>1
    <2>3. Cardinality(From(S, j)) \in Nat
      BY FromFinite
    <2> QED  BY <2>1, <2>2, <2>3, ExchangeAssumption
  <1> QED  BY <1>3, <1>5, <1>6

---------------------------------------------------------------------------
(* The inductive invariant.                                                *)

\* Newest, of any set of ids.
NewestOf(B) == {i \in B : Cardinality(From(B, i)) <= Retention}

\* What an attempt under way has written is its own, and unfinished.
FlightInv ==
    /\ \A a \in InFlight :
         LET i == attempt[a].id
         IN  /\ i \in begun
             /\ fate[i] = "none"
             /\ lost[i] = "no"
             /\ bundle[i].meta \in {"none", "open"}
             /\ bundle[i].raw \in {NoFile, got[i]}
             /\ got[i] + attempt[a].left <= MaxChunks
             /\ attempt[a].stage = "sent" => got[i] = 0
    /\ \A a, b \in InFlight : attempt[a].id = attempt[b].id => a = b
    /\ ~up => InFlight = {}

\* Ids whose bundle was never written have no past.
FreshInv ==
    \A i \in Ids \ begun : got[i] = 0 /\ fate[i] = "none" /\ lost[i] = "no"

\* The newest bundles written exist; the others are unfinished.
StoreInv ==
    /\ NewestOf(begun) \subseteq Existing(bundle)
    /\ Existing(bundle) \subseteq begun
    /\ up => /\ \A i \in begun : i < nextId
             /\ \A i \in Existing(bundle) \ NewestOf(begun) : bundle[i].meta = "open"

\* The newest bundles have their files, and what they say happened.
EvidenceInv ==
    /\ \A i \in NewestOf(begun) :
         /\ bundle[i].raw # NoFile
         /\ bundle[i].meta = "ok" => fate[i] \in {"whole", "discarded"}
         /\ bundle[i].meta = "error" => fate[i] = "failed"
         /\ bundle[i].meta # "open" => bundle[i].raw = got[i]
    /\ up => \A i \in Existing(bundle) : bundle[i].meta # "open" => i \in index

IInv ==
    /\ TypeOK
    /\ FlightInv
    /\ FreshInv
    /\ StoreInv
    /\ EvidenceInv
    /\ GaugeBalanced
    /\ ConnectionsReturned

\* Implied by IInv: the id of an attempt under way.
LEMMA FlightId ==
    ASSUME IInv, NEW a \in InFlight
    PROVE  /\ a \in Attempts /\ attempt[a].id \in Ids /\ attempt[a].id \in begun
           /\ bundle[attempt[a].id] \in Bundle
  BY DEF IInv, FlightInv, TypeOK, InFlight

---------------------------------------------------------------------------
(* The store.                                                              *)

\* Pruning keeps the newest bundles as they are, and no others.
LEMMA PrunedKeeps ==
    ASSUME NEW b \in [Ids -> Bundle], NEW B \in SUBSET Ids,
           NewestOf(B) \subseteq Existing(b), Existing(b) \subseteq B
    PROVE  /\ Pruned(b) \in [Ids -> Bundle]
           /\ Existing(Pruned(b)) = NewestOf(B)
           /\ \A i \in NewestOf(B) : i \notin Excess(b) /\ Pruned(b)[i] = b[i]
           /\ \A i \in Ids : Pruned(b)[i] \in {b[i], Nothing}
  <1>1. Existing(b) \in SUBSET Ids /\ NewestOf(B) \subseteq B
    BY DEF Existing, NewestOf
  <1>2. Excess(b) = {i \in Existing(b) : Cardinality(From(Existing(b), i)) > Retention}
    BY DEF Excess, From
  <1>3. ASSUME NEW i \in NewestOf(B) PROVE i \in Ids /\ i \notin Excess(b)
    <2>1. Cardinality(From(Existing(b), i)) <= Cardinality(From(B, i))
      BY FromMonotonic
    <2>2. /\ Cardinality(From(Existing(b), i)) \in Nat /\ Cardinality(From(B, i)) \in Nat
          /\ Cardinality(From(B, i)) <= Retention /\ Retention \in Nat
      BY <1>1, FromFinite, ExchangeAssumption DEF NewestOf
    <2> QED  BY <1>1, <1>2, <2>1, <2>2
  <1>4. ASSUME NEW i \in Existing(b), i \notin NewestOf(B) PROVE i \in Excess(b)
    <2>1. i \in B /\ Cardinality(From(B, i)) \in Nat /\ Retention \in Nat
      BY FromFinite, ExchangeAssumption
    <2>2. Cardinality(From(B, i)) > Retention
      BY <1>4, <2>1 DEF NewestOf
    <2>3. PICK m \in B :
             /\ m >= i
             /\ Cardinality(From(B, m) \ {m}) >= Retention
             /\ \A j \in From(B, m) \ {m} : Cardinality(From(B, j)) <= Retention
      BY <2>1, <2>2, NewestBeyond
    <2> DEFINE D == From(B, m) \ {m}
    <2>4. D \subseteq NewestOf(B)
      BY <2>3 DEF NewestOf, From
    <2>5. i \notin D
      BY <1>4, <2>4
    <2>6. \A j \in D : j >= i
      BY <1>1, <2>1, <2>3, IdsFinite DEF From
    <2>7. D \cup {i} \subseteq From(Existing(b), i)
      <3>1. i >= i
        BY <2>1, IdsFinite
      <3> HIDE DEF D
      <3> QED  BY <2>4, <2>6, <3>1 DEF From
    <2>8. IsFiniteSet(D) /\ Cardinality(D) >= Retention
      BY <2>3, FromFinite, FS_Subset
    <2> HIDE DEF D
    <2>9. Cardinality(D \cup {i}) = Cardinality(D) + 1 /\ Cardinality(D) \in Nat
      BY <2>5, <2>8, FS_AddElement, FS_CardinalityType
    <2>10. /\ Cardinality(D \cup {i}) <= Cardinality(From(Existing(b), i))
           /\ Cardinality(From(Existing(b), i)) \in Nat
      BY <1>1, <2>7, FromFinite, FS_Subset
    <2> QED  BY <1>2, <2>1, <2>8, <2>9, <2>10
  <1>5. \A i \in Ids : Pruned(b)[i] = IF i \in Excess(b) THEN Nothing ELSE b[i]
    BY DEF Pruned
  <1>6. Nothing \in Bundle /\ Nothing.meta = "none"
    BY IdsFinite, ExchangeAssumption DEF Nothing, Bundle, NoFile
  <1>7. Pruned(b) \in [Ids -> Bundle]
    BY <1>6 DEF Pruned
  <1>8. \A i \in Ids : i \in Existing(Pruned(b)) <=> i \in Existing(b) /\ i \notin Excess(b)
    BY <1>5, <1>6 DEF Existing
  <1>9. Existing(Pruned(b)) \subseteq Ids
    BY DEF Existing
  <1>10. Existing(Pruned(b)) = NewestOf(B)
    BY <1>1, <1>3, <1>4, <1>8, <1>9
  <1> QED  BY <1>3, <1>5, <1>7, <1>10

\* A bundle that is newest after another was written was newest before, or is
\* that one.
LEMMA NewestAfterWrite ==
    ASSUME NEW B \in SUBSET Ids, NEW n \in Ids
    PROVE  NewestOf(B \cup {n}) \subseteq NewestOf(B) \cup {n}
  <1> SUFFICES ASSUME NEW i \in NewestOf(B \cup {n}), i # n PROVE i \in NewestOf(B)
    OBVIOUS
  <1>1. Cardinality(From(B, i)) <= Cardinality(From(B \cup {n}, i))
    BY FromMonotonic
  <1>2. /\ Cardinality(From(B, i)) \in Nat /\ Cardinality(From(B \cup {n}, i)) \in Nat
        /\ Retention \in Nat
    BY FromFinite, ExchangeAssumption
  <1> QED  BY <1>1, <1>2 DEF NewestOf

\* A bundle is finished: what its file says is what happened, the bundles
\* beyond retention go, and the index lists what stays.  When finish raises,
\* the bundle was gone already.
LEMMA FinishStore ==
    ASSUME IInv, NEW a \in InFlight, NEW verdict \in {"ok", "error"},
           Finish(attempt[a], verdict),
           NEW f \in {"whole", "denied", "discarded", "failed"},
           fate' = [fate EXCEPT ![attempt[a].id] = f],
           ~FinishRaises(attempt[a]) =>
             f \in (IF verdict = "ok" THEN {"whole", "discarded"} ELSE {"failed"}),
           UNCHANGED <<up, nextId, begun, got>>
    PROVE  /\ bundle' \in [Ids -> Bundle] /\ index' \subseteq Ids
           /\ StoreInv' /\ EvidenceInv'
           /\ \A i \in Ids : i # attempt[a].id => bundle'[i] \in {bundle[i], Nothing}
  <1> DEFINE t == attempt[a]
  <1> USE DEF IInv
  <1>1. /\ t.id \in Ids /\ t.id \in begun /\ bundle[t.id] \in Bundle
        /\ fate \in [Ids -> {"none", "whole", "denied", "discarded", "failed"}]
        /\ bundle \in [Ids -> Bundle] /\ begun \in SUBSET Ids /\ up
    BY FlightId DEF FlightInv, TypeOK
  <1>2. \A i \in Ids : fate'[i] = IF i = t.id THEN f ELSE fate[i]
    BY <1>1
  <1>3. /\ bundle[t.id].meta \in {"none", "open"}
        /\ bundle[t.id].raw \in {NoFile, got[t.id]}
    BY DEF FlightInv
  <1>4. CASE FinishRaises(t)
    <2>1. bundle' = bundle /\ index' = index
      BY <1>4 DEF Finish
    <2>2. t.id \notin NewestOf(begun)
      BY <1>4 DEF FinishRaises, EvidenceInv
    <2>3. StoreInv'
      BY <2>1 DEF StoreInv, NewestOf, Existing
    <2>4. EvidenceInv'
      BY <1>1, <1>2, <2>1, <2>2 DEF EvidenceInv, NewestOf, Existing
    <2> QED  BY <2>1, <2>3, <2>4 DEF TypeOK
  <1>5. CASE ~FinishRaises(t)
    <2> DEFINE b == [bundle EXCEPT ![t.id].text = Readable(t.head), ![t.id].meta = verdict]
    <2>1. /\ bundle' = Pruned(b)
          /\ index' = {i \in Existing(bundle') : bundle'[i].meta # "open"}
      BY <1>5 DEF Finish
    <2>2. Readable(t.head) \in BOOLEAN
      BY DEF Readable
    <2>3. b \in [Ids -> Bundle]
      BY <1>1, <2>2 DEF Bundle
    <2>4. /\ \A i \in Ids : i # t.id => b[i] = bundle[i]
          /\ b[t.id].meta = verdict /\ b[t.id].raw = bundle[t.id].raw
      BY <1>1 DEF Bundle
    <2> HIDE DEF b
    <2>5. Existing(b) = Existing(bundle) \cup {t.id}
      BY <1>1, <2>4 DEF Existing
    <2>6. NewestOf(begun) \subseteq Existing(b) /\ Existing(b) \subseteq begun
      BY <1>1, <2>5 DEF StoreInv
    <2>7. /\ Pruned(b) \in [Ids -> Bundle]
          /\ Existing(Pruned(b)) = NewestOf(begun)
          /\ \A i \in NewestOf(begun) : Pruned(b)[i] = b[i]
          /\ \A i \in Ids : Pruned(b)[i] \in {b[i], Nothing}
      BY <1>1, <2>3, <2>6, PrunedKeeps
    <2>8. NewestOf(begun)' = NewestOf(begun) /\ Existing(bundle)' = Existing(bundle')
      BY DEF NewestOf, From, Existing
    <2>9. StoreInv'
      BY <2>1, <2>6, <2>7, <2>8 DEF StoreInv
    <2>10. EvidenceInv'
      <3>1. \A i \in NewestOf(begun) :
               /\ bundle'[i].raw # NoFile
               /\ bundle'[i].meta = "ok" => fate'[i] \in {"whole", "discarded"}
               /\ bundle'[i].meta = "error" => fate'[i] = "failed"
               /\ bundle'[i].meta # "open" => bundle'[i].raw = got[i]
        <4> SUFFICES ASSUME NEW i \in NewestOf(begun)
                     PROVE  /\ bundle'[i].raw # NoFile
                            /\ bundle'[i].meta = "ok" => fate'[i] \in {"whole", "discarded"}
                            /\ bundle'[i].meta = "error" => fate'[i] = "failed"
                            /\ bundle'[i].meta # "open" => bundle'[i].raw = got[i]
          OBVIOUS
        <4>1. i \in Ids /\ bundle'[i] = b[i] /\ bundle[i].raw # NoFile
          BY <1>1, <2>1, <2>7 DEF NewestOf, EvidenceInv
        <4>2. CASE i = t.id
          BY <1>2, <1>3, <1>5, <2>4, <4>1, <4>2
        <4>3. CASE i # t.id
          BY <1>2, <2>4, <4>1, <4>3 DEF EvidenceInv
        <4> QED  BY <4>2, <4>3
      <3> QED  BY <2>1, <2>8, <3>1 DEF EvidenceInv
    <2> QED
      <3>1. index' \subseteq Ids
        BY <2>1 DEF Existing
      <3> QED  BY <2>1, <2>4, <2>7, <2>9, <2>10, <3>1
  <1> QED  BY <1>4, <1>5

\* An attempt is over.  w says how it was accounted for.
LEMMA OverInv ==
    ASSUME IInv, NEW a \in InFlight, NEW w \in {"no", "finish", "setup", "orphan"},
           NEW f \in {"whole", "denied", "discarded", "failed"},
           attempt' = [attempt EXCEPT ![a] = Free],
           fate' = [fate EXCEPT ![attempt[a].id] = f],
           lost' = [lost EXCEPT ![attempt[a].id] = w],
           active' = IF w = "no" THEN active - 1 ELSE active,
           conns' = IF w \in {"setup", "orphan"} THEN conns \cup {attempt[a].id}
                    ELSE conns \ {attempt[a].id},
           bundle' \in [Ids -> Bundle], index' \subseteq Ids,
           StoreInv', EvidenceInv',
           \A i \in Ids : i # attempt[a].id => bundle'[i] \in {bundle[i], Nothing},
           UNCHANGED <<up, nextId, begun, got, resetLate, resets, crashes>>
    PROVE  IInv'
  <1> DEFINE n == attempt[a].id
  <1> USE DEF IInv
  <1>1. a \in Attempts /\ n \in Ids /\ n \in begun /\ lost[n] = "no"
    BY FlightId DEF FlightInv
  <1>2. TypeOK'
    <2>1. /\ Free.stage = "free" /\ Free.id \in 0 .. MaxId /\ Free.head = NoHead
          /\ Free.left \in 0 .. MaxChunks
      BY IdsFinite, ExchangeAssumption DEF Free
    <2>2. attempt' \in [Attempts ->
            [stage : {"free", "sent", "reading", "returned", "streaming"},
             id : 0 .. MaxId, head : Heads \cup {NoHead}, left : 0 .. MaxChunks]]
      BY <2>1 DEF TypeOK, Free
    <2>3. fate' \in [Ids -> {"none", "whole", "denied", "discarded", "failed"}]
          /\ lost' \in [Ids -> {"no", "finish", "setup", "orphan"}]
      BY DEF TypeOK
    <2>4. active' \in Int /\ conns' \subseteq Ids
      BY <1>1 DEF TypeOK
    <2> QED  BY <2>2, <2>3, <2>4 DEF TypeOK
  <1>3. InFlight' = InFlight \ {a}
    BY <1>1 DEF InFlight, Free, TypeOK
  <1>4. \A c \in InFlight' : c \in InFlight /\ attempt'[c] = attempt[c] /\ attempt[c].id # n
    BY <1>1, <1>3 DEF FlightInv, InFlight, TypeOK
  <1>5. \A i \in Ids : i # n => fate'[i] = fate[i] /\ lost'[i] = lost[i]
    BY DEF TypeOK
  <1>6. FlightInv'
    <2>1. ASSUME NEW c \in InFlight'
          PROVE  LET i == attempt'[c].id
                 IN  /\ i \in begun'
                     /\ fate'[i] = "none"
                     /\ lost'[i] = "no"
                     /\ bundle'[i].meta \in {"none", "open"}
                     /\ bundle'[i].raw \in {NoFile, got'[i]}
                     /\ got'[i] + attempt'[c].left <= MaxChunks
                     /\ attempt'[c].stage = "sent" => got'[i] = 0
      <3>1. c \in InFlight /\ attempt[c].id \in Ids
        BY <1>4, FlightId
      <3>2. bundle'[attempt[c].id] \in {bundle[attempt[c].id], Nothing}
        BY <1>4, <3>1
      <3> QED  BY <1>4, <1>5, <3>1, <3>2 DEF FlightInv, Nothing
    <2> QED  BY <1>3, <1>4, <2>1 DEF FlightInv
  <1>7. FreshInv'
    BY <1>1, <1>5 DEF FreshInv
  <1>8. GaugeBalanced'
    <2>1. Cardinality(InFlight') = Cardinality(InFlight) - 1 /\ Cardinality(InFlight) \in Nat
      <3>1. IsFiniteSet(InFlight)
        BY ExchangeAssumption, FS_Subset DEF InFlight
      <3>2. Cardinality(InFlight \ {a}) = Cardinality(InFlight) - 1
        BY <3>1, FS_RemoveElement
      <3> QED  BY <1>3, <3>1, <3>2, FS_CardinalityType
    <2>2. IsFiniteSet(Unaccounted) /\ n \notin Unaccounted
      BY <1>1, IdsFinite, FS_Subset DEF Unaccounted
    <2>3. Cardinality(Unaccounted) \in Nat
      BY <2>2, FS_CardinalityType
    <2>4. Unaccounted' = IF w = "no" THEN Unaccounted ELSE Unaccounted \cup {n}
      BY <1>1, <1>5 DEF Unaccounted, TypeOK
    <2>5. Cardinality(Unaccounted \cup {n}) = Cardinality(Unaccounted) + 1
      BY <2>2, FS_AddElement
    <2> QED  BY <2>1, <2>3, <2>4, <2>5 DEF GaugeBalanced, TypeOK
  <1>9. ConnectionsReturned'
    <2> DEFINE Open(c) == attempt[c].stage # "sent"
    <2>1. \A i \in Ids : i \in conns <=> \/ \E c \in InFlight : attempt[c].id = i /\ Open(c)
                                         \/ lost[i] \in {"setup", "orphan"}
      BY DEF ConnectionsReturned, Underway
    <2>2. \A i \in Ids : i \in conns' <=> \/ \E c \in InFlight' : attempt'[c].id = i /\ Open(c)'
                                          \/ lost'[i] \in {"setup", "orphan"}
      <3> TAKE i \in Ids
      <3>1. CASE i = n
        BY <1>1, <1>4, <3>1 DEF TypeOK
      <3>2. CASE i # n
        BY <1>3, <1>4, <1>5, <2>1, <3>2
      <3> QED  BY <3>1, <3>2
    <2>3. conns' \subseteq Ids /\ Underway' \subseteq Ids
      BY <1>1, <1>4, FlightId DEF TypeOK, Underway
    <2> QED  BY <2>2, <2>3 DEF ConnectionsReturned, Underway
  <1> QED  BY <1>2, <1>6, <1>7, <1>8, <1>9

---------------------------------------------------------------------------
(* The steps.                                                              *)

LEMMA InitInv == Init => IInv
  <1> SUFFICES ASSUME Init PROVE IInv
    OBVIOUS
  <1>1. /\ MaxId \in Nat /\ MaxChunks \in Nat /\ MaxResets \in Nat /\ MaxCrashes \in Nat
        /\ Nothing \in Bundle /\ Nothing.meta = "none"
        /\ Free.stage = "free" /\ Free.id \in 0 .. MaxId /\ Free.left \in 0 .. MaxChunks
    BY ExchangeAssumption DEF Nothing, Bundle, NoFile, Free
  <1>2. TypeOK
    <2>1. attempt \in [Attempts ->
            [stage : {"free", "sent", "reading", "returned", "streaming"},
             id : 0 .. MaxId, head : Heads \cup {NoHead}, left : 0 .. MaxChunks]]
      BY <1>1 DEF Init, Free
    <2>2. bundle \in [Ids -> Bundle] /\ got \in [Ids -> 0 .. MaxChunks]
      BY <1>1 DEF Init
    <2>3. /\ nextId \in 1 .. MaxId + 1 /\ resets \in 0 .. MaxResets
          /\ crashes \in 0 .. MaxCrashes
      BY <1>1 DEF Init
    <2>4. /\ fate \in [Ids -> {"none", "whole", "denied", "discarded", "failed"}]
          /\ lost \in [Ids -> {"no", "finish", "setup", "orphan"}]
      BY DEF Init
    <2>5. up \in BOOLEAN /\ resetLate \in BOOLEAN
      BY Zenon DEF Init
    <2>6. active \in Int /\ conns \subseteq Ids /\ index \subseteq Ids /\ begun \subseteq Ids
      BY DEF Init
    <2> QED  BY <2>1, <2>2, <2>3, <2>4, <2>5, <2>6 DEF TypeOK
  <1>3. InFlight = {} /\ Unaccounted = {} /\ Existing(bundle) = {}
    BY <1>1 DEF Init, InFlight, Unaccounted, Existing
  <1>4. FlightInv /\ FreshInv
    BY <1>3 DEF FlightInv, FreshInv, Init
  <1>5. StoreInv /\ EvidenceInv
    BY <1>3 DEF StoreInv, EvidenceInv, NewestOf, Init
  <1>6. GaugeBalanced
    BY <1>3, FS_EmptySet DEF GaugeBalanced, Init
  <1>7. ConnectionsReturned
    BY <1>3 DEF ConnectionsReturned, Underway, Init, Unaccounted
  <1> QED  BY <1>2, <1>4, <1>5, <1>6, <1>7 DEF IInv

\* An attempt that is over and was settled: it left the gauge, unless finish raised.
LEMMA SettleInv ==
    ASSUME IInv, NEW a \in InFlight, NEW verdict \in {"ok", "error"},
           NEW f \in {"whole", "denied", "discarded", "failed"},
           Settle(attempt[a], verdict), Over(a, f),
           ~FinishRaises(attempt[a]) =>
             f \in (IF verdict = "ok" THEN {"whole", "discarded"} ELSE {"failed"})
    PROVE  IInv'
  <1> DEFINE w == IF FinishRaises(attempt[a]) THEN "finish" ELSE "no"
  <1>1. lost[attempt[a].id] = "no" /\ attempt[a].id \in Ids /\ lost \in [Ids -> {"no", "finish", "setup", "orphan"}]
    BY FlightId DEF IInv, FlightInv, TypeOK
  <1>2. lost' = [lost EXCEPT ![attempt[a].id] = w]
    BY <1>1 DEF Settle
  <1>3. /\ bundle' \in [Ids -> Bundle] /\ index' \subseteq Ids
        /\ StoreInv' /\ EvidenceInv'
        /\ \A i \in Ids : i # attempt[a].id => bundle'[i] \in {bundle[i], Nothing}
    BY FinishStore DEF Settle, Over
  <1>4. active' = IF w = "no" THEN active - 1 ELSE active
    BY DEF Settle
  <1>5. w \in {"no", "finish"}
    OBVIOUS
  <1> HIDE DEF w
  <1> QED  BY <1>2, <1>3, <1>4, <1>5, OverInv DEF Over

\* An attempt that is over and was finalized: it left the gauge.
LEMMA FinalizeInv ==
    ASSUME IInv, NEW a \in InFlight, NEW verdict \in {"ok", "error"},
           NEW f \in {"whole", "denied", "discarded", "failed"},
           Finalize(attempt[a], verdict), Over(a, f),
           f \in (IF verdict = "ok" THEN {"whole", "discarded"} ELSE {"failed"})
    PROVE  IInv'
  <1>1. lost[attempt[a].id] = "no" /\ attempt[a].id \in Ids /\ lost \in [Ids -> {"no", "finish", "setup", "orphan"}]
    BY FlightId DEF IInv, FlightInv, TypeOK
  <1>2. lost' = [lost EXCEPT ![attempt[a].id] = "no"]
    BY <1>1 DEF Finalize
  <1>3. /\ bundle' \in [Ids -> Bundle] /\ index' \subseteq Ids
        /\ StoreInv' /\ EvidenceInv'
        /\ \A i \in Ids : i # attempt[a].id => bundle'[i] \in {bundle[i], Nothing}
    BY FinishStore DEF Finalize, Over
  <1> QED  BY <1>2, <1>3, OverInv DEF Finalize, Over

LEMMA FailToSendInv == ASSUME IInv, NEW a \in Attempts, FailToSend(a) PROVE IInv'
  BY SettleInv DEF FailToSend, InFlight

LEMMA AnswerBufferedInv == ASSUME IInv, NEW a \in Attempts, AnswerBuffered(a) PROVE IInv'
  BY SettleInv DEF AnswerBuffered, InFlight

LEMMA FailBufferedInv == ASSUME IInv, NEW a \in Attempts, FailBuffered(a) PROVE IInv'
  BY SettleInv DEF FailBuffered, InFlight

LEMMA EndStreamInv == ASSUME IInv, NEW a \in Attempts, EndStream(a) PROVE IInv'
  BY FinalizeInv DEF EndStream, InFlight

LEMMA DiscardInv == ASSUME IInv, NEW a \in Attempts, Discard(a) PROVE IInv'
  BY FinalizeInv DEF Discard, InFlight

\* The head of a response marks its bundle unfinished, which it was.
LEMMA HeadStore ==
    ASSUME IInv, NEW a \in InFlight,
           bundle' = [bundle EXCEPT ![attempt[a].id].meta = "open"],
           NEW f \in {"none", "failed"},
           fate' = [fate EXCEPT ![attempt[a].id] = f],
           UNCHANGED <<up, nextId, index, begun, got>>
    PROVE  /\ bundle' \in [Ids -> Bundle] /\ StoreInv' /\ EvidenceInv'
           /\ \A i \in Ids : i # attempt[a].id => bundle'[i] = bundle[i]
           /\ bundle'[attempt[a].id].meta = "open"
           /\ bundle'[attempt[a].id].raw = bundle[attempt[a].id].raw
  <1> DEFINE n == attempt[a].id
  <1> USE DEF IInv
  <1>1. /\ n \in Ids /\ n \in begun /\ bundle \in [Ids -> Bundle] /\ up
        /\ begun \in SUBSET Ids
        /\ fate \in [Ids -> {"none", "whole", "denied", "discarded", "failed"}]
    BY FlightId DEF FlightInv, TypeOK
  <1>2. /\ bundle' \in [Ids -> Bundle]
        /\ \A i \in Ids : i # n => bundle'[i] = bundle[i]
        /\ bundle'[n].meta = "open" /\ bundle'[n].raw = bundle[n].raw
    BY <1>1 DEF Bundle
  <1>3. Existing(bundle)' = Existing(bundle) \cup {n} /\ NewestOf(begun)' = NewestOf(begun)
    BY <1>1, <1>2 DEF Existing, NewestOf, From
  <1>4. StoreInv'
    BY <1>1, <1>2, <1>3 DEF StoreInv, Existing
  <1>5. \A i \in Ids : i # n => fate'[i] = fate[i]
    BY <1>1
  <1>6. EvidenceInv'
    BY <1>1, <1>2, <1>3, <1>5 DEF EvidenceInv, NewestOf, Existing
  <1> QED  BY <1>2, <1>4, <1>6

LEMMA FailToStreamInv ==
    ASSUME IInv, NEW a \in Attempts, NEW h \in Heads, FailToStream(a, h)
    PROVE  IInv'
  <1>1. a \in InFlight /\ index \subseteq Ids
    BY DEF FailToStream, InFlight, IInv, TypeOK
  <1>2. /\ bundle' \in [Ids -> Bundle] /\ StoreInv' /\ EvidenceInv'
        /\ \A i \in Ids : i # attempt[a].id => bundle'[i] = bundle[i]
    BY <1>1, HeadStore DEF FailToStream
  <1> QED  BY <1>1, <1>2, OverInv DEF FailToStream

LEMMA OrphanInv == ASSUME IInv, NEW a \in Attempts, Orphan(a) PROVE IInv'
  <1> DEFINE n == attempt[a].id
  <1> USE DEF IInv
  <1>1. a \in InFlight /\ n \in Ids /\ bundle[n].meta \in {"none", "open"}
    BY FlightId DEF Orphan, InFlight, FlightInv
  <1>2. /\ bundle' = bundle /\ index' = index /\ nextId' = nextId /\ begun' = begun
        /\ fate' = [fate EXCEPT ![n] = "failed"]
    BY DEF Orphan, store
  <1>3. \A i \in Ids : i # n => fate'[i] = fate[i]
    BY DEF Orphan, TypeOK
  <1>4. StoreInv'
    BY <1>2 DEF Orphan, StoreInv, NewestOf, From, Existing
  <1>5. EvidenceInv'
    BY <1>1, <1>2, <1>3 DEF Orphan, EvidenceInv, NewestOf, From, Existing, TypeOK
  <1>6. n \in conns
    BY <1>1 DEF Orphan, ConnectionsReturned, Underway
  <1>7. conns' = conns \cup {n}
    BY <1>6 DEF Orphan
  <1> QED  BY <1>1, <1>2, <1>4, <1>5, <1>7, OverInv DEF Orphan, TypeOK

LEMMA BeginInv == ASSUME IInv, NEW a \in Attempts, Begin(a) PROVE IInv'
  <1> USE DEF IInv
  <1>1. /\ nextId \in Ids /\ nextId \notin begun /\ up /\ a \notin InFlight
        /\ bundle \in [Ids -> Bundle] /\ begun \in SUBSET Ids /\ 0 \in 0 .. MaxChunks
        /\ got[nextId] = 0 /\ fate[nextId] = "none" /\ lost[nextId] = "no"
    BY ExchangeAssumption
       DEF Begin, Idle, TypeOK, InFlight, StoreInv, FreshInv, Ids
  <1>2. /\ Written \in [Ids -> Bundle]
        /\ Written[nextId].raw = 0 /\ Written[nextId].meta = "open"
        /\ \A i \in Ids : i # nextId => Written[i] = bundle[i]
    <2>1. 0 \in NoFile .. MaxChunks
      BY ExchangeAssumption DEF NoFile
    <2> QED  BY <1>1, <2>1 DEF Written, Bundle
  <1>3. Existing(Written) = Existing(bundle) \cup {nextId}
    BY <1>1, <1>2 DEF Existing
  <1>4. NewestOf(begun') \subseteq NewestOf(begun) \cup {nextId} /\ begun' = begun \cup {nextId}
    BY <1>1, NewestAfterWrite DEF Begin
  <1>5. begun' \in SUBSET Ids /\ NewestOf(begun') \subseteq Existing(Written) /\ Existing(Written) \subseteq begun'
    BY <1>1, <1>3, <1>4 DEF StoreInv
  <1>6. bundle' = Pruned(Written)
    BY DEF Begin
  <1>7. /\ bundle' \in [Ids -> Bundle]
        /\ Existing(bundle') = NewestOf(begun')
        /\ \A i \in NewestOf(begun') : bundle'[i] = Written[i]
        /\ \A i \in Ids : bundle'[i] \in {Written[i], Nothing}
    BY <1>2, <1>5, <1>6, PrunedKeeps
  <1>8. NewestOf(begun)' = NewestOf(begun') /\ Existing(bundle)' = Existing(bundle')
    BY DEF NewestOf, From, Existing
  <1>9. /\ attempt'[a].stage = "sent" /\ attempt'[a].id = nextId /\ attempt'[a].left = 0
        /\ \A c \in Attempts : c # a => attempt'[c] = attempt[c]
        /\ InFlight' = InFlight \cup {a}
    BY <1>1 DEF Begin, Free, InFlight, TypeOK
  <1>10. TypeOK'
    <2>1. attempt' \in [Attempts ->
            [stage : {"free", "sent", "reading", "returned", "streaming"},
             id : 0 .. MaxId, head : Heads \cup {NoHead}, left : 0 .. MaxChunks]]
      <3> DEFINE t == [Free EXCEPT !.stage = "sent", !.id = nextId]
      <3>1. nextId \in 0 .. MaxId /\ 0 \in 0 .. MaxChunks
        BY <1>1, IdsFinite, ExchangeAssumption DEF Ids
      <3>2. t \in [stage : {"free", "sent", "reading", "returned", "streaming"},
                  id : 0 .. MaxId, head : Heads \cup {NoHead}, left : 0 .. MaxChunks]
        BY <3>1 DEF Free
      <3>3. attempt' = [attempt EXCEPT ![a] = t]
        BY DEF Begin
      <3> HIDE DEF t
      <3> QED  BY <3>2, <3>3 DEF TypeOK
    <2>2. nextId' \in 1 .. MaxId + 1 /\ active' \in Int
      BY <1>1, IdsFinite DEF Begin, TypeOK, Ids
    <2> QED  BY <1>5, <1>7, <2>1, <2>2 DEF Begin, TypeOK, history
  <1>11. FlightInv'
    <2>1. ASSUME NEW c \in InFlight, c # a
          PROVE  attempt[c].id \in begun /\ attempt[c].id # nextId /\ attempt[c].id \in Ids
      BY <1>1, FlightId
    <2>2. ASSUME NEW c \in InFlight'
          PROVE  LET i == attempt'[c].id
                 IN  /\ i \in begun'
                     /\ fate'[i] = "none"
                     /\ lost'[i] = "no"
                     /\ bundle'[i].meta \in {"none", "open"}
                     /\ bundle'[i].raw \in {NoFile, got'[i]}
                     /\ got'[i] + attempt'[c].left <= MaxChunks
                     /\ attempt'[c].stage = "sent" => got'[i] = 0
      <3>1. CASE c = a
        <4>1. bundle'[nextId] \in {Written[nextId], Nothing}
          BY <1>1, <1>7
        <4> QED  BY <1>1, <1>2, <1>4, <1>9, <3>1, <4>1 DEF Begin, history, Nothing
      <3>2. CASE c # a
        <4>1. c \in InFlight /\ attempt'[c] = attempt[c]
          BY <1>9, <3>2 DEF InFlight
        <4>2. bundle'[attempt[c].id] \in {bundle[attempt[c].id], Nothing}
          BY <1>2, <1>7, <2>1, <3>2, <4>1
        <4> QED  BY <1>4, <2>1, <3>2, <4>1, <4>2 DEF FlightInv, Begin, history, Nothing
      <3> QED  BY <3>1, <3>2
    <2>3. \A c, d \in InFlight' : attempt'[c].id = attempt'[d].id => c = d
      BY <1>9, <2>1 DEF FlightInv, InFlight
    <2> QED  BY <1>1, <2>2, <2>3 DEF FlightInv, Begin
  <1>12. FreshInv'
    BY <1>4 DEF FreshInv, Begin, history
  <1>13. StoreInv'
    <2>1. \A i \in begun' : i < nextId'
      <3>1. \A i \in begun : i \in Nat /\ i < nextId
        BY <1>1, IdsFinite DEF StoreInv
      <3> QED  BY <1>1, <1>4, <3>1, IdsFinite DEF Begin
    <2> QED  BY <1>1, <1>5, <1>7, <1>8, <2>1 DEF StoreInv, NewestOf
  <1>14. EvidenceInv'
    <2>1. \A i \in NewestOf(begun') : i = nextId \/ (i # nextId /\ i \in NewestOf(begun) /\ i \in Ids)
      BY <1>4, <1>5 DEF NewestOf
    <2>2. \A i \in Existing(bundle') : i = nextId \/ (i # nextId /\ i \in Existing(bundle) /\ i \in Ids)
      BY <1>3, <1>5, <1>7 DEF Existing
    <2>3. /\ got' = got /\ fate' = fate /\ index' = index
      BY DEF Begin, history
    <2>4. \A i \in NewestOf(begun') :
             /\ bundle'[i].raw # NoFile
             /\ bundle'[i].meta = "ok" => fate[i] \in {"whole", "discarded"}
             /\ bundle'[i].meta = "error" => fate[i] = "failed"
             /\ bundle'[i].meta # "open" => bundle'[i].raw = got[i]
      BY <1>2, <1>7, <2>1 DEF EvidenceInv, NoFile
    <2>5. \A i \in Existing(bundle') : bundle'[i].meta # "open" => i \in index
      BY <1>1, <1>2, <1>7, <2>2 DEF EvidenceInv
    <2> QED  BY <1>8, <2>3, <2>4, <2>5 DEF EvidenceInv
  <1>15. GaugeBalanced'
    <2>1. IsFiniteSet(InFlight)
      BY ExchangeAssumption, FS_Subset DEF InFlight
    <2>2. Cardinality(InFlight') = Cardinality(InFlight) + 1 /\ Cardinality(InFlight) \in Nat
      BY <1>1, <1>9, <2>1, FS_AddElement, FS_CardinalityType
    <2>3. Unaccounted' = Unaccounted
      BY DEF Unaccounted, Begin, history
    <2>4. Cardinality(Unaccounted) \in Nat
      BY IdsFinite, FS_Subset, FS_CardinalityType DEF Unaccounted
    <2> QED  BY <2>2, <2>3, <2>4 DEF GaugeBalanced, Begin, history, TypeOK
  <1>16. ConnectionsReturned'
    <2> DEFINE Opened == {i \in Underway : \E c \in InFlight : attempt[c].id = i /\ attempt[c].stage # "sent"}
    <2>1. \A i : i \in Opened <=> \E c \in InFlight : attempt[c].id = i /\ attempt[c].stage # "sent"
      BY DEF Underway
    <2>2. \A i : i \in Opened' <=> \E c \in InFlight' : attempt'[c].id = i /\ attempt'[c].stage # "sent"
      BY DEF Underway
    <2>3. \A c \in InFlight : c # a /\ attempt'[c] = attempt[c]
      BY <1>1, <1>9 DEF InFlight
    <2>4. Opened' = Opened
      <3> HIDE DEF Opened
      <3> QED  BY <1>9, <2>1, <2>2, <2>3
    <2> QED  BY <2>4 DEF ConnectionsReturned, Begin, history
  <1> QED  BY <1>10, <1>11, <1>12, <1>13, <1>14, <1>15, <1>16

LEMMA BeginFailsInv == ASSUME IInv, NEW a \in Attempts, BeginFails(a) PROVE IInv'
  <1> USE DEF IInv
  <1>1. /\ nextId \in Ids /\ nextId \notin begun /\ up
        /\ bundle \in [Ids -> Bundle] /\ begun \in SUBSET Ids
    BY ExchangeAssumption DEF BeginFails, Idle, TypeOK, StoreInv, Ids
  <1>2. /\ Nothing \in Bundle /\ Nothing.meta = "none"
    BY IdsFinite, ExchangeAssumption DEF Nothing, Bundle, NoFile
  <1>3. /\ bundle' \in [Ids -> Bundle]
        /\ \A i \in Ids : i # nextId => bundle'[i] = bundle[i]
        /\ bundle'[nextId].meta = "none"
    BY <1>1, <1>2 DEF BeginFails
  <1>4. nextId \notin Existing(bundle)
    BY <1>1 DEF StoreInv
  <1>5. Existing(bundle)' = Existing(bundle) /\ NewestOf(begun)' = NewestOf(begun)
    BY <1>1, <1>3, <1>4 DEF Existing, NewestOf, From, BeginFails
  <1>6. TypeOK'
    <2>1. nextId' \in 1 .. MaxId + 1
      BY <1>1, IdsFinite DEF BeginFails, TypeOK, Ids
    <2> QED  BY <1>3, <2>1 DEF BeginFails, TypeOK, history
  <1>7. FlightInv'
    <2>1. \A c \in InFlight : attempt[c].id \in Ids /\ attempt[c].id # nextId
      BY <1>1, FlightId
    <2>2. InFlight' = InFlight
      BY DEF BeginFails, InFlight
    <2> QED  BY <1>3, <2>1, <2>2 DEF FlightInv, BeginFails, history
  <1>8. FreshInv'
    BY DEF FreshInv, BeginFails, history
  <1>9. StoreInv'
    BY <1>1, <1>3, <1>4, <1>5, IdsFinite DEF StoreInv, BeginFails, Existing, TypeOK
  <1>10. EvidenceInv'
    BY <1>1, <1>3, <1>4, <1>5 DEF EvidenceInv, BeginFails, history, Existing, NewestOf
  <1>11. GaugeBalanced' /\ ConnectionsReturned'
    BY DEF GaugeBalanced, ConnectionsReturned, Underway, InFlight, Unaccounted, BeginFails, history
  <1> QED  BY <1>6, <1>7, <1>8, <1>9, <1>10, <1>11

\* An attempt goes on: only its record, its bundle and what it got may change,
\* and it holds a connection if it is past "sent".
LEMMA GoesOnInv ==
    ASSUME IInv, NEW a \in InFlight, NEW stage \in {"reading", "returned", "streaming"},
           attempt' \in [Attempts ->
             [stage : {"free", "sent", "reading", "returned", "streaming"},
              id : 0 .. MaxId, head : Heads \cup {NoHead}, left : 0 .. MaxChunks]],
           \A c \in Attempts : c # a => attempt'[c] = attempt[c],
           attempt'[a].stage = stage, attempt'[a].id = attempt[a].id,
           bundle' \in [Ids -> Bundle], got' \in [Ids -> 0 .. MaxChunks],
           \A i \in Ids : i # attempt[a].id => bundle'[i] = bundle[i] /\ got'[i] = got[i],
           LET i == attempt[a].id
           IN  /\ bundle'[i].meta \in {"none", "open"}
               /\ bundle'[i].raw \in {NoFile, got'[i]}
               /\ got'[i] + attempt'[a].left <= MaxChunks,
           StoreInv', EvidenceInv',
           conns' = conns \cup {attempt[a].id},
           UNCHANGED <<up, active, nextId, index, begun, fate, lost, resetLate,
                       resets, crashes>>
    PROVE  IInv'
  <1> DEFINE n == attempt[a].id
  <1> USE DEF IInv
  <1>1. a \in Attempts /\ n \in Ids /\ n \in begun
    BY FlightId
  <1>2. TypeOK'
    BY <1>1 DEF TypeOK
  <1>3. InFlight' = InFlight
    BY <1>1 DEF InFlight
  <1>4. \A c \in InFlight : c \in Attempts /\ attempt[c].id \in Ids /\ attempt'[c].id = attempt[c].id
    BY <1>1, FlightId
  <1>5. \A c \in InFlight : c # a => attempt[c].id # n /\ attempt'[c] = attempt[c]
    BY <1>4 DEF FlightInv
  <1>6. FlightInv'
    <2>1. ASSUME NEW c \in InFlight
          PROVE  LET i == attempt'[c].id
                 IN  /\ i \in begun'
                     /\ fate'[i] = "none"
                     /\ lost'[i] = "no"
                     /\ bundle'[i].meta \in {"none", "open"}
                     /\ bundle'[i].raw \in {NoFile, got'[i]}
                     /\ got'[i] + attempt'[c].left <= MaxChunks
                     /\ attempt'[c].stage = "sent" => got'[i] = 0
      <3>1. CASE c = a
        BY <3>1 DEF FlightInv
      <3>2. CASE c # a
        BY <1>4, <1>5, <3>2 DEF FlightInv
      <3> QED  BY <3>1, <3>2
    <2>2. \A c, d \in InFlight : attempt'[c].id = attempt'[d].id => c = d
      BY <1>4 DEF FlightInv
    <2> QED  BY <1>3, <2>1, <2>2 DEF FlightInv
  <1>7. FreshInv'
    BY <1>1 DEF FreshInv
  <1>8. GaugeBalanced'
    BY <1>3 DEF GaugeBalanced, Unaccounted
  <1>9. ConnectionsReturned'
    <2>1. \A i \in Ids : i \in conns <=> \/ \E c \in InFlight : attempt[c].id = i /\ attempt[c].stage # "sent"
                                         \/ lost[i] \in {"setup", "orphan"}
      BY DEF ConnectionsReturned, Underway
    <2>2. \A i \in Ids : i \in conns' <=> \/ \E c \in InFlight : attempt'[c].id = i /\ attempt'[c].stage # "sent"
                                          \/ lost[i] \in {"setup", "orphan"}
      <3> TAKE i \in Ids
      <3>1. CASE i = n
        BY <3>1
      <3>2. CASE i # n
        BY <1>4, <1>5, <2>1, <3>2
      <3> QED  BY <3>1, <3>2
    <2>3. conns' \subseteq Ids /\ Underway' \subseteq Ids
      BY <1>1, <1>3, <1>4 DEF TypeOK, Underway
    <2> QED  BY <1>3, <2>2, <2>3 DEF ConnectionsReturned, Underway
  <1> QED  BY <1>2, <1>6, <1>7, <1>8, <1>9

LEMMA ReceiveHeadInv ==
    ASSUME IInv, NEW a \in Attempts, NEW h \in Heads, NEW k \in 0 .. MaxChunks,
           ReceiveHead(a, h, k)
    PROVE  IInv'
  <1> DEFINE n == attempt[a].id
             stage == IF Streams(h) THEN "returned" ELSE "reading"
             t == [stage |-> stage, id |-> n, head |-> h, left |-> k]
  <1>1. /\ a \in InFlight /\ n \in Ids /\ got[n] = 0 /\ fate[n] = "none"
        /\ bundle[n].raw \in {NoFile, got[n]} /\ MaxChunks \in Nat /\ n \in 0 .. MaxId
    BY FlightId, ExchangeAssumption DEF ReceiveHead, InFlight, IInv, FlightInv, TypeOK
  <1>2. fate' = [fate EXCEPT ![n] = "none"]
    BY <1>1 DEF ReceiveHead, history, IInv, TypeOK
  <1>3. /\ bundle' \in [Ids -> Bundle] /\ StoreInv' /\ EvidenceInv'
        /\ \A i \in Ids : i # n => bundle'[i] = bundle[i]
        /\ bundle'[n].meta = "open" /\ bundle'[n].raw = bundle[n].raw
    BY <1>1, <1>2, HeadStore DEF ReceiveHead, history
  <1>4. attempt' = [attempt EXCEPT ![a] = t]
    BY DEF ReceiveHead
  <1>5. /\ t \in [stage : {"free", "sent", "reading", "returned", "streaming"},
                  id : 0 .. MaxId, head : Heads \cup {NoHead}, left : 0 .. MaxChunks]
        /\ t.stage = stage /\ t.id = n /\ t.left = k /\ stage \in {"reading", "returned"}
    BY <1>1
  <1> HIDE DEF t, stage
  <1>6. /\ attempt' \in [Attempts ->
             [stage : {"free", "sent", "reading", "returned", "streaming"},
              id : 0 .. MaxId, head : Heads \cup {NoHead}, left : 0 .. MaxChunks]]
        /\ \A c \in Attempts : c # a => attempt'[c] = attempt[c]
        /\ attempt'[a].stage = stage /\ attempt'[a].id = n /\ attempt'[a].left = k
    BY <1>4, <1>5 DEF IInv, TypeOK
  <1>7. got[n] + attempt'[a].left <= MaxChunks
    BY <1>1, <1>6
  <1>8. got \in [Ids -> 0 .. MaxChunks]
    BY DEF IInv, TypeOK
  <1> QED  BY <1>1, <1>3, <1>5, <1>6, <1>7, <1>8, GoesOnInv DEF ReceiveHead, history

LEMMA ReceiveInv == ASSUME IInv, NEW a \in Attempts, Receive(a) PROVE IInv'
  <1> DEFINE n == attempt[a].id
  <1> USE DEF IInv
  <1>1. /\ a \in InFlight /\ n \in Ids /\ n \in begun /\ bundle \in [Ids -> Bundle]
        /\ attempt[a].stage \in {"reading", "streaming"}
        /\ attempt[a].left \in 1 .. MaxChunks /\ got[n] \in Nat
        /\ got[n] + attempt[a].left <= MaxChunks
        /\ bundle[n].meta \in {"none", "open"} /\ bundle[n].raw \in {NoFile, got[n]}
        /\ MaxChunks \in Nat /\ begun \in SUBSET Ids
    BY FlightId, ExchangeAssumption DEF Receive, InFlight, FlightInv, TypeOK
  <1>2. /\ attempt' = [attempt EXCEPT ![a].left = attempt[a].left - 1]
        /\ got' = [got EXCEPT ![n] = got[n] + 1]
    BY <1>1 DEF Receive, TypeOK
  <1>3. /\ attempt' \in [Attempts ->
             [stage : {"free", "sent", "reading", "returned", "streaming"},
              id : 0 .. MaxId, head : Heads \cup {NoHead}, left : 0 .. MaxChunks]]
        /\ \A c \in Attempts : c # a => attempt'[c] = attempt[c]
        /\ attempt'[a].stage = attempt[a].stage /\ attempt'[a].id = n
        /\ attempt'[a].left = attempt[a].left - 1
    BY <1>1, <1>2 DEF TypeOK
  <1>4. /\ got' \in [Ids -> 0 .. MaxChunks] /\ got'[n] = got[n] + 1
        /\ \A i \in Ids : i # n => got'[i] = got[i]
    BY <1>1, <1>2 DEF TypeOK
  <1>5. /\ bundle' \in [Ids -> Bundle]
        /\ \A i \in Ids : i # n => bundle'[i] = bundle[i]
        /\ \A i \in Ids : bundle'[i].meta = bundle[i].meta
        /\ bundle'[n].raw = IF bundle[n].raw = NoFile THEN NoFile ELSE bundle[n].raw + 1
    <2>1. CASE bundle[n].raw = NoFile
      BY <1>1, <2>1 DEF Receive
    <2>2. CASE bundle[n].raw # NoFile
      <3>1. bundle' = [bundle EXCEPT ![n].raw = bundle[n].raw + 1]
        BY <1>1, <2>2 DEF Receive
      <3>2. bundle[n].raw + 1 \in NoFile .. MaxChunks
        BY <1>1, <2>2 DEF NoFile
      <3> QED  BY <1>1, <2>2, <3>1, <3>2 DEF Bundle
    <2> QED  BY <2>1, <2>2
  <1>6. /\ bundle'[n].meta \in {"none", "open"}
        /\ bundle'[n].raw \in {NoFile, got'[n]}
        /\ got'[n] + attempt'[a].left <= MaxChunks
    BY <1>1, <1>3, <1>4, <1>5
  <1>7. Existing(bundle)' = Existing(bundle) /\ NewestOf(begun)' = NewestOf(begun)
    BY <1>5 DEF Receive, Existing, NewestOf, From
  <1>8. StoreInv'
    BY <1>5, <1>7 DEF StoreInv, Receive, Existing
  <1>9. EvidenceInv'
    <2>1. \A i \in NewestOf(begun) : i \in Ids /\ i \in Existing(bundle)
      BY <1>1 DEF StoreInv, Existing
    <2>2. n \in NewestOf(begun) => bundle[n].meta = "open" /\ bundle'[n].raw # NoFile
      BY <1>1, <1>5, <2>1 DEF EvidenceInv, Existing, NoFile
    <2> QED  BY <1>4, <1>5, <1>7, <2>1, <2>2 DEF EvidenceInv, Receive, Existing
  <1>10. conns' = conns \cup {n}
    <2>1. n \in conns
      BY <1>1 DEF ConnectionsReturned, Underway
    <2> QED  BY <2>1 DEF Receive
  <1> QED  BY <1>1, <1>3, <1>4, <1>5, <1>6, <1>8, <1>9, <1>10, GoesOnInv DEF Receive

LEMMA StartStreamInv == ASSUME IInv, NEW a \in Attempts, StartStream(a) PROVE IInv'
  <1> DEFINE n == attempt[a].id
  <1> USE DEF IInv
  <1>1. /\ a \in InFlight /\ n \in Ids /\ attempt[a].stage = "returned"
        /\ got[n] + attempt[a].left <= MaxChunks
        /\ bundle[n].meta \in {"none", "open"} /\ bundle[n].raw \in {NoFile, got[n]}
    BY FlightId DEF StartStream, InFlight, FlightInv
  <1>2. attempt' = [attempt EXCEPT ![a].stage = "streaming"]
    BY DEF StartStream
  <1>3. /\ attempt' \in [Attempts ->
             [stage : {"free", "sent", "reading", "returned", "streaming"},
              id : 0 .. MaxId, head : Heads \cup {NoHead}, left : 0 .. MaxChunks]]
        /\ \A c \in Attempts : c # a => attempt'[c] = attempt[c]
        /\ attempt'[a].stage = "streaming" /\ attempt'[a].id = n
        /\ attempt'[a].left = attempt[a].left
    BY <1>1, <1>2 DEF TypeOK
  <1>4. StoreInv' /\ EvidenceInv'
    BY DEF StoreInv, EvidenceInv, NewestOf, From, Existing, StartStream, store, history
  <1>5. conns' = conns \cup {n}
    <2>1. n \in conns
      BY <1>1 DEF ConnectionsReturned, Underway
    <2> QED  BY <2>1 DEF StartStream
  <1>6. bundle \in [Ids -> Bundle] /\ got \in [Ids -> 0 .. MaxChunks]
    BY DEF TypeOK
  <1> QED  BY <1>1, <1>3, <1>4, <1>5, <1>6, GoesOnInv DEF StartStream, store, history

LEMMA ResetInv == ASSUME IInv, Reset PROVE IInv'
  <1> USE DEF IInv
  <1>1. TypeOK'
    <2>1. resetLate' \in BOOLEAN
      BY Zenon DEF Reset
    <2>2. resets' \in 0 .. MaxResets /\ active' \in Int
      BY ExchangeAssumption DEF Reset, TypeOK
    <2> QED  BY <2>1, <2>2 DEF Reset, TypeOK, store
  <1>2. FlightInv' /\ FreshInv' /\ StoreInv' /\ EvidenceInv' /\ ConnectionsReturned'
    BY DEF Reset, store, FlightInv, FreshInv, StoreInv, EvidenceInv, NewestOf, From,
           Existing, ConnectionsReturned, Underway, InFlight
  <1>3. GaugeBalanced'
    <2>1. InFlight' = InFlight /\ Unaccounted' = Unaccounted
      BY DEF Reset, InFlight, Unaccounted
    <2>2. ~resetLate' => InFlight = {} /\ Unaccounted = {}
      BY DEF Reset
    <2> QED  BY <2>1, <2>2, FS_EmptySet DEF GaugeBalanced, Reset
  <1> QED  BY <1>1, <1>2, <1>3

\* Whatever a crash cuts short, the newest bundles are as they were written.
LEMMA CrashStore ==
    ASSUME IInv, Crash
    PROVE  /\ bundle' \in [Ids -> Bundle] /\ begun' \subseteq Ids
           /\ StoreInv' /\ EvidenceInv'
  <1> USE DEF IInv
  <1>1. /\ bundle \in [Ids -> Bundle] /\ begun \in SUBSET Ids /\ up /\ ~up'
        /\ begun' = begun \cup Existing(bundle') /\ got' = got /\ fate' = fate
    BY DEF Crash, TypeOK
  <1>2. NewestOf(begun)' = NewestOf(begun') /\ Existing(bundle)' = Existing(bundle')
    BY DEF NewestOf, From, Existing
  <1>3. SUFFICES
          /\ bundle' \in [Ids -> Bundle]
          /\ NewestOf(begun') \subseteq Existing(bundle')
          /\ \A i \in NewestOf(begun') :
               /\ bundle'[i].raw # NoFile
               /\ bundle'[i].meta = "ok" => fate[i] \in {"whole", "discarded"}
               /\ bundle'[i].meta = "error" => fate[i] = "failed"
               /\ bundle'[i].meta # "open" => bundle'[i].raw = got[i]
    BY <1>1, <1>2 DEF StoreInv, EvidenceInv, Existing
  <1>4. CASE Existing(bundle') = Existing(bundle) /\ bundle' \in [Ids -> Bundle]
             /\ \A i \in Existing(bundle) : bundle'[i] = bundle[i]
    BY <1>1, <1>4 DEF StoreInv, EvidenceInv
  <1>5. CASE bundle' = bundle
    BY <1>1, <1>4, <1>5
  <1>6. CASE nextId <= MaxId /\ bundle' = [bundle EXCEPT ![nextId].raw = 0]
    <2>1. nextId \in Ids /\ nextId \notin Existing(bundle) /\ 0 \in NoFile .. MaxChunks
      BY <1>1, <1>6, ExchangeAssumption DEF TypeOK, Ids, StoreInv, NoFile
    <2>2. /\ bundle' \in [Ids -> Bundle]
          /\ \A i \in Ids : i # nextId => bundle'[i] = bundle[i]
          /\ \A i \in Ids : bundle'[i].meta = bundle[i].meta
      BY <1>1, <1>6, <2>1 DEF Bundle
    <2>3. Existing(bundle') = Existing(bundle) /\ \A i \in Existing(bundle) : bundle'[i] = bundle[i]
      BY <2>1, <2>2 DEF Existing
    <2> QED  BY <1>4, <2>2, <2>3
  <1>7. ASSUME nextId <= MaxId, NEW x \in Excess(Written), NEW r \in Remains(bundle[x]),
               bundle' = [Written EXCEPT ![x] = r]
        PROVE  /\ bundle' \in [Ids -> Bundle]
               /\ NewestOf(begun') \subseteq Existing(bundle')
               /\ \A i \in NewestOf(begun') :
                    /\ bundle'[i].raw # NoFile
                    /\ bundle'[i].meta = "ok" => fate[i] \in {"whole", "discarded"}
                    /\ bundle'[i].meta = "error" => fate[i] = "failed"
                    /\ bundle'[i].meta # "open" => bundle'[i].raw = got[i]
    <2>1. /\ nextId \in Ids /\ nextId \notin begun /\ 0 \in NoFile .. MaxChunks
          /\ \A i \in begun : i < nextId
      BY <1>1, <1>7, ExchangeAssumption DEF TypeOK, Ids, StoreInv, NoFile
    <2>2. /\ Written \in [Ids -> Bundle]
          /\ Written[nextId].raw = 0 /\ Written[nextId].meta = "open"
          /\ \A i \in Ids : i # nextId => Written[i] = bundle[i]
      BY <1>1, <2>1 DEF Written, Bundle
    <2> DEFINE B == begun \cup {nextId}
    <2>3. Existing(Written) = Existing(bundle) \cup {nextId}
      BY <2>1, <2>2 DEF Existing
    <2>4. B \in SUBSET Ids /\ NewestOf(B) \subseteq NewestOf(begun) \cup {nextId}
      BY <1>1, <2>1, NewestAfterWrite
    <2>5. NewestOf(B) \subseteq Existing(Written) /\ Existing(Written) \subseteq B
      BY <2>3, <2>4 DEF StoreInv
    <2>6. \A i \in NewestOf(B) : i \notin Excess(Written)
      <3> HIDE DEF B
      <3> QED  BY <2>2, <2>4, <2>5, PrunedKeeps
    <2>7. nextId \in NewestOf(B)
      <3>1. From(B, nextId) = {nextId}
        <4>1. nextId >= nextId /\ \A i \in begun : ~(i >= nextId)
          BY <1>1, <2>1, IdsFinite
        <4> QED  BY <4>1 DEF From
      <3>2. Cardinality({nextId}) = 1
        BY FS_Singleton
      <3> QED  BY <3>1, <3>2, ExchangeAssumption DEF NewestOf
    <2>8. x \in Existing(bundle) /\ x \in Ids /\ x # nextId
      BY <2>3, <2>6, <2>7 DEF Excess, Existing
    <2>9. r \in Bundle /\ r.meta \in {bundle[x].meta, "none"}
      <3>1. /\ bundle[x].raw \in NoFile .. MaxChunks /\ bundle[x].text \in BOOLEAN
            /\ bundle[x].meta \in {"none", "open", "ok", "error"}
            /\ NoFile \in NoFile .. MaxChunks
        BY <1>1, <2>8, ExchangeAssumption DEF NoFile, Bundle
      <3>2. PICK raw \in {bundle[x].raw, NoFile}, text \in {bundle[x].text, FALSE},
                 meta \in {bundle[x].meta, "none"} :
              r = [raw |-> raw, text |-> text, meta |-> meta]
        BY <1>7 DEF Remains
      <3>3. raw \in NoFile .. MaxChunks /\ meta \in {"none", "open", "ok", "error"}
        BY <3>1, <3>2
      <3>4. text \in BOOLEAN
        BY <3>1, <3>2
      <3> QED  BY <3>2, <3>3, <3>4 DEF Bundle
    <2>10. /\ bundle' \in [Ids -> Bundle]
           /\ \A i \in Ids : i # x => bundle'[i] = Written[i]
           /\ bundle'[x] = r
      BY <1>7, <2>2, <2>8, <2>9
    <2>11. nextId \in Existing(bundle') /\ Existing(bundle') \subseteq B
      BY <2>1, <2>2, <2>5, <2>8, <2>9, <2>10 DEF Existing
    <2>12. begun' = B
      BY <1>1, <2>11
    <2>13. \A i \in NewestOf(B) :
              /\ i \in Ids /\ bundle'[i] = Written[i]
              /\ i = nextId \/ (i # nextId /\ i \in NewestOf(begun) /\ Written[i] = bundle[i])
      BY <2>2, <2>4, <2>6, <2>10 DEF NewestOf
    <2> HIDE DEF B
    <2>14. NewestOf(B) \subseteq Existing(bundle')
      BY <2>2, <2>5, <2>13 DEF Existing
    <2>15. \A i \in NewestOf(B) :
              /\ bundle'[i].raw # NoFile
              /\ bundle'[i].meta = "ok" => fate[i] \in {"whole", "discarded"}
              /\ bundle'[i].meta = "error" => fate[i] = "failed"
              /\ bundle'[i].meta # "open" => bundle'[i].raw = got[i]
      BY <2>2, <2>13 DEF EvidenceInv, NoFile
    <2> QED  BY <2>10, <2>12, <2>14, <2>15
  <1>8. \/ bundle' = bundle
        \/ nextId <= MaxId /\ bundle' = [bundle EXCEPT ![nextId].raw = 0]
        \/ nextId <= MaxId /\ \E x \in Excess(Written) : \E r \in Remains(bundle[x]) :
              bundle' = [Written EXCEPT ![x] = r]
    <2>1. nextId \in Int /\ MaxId \in Int
      BY ExchangeAssumption DEF TypeOK
    <2>2. bundle' \in {bundle} \cup CutShort
      BY DEF Crash
    <2>3. CASE nextId <= MaxId
      BY <2>2, <2>3, <2>1 DEF CutShort
    <2>4. CASE ~(nextId <= MaxId)
      BY <2>2, <2>4, <2>1 DEF CutShort
    <2> QED  BY <2>3, <2>4
  <1> QED  BY <1>5, <1>6, <1>7, <1>8

LEMMA CrashInv == ASSUME IInv, Crash PROVE IInv'
  <1> USE DEF IInv
  <1>1. /\ bundle' \in [Ids -> Bundle] /\ begun' \subseteq Ids
        /\ StoreInv' /\ EvidenceInv'
    BY CrashStore
  <1>2. /\ Free.stage = "free" /\ Free.id \in 0 .. MaxId /\ Free.head = NoHead
        /\ Free.left \in 0 .. MaxChunks
    BY IdsFinite, ExchangeAssumption DEF Free
  <1>3. TypeOK'
    <2>1. attempt' \in [Attempts ->
            [stage : {"free", "sent", "reading", "returned", "streaming"},
             id : 0 .. MaxId, head : Heads \cup {NoHead}, left : 0 .. MaxChunks]]
      BY <1>2 DEF Crash, Free
    <2>2. up' \in BOOLEAN /\ resetLate' \in BOOLEAN
      BY Zenon DEF Crash
    <2>3. /\ crashes' \in 0 .. MaxCrashes /\ active' \in Int /\ conns' \subseteq Ids
          /\ lost' \in [Ids -> {"no", "finish", "setup", "orphan"}]
      BY ExchangeAssumption DEF Crash, TypeOK
    <2> QED  BY <1>1, <2>1, <2>2, <2>3 DEF Crash, TypeOK
  <1>4. InFlight' = {} /\ Unaccounted' = {} /\ Underway' = {}
    BY <1>2 DEF Crash, InFlight, Unaccounted, Underway
  <1>5. FlightInv'
    BY <1>4 DEF FlightInv
  <1>6. FreshInv'
    BY DEF FreshInv, Crash
  <1>7. GaugeBalanced'
    BY <1>4, FS_EmptySet DEF GaugeBalanced, Crash
  <1>8. ConnectionsReturned'
    BY <1>4 DEF ConnectionsReturned, Crash, Unaccounted
  <1> QED  BY <1>1, <1>3, <1>5, <1>6, <1>7, <1>8

LEMMA RestartInv == ASSUME IInv, Restart PROVE IInv'
  <1> USE DEF IInv
  <1>1. /\ bundle \in [Ids -> Bundle] /\ begun \in SUBSET Ids /\ begun' = begun
        /\ bundle' = Pruned(bundle)
        /\ index' = {i \in Existing(bundle') : bundle'[i].meta # "open"}
        /\ got' = got /\ fate' = fate /\ lost' = lost /\ attempt' = attempt
    BY DEF Restart, TypeOK, history
  <1>2. /\ bundle' \in [Ids -> Bundle]
        /\ Existing(bundle') = NewestOf(begun)
        /\ \A i \in NewestOf(begun) : bundle'[i] = bundle[i]
    BY <1>1, PrunedKeeps DEF StoreInv
  <1>3. NewestOf(begun)' = NewestOf(begun) /\ Existing(bundle)' = Existing(bundle')
    BY <1>1 DEF NewestOf, From, Existing
  <1>4. /\ nextId' \in 1 .. MaxId + 1
        /\ \A i \in Existing(bundle) : i < nextId'
    BY NextFreeBeyond DEF Restart
  <1>5. \A i \in begun : i < nextId'
    <2> SUFFICES ASSUME NEW i \in begun PROVE i < nextId'
      OBVIOUS
    <2>1. CASE i \in NewestOf(begun)
      BY <1>4, <2>1 DEF StoreInv
    <2>2. CASE i \notin NewestOf(begun)
      <3>1. Cardinality(From(begun, i)) \in Nat /\ Retention \in Nat
        BY <1>1, FromFinite, ExchangeAssumption
      <3>2. Cardinality(From(begun, i)) > Retention
        BY <2>2, <3>1 DEF NewestOf
      <3>3. PICK m \in begun :
               /\ m >= i
               /\ Cardinality(From(begun, m) \ {m}) >= Retention
               /\ \A j \in From(begun, m) \ {m} : Cardinality(From(begun, j)) <= Retention
        BY <1>1, <3>2, NewestBeyond
      <3>4. From(begun, m) \ {m} # {}
        <4>1. Cardinality({}) = 0
          BY FS_EmptySet
        <4> QED  BY <3>3, <4>1, ExchangeAssumption
      <3>5. PICK j \in From(begun, m) \ {m} : TRUE
        BY <3>4
      <3>6. j \in NewestOf(begun) /\ j >= m
        BY <3>3, <3>5 DEF NewestOf, From
      <3>7. j < nextId'
        BY <1>4, <3>6 DEF StoreInv
      <3>8. i \in Nat /\ m \in Nat /\ j \in Nat /\ nextId' \in Int
        BY <1>1, <1>4, <3>5, IdsFinite DEF From
      <3> QED  BY <3>3, <3>6, <3>7, <3>8
    <2> QED  BY <2>1, <2>2
  <1>6. TypeOK'
    <2>1. up' \in BOOLEAN /\ index' \subseteq Ids
      BY <1>1 DEF Restart, Existing
    <2> QED  BY <1>2, <1>4, <2>1 DEF Restart, TypeOK, history
  <1>7. InFlight' = {} /\ InFlight = {} /\ Unaccounted' = Unaccounted /\ Underway' = Underway
    BY <1>1 DEF Restart, InFlight, Unaccounted, Underway, FlightInv
  <1>8. FlightInv' /\ FreshInv'
    BY <1>1, <1>7 DEF FlightInv, FreshInv
  <1>9. StoreInv'
    BY <1>1, <1>2, <1>3, <1>5 DEF StoreInv
  <1>10. EvidenceInv'
    BY <1>1, <1>2, <1>3 DEF EvidenceInv
  <1>11. GaugeBalanced' /\ ConnectionsReturned'
    BY <1>1, <1>7 DEF GaugeBalanced, ConnectionsReturned, Restart, history
  <1> QED  BY <1>6, <1>8, <1>9, <1>10, <1>11

\* IInv is inductive.
LEMMA NextInv == ASSUME IInv, [Next]_vars PROVE IInv'
  <1>1. ASSUME NEW a \in Attempts,
               \/ Begin(a) \/ BeginFails(a) \/ FailToSend(a)
               \/ \E h \in Heads :
                    FailToStream(a, h) \/ \E n \in 0 .. MaxChunks : ReceiveHead(a, h, n)
               \/ Receive(a)
               \/ AnswerBuffered(a) \/ FailBuffered(a)
               \/ StartStream(a) \/ EndStream(a) \/ Discard(a) \/ Orphan(a)
        PROVE  IInv'
    BY <1>1, BeginInv, BeginFailsInv, FailToSendInv, FailToStreamInv, ReceiveHeadInv,
       ReceiveInv, AnswerBufferedInv, FailBufferedInv, StartStreamInv, EndStreamInv,
       DiscardInv, OrphanInv
  <1>2. CASE Reset
    BY <1>2, ResetInv
  <1>3. CASE Crash
    BY <1>3, CrashInv
  <1>4. CASE Restart
    BY <1>4, RestartInv
  <1>5. CASE UNCHANGED vars
    BY <1>5 DEF vars, store, history, IInv, TypeOK, FlightInv, FreshInv, StoreInv,
       EvidenceInv, NewestOf, From, Existing, GaugeBalanced, ConnectionsReturned,
       Underway, InFlight, Unaccounted
  <1> QED  BY <1>1, <1>2, <1>3, <1>4, <1>5 DEF Next

\* IInv holds in every reachable state.
THEOREM Invariance == Spec => []IInv
  <1> QED  BY InitInv, NextInv, PTL DEF Spec

---------------------------------------------------------------------------

\* Every variable of the exchange has its type.
THEOREM TypeCorrect == Spec => []TypeOK
  <1>1. IInv => TypeOK
    BY DEF IInv
  <1> QED  BY <1>1, Invariance, PTL

\* Whatever attempts overlap, fail, raise, are cancelled or abandoned, the gauge
\* is what is under way plus what ended unaccounted for (metrics.py
\* record_request, record_response).
THEOREM Balanced == Spec => []GaugeBalanced
  <1>1. IInv => GaugeBalanced
    BY DEF IInv
  <1> QED  BY <1>1, Invariance, PTL

\* A connection stays open behind an attempt that is over only in the two known
\* cases (request.py execute, streaming.py handle_streaming_response).
THEOREM Returned == Spec => []ConnectionsReturned
  <1>1. IInv => ConnectionsReturned
    BY DEF IInv
  <1> QED  BY <1>1, Invariance, PTL

\* The newest attempts are on disk whatever the retention, the failed begins, the
\* crashes and the restarts (gateway_logs.py _prune_locked, _discover_next_id).
THEOREM Retained == Spec => []RetentionKept
  <1>1. Newest = NewestOf(begun)
    BY DEF Newest, NewestOf, From
  <1>2. IInv => RetentionKept
    BY <1>1 DEF IInv, StoreInv, RetentionKept, Existing
  <1> QED  BY <1>2, Invariance, PTL

\* A finished bundle says what happened to its attempt (gateway_logs.py finish,
\* write_response_chunk, _entry_finished).
THEOREM Evident == Spec => []EvidenceTrue
  <1>1. ASSUME IInv, up, NEW i \in Existing(bundle)
        PROVE  /\ bundle[i].meta = "ok" => fate[i] \in {"whole", "discarded"}
               /\ bundle[i].meta = "error" => fate[i] = "failed"
               /\ bundle[i].meta # "open" => bundle[i].raw = got[i] /\ i \in index
    <2>1. CASE i \in NewestOf(begun)
      BY <1>1, <2>1 DEF IInv, EvidenceInv
    <2>2. CASE i \notin NewestOf(begun)
      BY <1>1, <2>2 DEF IInv, StoreInv
    <2> QED  BY <2>1, <2>2
  <1>2. IInv => EvidenceTrue
    BY <1>1 DEF EvidenceTrue
  <1> QED  BY <1>2, Invariance, PTL
=============================================================================
