--------------------------- MODULE AdmissionProofs ---------------------------
(***************************************************************************)
(* What an accepted configuration and the decision on a call guarantee, for *)
(* every set of configurations and calls, and what is sent for the call.    *)
(***************************************************************************)
EXTENDS Admission, SubstitutionProofs

\* The process runs with a draft that passed the validation.
Accepted == conf # Unset => conf \in Drafts /\ Valid(conf)

\* The verdict is the decision on the call, or its failed preparation.
Decided ==
    verdict # Unset =>
        /\ call \in Calls
        /\ conf # Unset
        /\ \/ verdict = Decision(conf, call)
           \/ verdict = Answer("500") /\ Decision(conf, call).status = "queued"

\* The inductive invariant.
IInv == Accepted /\ Decided

---------------------------------------------------------------------------

LEMMA InitInv == Init => IInv
  BY DEF Init, IInv, Accepted, Decided

\* A configuration is only ever set by a start, a verdict by an arrival or a
\* failed preparation.
LEMMA NextInv == ASSUME IInv, [Next]_vars PROVE IInv'
  <1> USE DEF IInv, Accepted, Decided
  <1>1. ASSUME NEW d \in Drafts, Start(d) PROVE IInv'
    <2>1. conf' \in Drafts /\ Valid(conf')
      BY <1>1 DEF Start
    <2>2. Accepted'
      BY <2>1, Zenon
    <2>3. Decided'
      BY <1>1 DEF Start
    <2> QED  BY <2>2, <2>3
  <1>2. ASSUME NEW q \in Calls, Arrive(q) PROVE IInv'
    BY <1>2, Zenon DEF Arrive
  <1>3. CASE Send
    BY <1>3, Zenon DEF Send
  <1>4. CASE FailToPrepare
    BY <1>4, Zenon DEF FailToPrepare
  <1>5. CASE UNCHANGED vars
    BY <1>5, Zenon DEF vars
  <1> QED  BY <1>1, <1>2, <1>3, <1>4, <1>5 DEF Next

\* What runs was validated, and a verdict is the decision on its call.
THEOREM InvHolds == Spec => []IInv
  <1> QED  BY InitInv, NextInv, PTL DEF Spec

---------------------------------------------------------------------------
(* Routes.                                                                 *)

\* An accepted configuration routes a name and an alias to their API.
LEMMA ValidRoutes ==
    ASSUME NEW c, Valid(c), NEW api \in Apis(c),
           NEW segment \in {api} \cup c.apis[api].aliases
    PROVE  Route(c, segment) = {api}
  <1>1. ASSUME NEW other \in Apis(c) \ {api}, segment \in c.apis[api].aliases
        PROVE  segment # other /\ segment \notin c.apis[other].aliases
    BY <1>1 DEF Valid, AliasError
  <1>2. CASE segment \in Apis(c)
    <2>1. segment = api
      BY <1>1, <1>2
    <2> QED  BY <2>1, <1>2 DEF Route
  <1>3. CASE segment \notin Apis(c)
    <2>1. segment \in c.apis[api].aliases
      BY <1>3
    <2> QED  BY <1>1, <1>3, <2>1 DEF Route
  <1> QED  BY <1>2, <1>3

\* claimed_routes and the order parse_request looks in leave one API for a name
\* and for every alias.
THEOREM Routes == Spec => []RoutesUnambiguous
  <1>1. IInv => RoutesUnambiguous
    BY ValidRoutes DEF IInv, Accepted, RoutesUnambiguous
  <1> QED  BY <1>1, InvHolds, PTL

---------------------------------------------------------------------------
(* Weights.                                                                *)

\* A configuration that passed has a weight of its own for every key.
LEMMA ValidWeights ==
    ASSUME NEW c \in Drafts, Valid(c), NEW api \in Apis(c),
           Setting(c, api, "load_balancing_strategy") = "weighted"
    PROVE  /\ EffectiveWeights(c, api) = c.apis[api].key_weights
           /\ \E i \in DOMAIN KeysOf(c, api) : EffectiveWeights(c, api)[i] > 0
  <1> DEFINE keys    == KeysOf(c, api)
             weights == c.apis[api].key_weights
  <1>1. Setting(c, api, "key_variable") \in DOMAIN c.apis[api].variables
    BY DEF Valid, KeyError
  <1>2. keys \in Seq(ToSet(keys)) /\ weights \in Seq(Nat)
    BY <1>1, SchemaAssumption DEF KeysOf
  <1>3. Len(weights) = Len(keys) /\ \E i \in DOMAIN weights : weights[i] # 0
    BY <1>1 DEF Valid, WeightError
  <1> HIDE DEF keys, weights
  <1>4. DOMAIN weights = DOMAIN keys /\ \A i \in DOMAIN weights : weights[i] \in Nat
    BY <1>2, <1>3
  <1>5. EffectiveWeights(c, api) = [i \in DOMAIN keys |-> weights[i]]
    BY <1>4 DEF EffectiveWeights, keys, weights
  <1>6. weights = [i \in DOMAIN weights |-> weights[i]]
    BY <1>2
  <1>7. EffectiveWeights(c, api) = weights
    BY <1>4, <1>5, <1>6
  <1>8. \E i \in DOMAIN keys : weights[i] > 0
    BY <1>3, <1>4
  <1> QED  BY <1>7, <1>8 DEF keys, weights

\* set_weights neither cuts nor fills up what the validation let through.
THEOREM Weights == Spec => []WeightsHonoured
  <1>1. IInv => WeightsHonoured
    BY ValidWeights DEF IInv, Accepted, WeightsHonoured
  <1> QED  BY <1>1, InvHolds, PTL

---------------------------------------------------------------------------
(* Credentials.                                                            *)

\* A status other than a refusal was decided on an admitted call.
LEMMA StatusAdmitted ==
    ASSUME IInv, verdict # Unset, verdict.status \notin {"401", "403"}
    PROVE  call \in Calls /\ conf \in Drafts /\ Admitted(conf, call)
  <1>1. Decision(conf, call).status \notin {"401", "403"}
    BY DEF IInv, Decided
  <1>2. ASSUME ~Admitted(conf, call)
        PROVE  Decision(conf, call).status \in {"401", "403"}
    BY <1>2 DEF Decision, Answer
  <1> QED  BY <1>1, <1>2 DEF IInv, Decided, Accepted

\* A text that is a usable key, or the master key, is an entry's.
LEMMA KeyEntries ==
    ASSUME NEW c \in Drafts
    PROVE  /\ \A x \in UsableKeys(c) :
                \E i \in DOMAIN c.keys : ~Blank(c.keys[i]) /\ x = c.keys[i].text
           /\ \A x \in MasterKeys(c) :
                1 \in DOMAIN c.keys /\ ~Blank(c.keys[1]) /\ x = c.keys[1].text
  <1>1. c.keys \in Seq(ToSet(c.keys))
    BY SchemaAssumption
  <1>2. c.keys # <<>> => 1 \in DOMAIN c.keys
    BY <1>1
  <1> QED  BY <1>2 DEF UsableKeys, MasterKeys

\* Public paths and paths that end in a public asset apart, the middleware lets
\* only holders of a key through, and to an admin page only holders of the first
\* entry (auth.py dispatch).
THEOREM Keyholders == Spec => []OnlyKeyholders
  <1>1. ASSUME IInv, verdict # Unset, verdict.status \notin {"401", "403"}
        PROVE  \/ call.preflight \/ call.path \in PublicPaths \/ EndsInAsset(call)
               \/ AuthDisabled(conf)
               \/ \E i \in DOMAIN conf.keys :
                    /\ ~Blank(conf.keys[i])
                    /\ \/ i = 1 /\ call.cookie # Unset /\ call.cookie.text = conf.keys[i].text
                       \/ /\ call.auth # Unset /\ call.auth.whole.text = conf.keys[i].text
                          /\ AdminSurface(call) => i = 1
    <2>1. conf \in Drafts /\ Admitted(conf, call)
      BY <1>1, StatusAdmitted
    <2>2. CASE Verified(conf, call.cookie, MasterKeys(conf))
      BY <2>1, <2>2, KeyEntries DEF Verified
    <2>3. CASE /\ AdminSurface(call) /\ call.auth # Unset
               /\ Verified(conf, call.auth.whole, MasterKeys(conf))
      BY <2>1, <2>3, KeyEntries DEF Verified
    <2>4. CASE /\ ~AdminSurface(call) /\ call.auth # Unset
               /\ Verified(conf, call.auth.whole, UsableKeys(conf))
      BY <2>1, <2>4, KeyEntries DEF Verified
    <2> QED  BY <2>1, <2>2, <2>3, <2>4 DEF Admitted
  <1>2. IInv => OnlyKeyholders
    BY <1>1 DEF OnlyKeyholders
  <1> QED  BY <1>2, InvHolds, PTL

\* A queued call's priority is the one that was set on its arrival.
LEMMA QueuedPriority ==
    ASSUME IInv, verdict # Unset, verdict.status = "queued"
    PROVE  conf \in Drafts /\ call \in Calls /\ verdict.priority = Priority(conf, call)
  <1>1. verdict = Decision(conf, call)
    BY DEF IInv, Decided, Answer
  <1>2. verdict.priority = Priority(conf, call)
    BY <1>1 DEF Decision, Answer
  <1> QED  BY <1>2 DEF IInv, Accepted, Decided

\* Priority in the queue takes the key that opens the admin pages (handler.py
\* set_request_priority).
THEOREM MasterPriority == Spec => []PriorityIsMaster
  <1>1. ASSUME IInv, verdict # Unset, verdict.status = "queued", verdict.priority = 2
        PROVE  call.auth # Unset /\ call.auth.tail.text \in MasterKeys(conf)
    <2>1. call \in Calls /\ Priority(conf, call) = 2
      BY <1>1, QueuedPriority
    <2>2. call.auth # Unset /\ conf.keys # <<>> /\ conf.keys[1] = call.auth.tail
      BY <2>1 DEF Priority
    <2>3. call.auth.tail.text # ""
      BY <2>1, <2>2, SchemaAssumption
    <2> QED  BY <2>2, <2>3 DEF MasterKeys, Blank
  <1>2. IInv => PriorityIsMaster
    BY <1>1 DEF PriorityIsMaster
  <1> QED  BY <1>2, InvHolds, PTL

---------------------------------------------------------------------------
(* The decision.                                                           *)

\* The statuses of a call that has no place in a queue.
Refusals == {"401", "403", "404", "405", "500", "page", "prohibited"}

\* A decision queues a call under an API that its path leads to, or answers it.
LEMMA DecisionCases ==
    ASSUME NEW c, NEW q
    PROVE  \/ Decision(c, q).status \in Refusals
           \/ /\ Decision(c, q).status = "queued"
              /\ Decision(c, q).api \in Apis(c)
              /\ Decision(c, q).priority \in {2, 3}
              /\ Decision(c, q).client = ClientAddress(c, q)
              /\ Decision(c, q).limited \in BOOLEAN
  <1> DEFINE api     == CHOOSE a \in Route(c, q.path[2]) : TRUE
             queued  == [status |-> "queued", api |-> api, priority |-> Priority(c, q),
                         client |-> ClientAddress(c, q),
                         limited |-> RateLimited(c, api, q.trail)]
  <1>1. Route(c, q.path[2]) # {} => api \in Apis(c)
    BY DEF Route
  <1>2. Priority(c, q) \in {2, 3}
    BY DEF Priority
  <1>3. RateLimited(c, api, q.trail) \in BOOLEAN
    BY DEF RateLimited
  <1>4. \/ Decision(c, q) \in {Answer(s) : s \in Refusals}
        \/ Route(c, q.path[2]) # {} /\ Decision(c, q) = queued
    BY DEF Decision, Refusals
  <1>5. CASE Decision(c, q) \in {Answer(s) : s \in Refusals}
    BY <1>5 DEF Answer
  <1>6. CASE Route(c, q.path[2]) # {} /\ Decision(c, q) = queued
    BY <1>1, <1>2, <1>3, <1>6
  <1> QED  BY <1>4, <1>5, <1>6

\* A queued call was decided on under an accepted configuration.
LEMMA QueuedDecision ==
    ASSUME IInv, verdict # Unset, verdict.status = "queued"
    PROVE  /\ call \in Calls /\ conf \in Drafts /\ Valid(conf)
           /\ verdict.api \in Apis(conf)
           /\ verdict.client = ClientAddress(conf, call)
  <1>1. call \in Calls /\ conf # Unset /\ verdict = Decision(conf, call)
    BY DEF IInv, Decided, Answer
  <1> QED  BY <1>1, DecisionCases DEF IInv, Accepted, Refusals

\* The address a trusted peer's headers give is the first well-formed one.
LEMMA FirstWellFormed ==
    ASSUME NEW c, NEW q \in Calls
    PROVE  LET client == ClientAddress(c, q)
           IN  /\ client # "malformed"
               /\ client # q.peer => q.peer \in c.trusted /\ client \in ToSet(q.forwarded)
               /\ q.peer \in c.trusted =>
                    \A i \in DOMAIN q.forwarded :
                       \/ q.forwarded[i] = "malformed"
                       \/ \E j \in 1 .. i : client = q.forwarded[j]
  <1>1. q.peer # "malformed" /\ q.forwarded \in Seq(ToSet(q.forwarded))
    BY SchemaAssumption
  <1>2. DOMAIN q.forwarded = 1 .. Len(q.forwarded) /\ Len(q.forwarded) \in Nat
    BY <1>1
  <1>3. CASE q.peer \in c.trusted /\ WellFormed(q) # {}
    <2> DEFINE least == CHOOSE i \in WellFormed(q) : \A j \in WellFormed(q) : i <= j
    <2>1. WellFormed(q) \subseteq Nat
      BY <1>2 DEF WellFormed
    <2>2. \E i \in WellFormed(q) : \A j \in WellFormed(q) : i <= j
      BY <1>3, <2>1, LeastMember
    <2>3. least \in WellFormed(q) /\ \A j \in WellFormed(q) : least <= j
      BY <2>2
    <2>4. ClientAddress(c, q) = q.forwarded[least]
      BY <1>3 DEF ClientAddress
    <2> HIDE DEF least
    <2>5. least \in DOMAIN q.forwarded /\ q.forwarded[least] # "malformed"
      BY <2>3 DEF WellFormed
    <2>6. q.forwarded[least] \in ToSet(q.forwarded)
      BY <2>5 DEF ToSet
    <2>7. ASSUME NEW i \in DOMAIN q.forwarded, q.forwarded[i] # "malformed"
          PROVE  least \in 1 .. i
      BY <1>2, <2>3, <2>5, <2>7 DEF WellFormed
    <2> QED  BY <1>3, <2>4, <2>5, <2>6, <2>7
  <1>4. CASE ~(q.peer \in c.trusted /\ WellFormed(q) # {})
    BY <1>1, <1>4 DEF ClientAddress, WellFormed
  <1> QED  BY <1>3, <1>4

\* The address quotas are charged to is the peer's own, or the first
\* well-formed one a trusted peer sent.
THEOREM BelievableClient == Spec => []ClientBelievable
  <1>1. IInv => ClientBelievable
    BY QueuedDecision, FirstWellFormed DEF ClientBelievable
  <1> QED  BY <1>1, InvHolds, PTL

---------------------------------------------------------------------------
(* The upstream requests.                                                  *)

\* A process decides on one call, and what it sends follows from that decision
\* alone: only a queued call whose body can be prepared is sent.
Underway ==
    /\ conf = Unset => call = Unset
    /\ call \in Calls \cup {Unset}
    /\ call = Unset => verdict = Unset
    /\ sent \in Seq(ToSet(sent)) /\ Len(sent) <= MaxTries
    /\ sent # <<>> =>
         /\ verdict # Unset /\ verdict.status = "queued"
         /\ ~Unreadable(conf, verdict.api, call)

\* An attempt uses a key of its API.
OwnKeys == \A i \in DOMAIN sent : sent[i].key \in ToSet(KeysOf(conf, verdict.api))

\* The inductive invariant of the attempts.
SInv == IInv /\ Underway /\ OwnKeys /\ CredentialsKeptApart

\* One more upstream request.
LEMMA Appended ==
    ASSUME NEW S, NEW s \in Seq(S), NEW e
    PROVE  /\ Append(s, e) \in Seq(ToSet(Append(s, e)))
           /\ Len(Append(s, e)) = Len(s) + 1
           /\ \A i \in DOMAIN Append(s, e) :
                \/ Append(s, e)[i] = e
                \/ i \in DOMAIN s /\ Append(s, e)[i] = s[i]
  <1>1. s \in Seq(S \cup {e}) /\ e \in S \cup {e}
    OBVIOUS
  <1>2. Append(s, e) \in Seq(S \cup {e})
    BY <1>1
  <1> DEFINE t == Append(s, e)
  <1>3. /\ Len(t) = Len(s) + 1
        /\ \A i \in DOMAIN t : t[i] = e \/ (i \in DOMAIN s /\ t[i] = s[i])
    BY <1>1
  <1> HIDE DEF t
  <1>4. \A i \in 1 .. Len(t) : t[i] \in ToSet(t)
    BY <1>2 DEF ToSet, t
  <1>5. t \in Seq(ToSet(t))
    BY <1>2, <1>4 DEF t
  <1> QED  BY <1>3, <1>5 DEF t

\* What CredentialsKeptApart says of one attempt.
Apart(c, api, key, headers) ==
    LET own == c.apis[api]
    IN  /\ \A h \in Excluded \cup {"authorization"} :
             h \in DOMAIN headers => headers[h].from # "client"
        /\ \A h \in DOMAIN own.headers \ (HopByHop \cup own.nominated) :
             /\ h \in DOMAIN headers
             /\ \A v \in DOMAIN headers[h].filled :
                  /\ headers[h].filled[v] \in ToSet(own.variables[v])
                  /\ v = Setting(c, api, "key_variable") => headers[h].filled[v] = key

\* What becomes of the headers of one attempt, whatever headers there were.
LEMMA HeadersApart ==
    ASSUME NEW c, NEW api \in Apis(c), Valid(c), NEW q,
           NEW key \in ToSet(KeysOf(c, api)), NEW values \in Values(c, api, key), NEW names,
           NEW configured, configured = Configured(c, api, names, values),
           NEW headers, headers = Prepared(configured, Nominated(c, api, q, configured))
    PROVE  Apart(c, api, key, headers)
  <1> DEFINE own       == c.apis[api]
             kv        == Setting(c, api, "key_variable")
             nominated == Nominated(c, api, q, configured)
  <1>1. /\ DOMAIN configured = Stripped(names) \cup DOMAIN own.headers
        /\ \A h \in DOMAIN own.headers :
             /\ configured[h].from = "config"
             /\ DOMAIN configured[h].filled = own.headers[h]
             /\ \A v \in own.headers[h] : configured[h].filled[v] = values[v]
    <2>1. \A h \in DOMAIN own.headers :
             configured[h] = [from   |-> "config",
                              filled |-> [v \in own.headers[h] |-> values[v]]]
      BY DEF Configured
    <2>2. \A h \in DOMAIN own.headers :
             /\ configured[h].from = "config"
             /\ DOMAIN configured[h].filled = own.headers[h]
             /\ \A v \in own.headers[h] : configured[h].filled[v] = values[v]
      <3> TAKE h \in DOMAIN own.headers
      <3> DEFINE filled == [v \in own.headers[h] |-> values[v]]
      <3>1. configured[h] = [from |-> "config", filled |-> filled]
        BY <2>1
      <3>2. DOMAIN filled = own.headers[h] /\ \A v \in own.headers[h] : filled[v] = values[v]
        OBVIOUS
      <3> HIDE DEF filled
      <3> QED  BY <3>1, <3>2
    <2>3. DOMAIN configured = Stripped(names) \cup DOMAIN own.headers
      BY DEF Configured
    <2> QED  BY <2>2, <2>3
  <1>2. /\ DOMAIN headers = DOMAIN configured \ (HopByHop \cup nominated)
        /\ \A h \in DOMAIN headers : headers[h] = configured[h]
    BY DEF Prepared
  <1>3. \A h \in Excluded \cup {"authorization"} : h \notin Stripped(names)
    BY DEF Stripped
  <1>4. "connection" \in Excluded
    BY DEF Excluded, HopByHop
  <1> HIDE DEF nominated
  <1>5. nominated \subseteq own.nominated
    <2>1. CASE "connection" \notin DOMAIN configured
      BY <2>1 DEF nominated, Nominated
    <2>2. CASE "connection" \in DOMAIN configured
      <3>1. "connection" \in DOMAIN own.headers
        BY <1>1, <1>3, <1>4, <2>2
      <3>2. configured["connection"].from = "config"
        BY <1>1, <3>1
      <3> QED  BY <2>2, <3>2 DEF nominated, Nominated
    <2> QED  BY <2>1, <2>2
  <1>6. ASSUME NEW h \in Excluded \cup {"authorization"}, h \in DOMAIN headers
        PROVE  headers[h].from # "client"
    <2>1. h \in DOMAIN own.headers /\ headers[h] = configured[h]
      BY <1>1, <1>2, <1>3, <1>6
    <2>2. configured[h].from = "config"
      BY <1>1, <2>1
    <2> QED  BY <2>1, <2>2
  <1>7. kv \in DOMAIN own.variables /\ KeysOf(c, api) = own.variables[kv]
    BY DEF Valid, KeyError, KeysOf
  <1>8. \A v \in DOMAIN own.variables :
           values[v] \in ToSet(own.variables[v]) /\ (v = kv => values[v] = key)
    BY <1>7 DEF Values
  <1>9. ASSUME NEW h \in DOMAIN own.headers \ (HopByHop \cup own.nominated)
        PROVE  /\ h \in DOMAIN headers
               /\ \A v \in DOMAIN headers[h].filled :
                    /\ headers[h].filled[v] \in ToSet(own.variables[v])
                    /\ v = kv => headers[h].filled[v] = key
    <2>1. h \in DOMAIN headers
      BY <1>1, <1>2, <1>5
    <2>2. own.headers[h] \subseteq DOMAIN own.variables
      BY DEF Valid, TemplateError
    <2>3. headers[h] = configured[h]
      BY <1>2, <2>1
    <2>4. /\ DOMAIN headers[h].filled = own.headers[h]
          /\ \A v \in own.headers[h] : headers[h].filled[v] = values[v]
      BY <1>1, <2>3
    <2> QED  BY <1>8, <2>1, <2>2, <2>4
  <1> QED  BY <1>6, <1>9 DEF Apart

LEMMA InitSent == Init => SInv
  BY InitInv, MaxTriesAssumption
  DEF Init, SInv, Underway, OwnKeys, CredentialsKeptApart

\* A send adds one request, with a key and headers of its own.
LEMMA SendSent == ASSUME SInv, Send PROVE Underway' /\ OwnKeys' /\ CredentialsKeptApart'
  <1>1. /\ verdict # Unset /\ verdict.status = "queued"
        /\ ~Unreadable(conf, verdict.api, call)
        /\ Len(sent) < MaxTries
        /\ UNCHANGED <<conf, call, verdict>>
    BY DEF Send
  <1> DEFINE Request(key, values, names) ==
          LET headers == Configured(conf, verdict.api, names, values)
          IN  [key     |-> key,
               headers |-> Prepared(headers, Nominated(conf, verdict.api, call, headers)),
               body    |-> SentBody(conf, verdict.api, call, Content)]
  <1>2. PICK key \in ToSet(KeysOf(conf, verdict.api)) :
          \E values \in Values(conf, verdict.api, key) : \E names :
            sent' = Append(sent, Request(key, values, names))
    BY DEF Send
  <1>3. PICK values \in Values(conf, verdict.api, key) : \E names :
            sent' = Append(sent, Request(key, values, names))
    BY <1>2
  <1>4. PICK names : sent' = Append(sent, Request(key, values, names))
    BY <1>3
  <1> DEFINE configured == Configured(conf, verdict.api, names, values)
             headers    == Prepared(configured, Nominated(conf, verdict.api, call, configured))
             request    == Request(key, values, names)
  <1>5. /\ configured = Configured(conf, verdict.api, names, values)
        /\ headers = Prepared(configured, Nominated(conf, verdict.api, call, configured))
        /\ request = [key |-> key, headers |-> headers,
                      body |-> SentBody(conf, verdict.api, call, Content)]
    OBVIOUS
  <1>6. sent' = Append(sent, request)
    BY <1>4
  <1> HIDE DEF configured, headers, request
  <1>7. /\ Valid(conf) /\ verdict.api \in Apis(conf)
        /\ key \in ToSet(KeysOf(conf, verdict.api))
        /\ values \in Values(conf, verdict.api, key)
    BY <1>1, QueuedDecision DEF SInv
  <1>8. Apart(conf, verdict.api, key, headers)
    BY ONLY <1>5, <1>7, HeadersApart
  <1>9. request.key = key /\ request.headers = headers
    BY <1>5
  <1>10. /\ sent' \in Seq(ToSet(sent')) /\ Len(sent') = Len(sent) + 1
        /\ \A i \in DOMAIN sent' :
             sent'[i] = request \/ (i \in DOMAIN sent /\ sent'[i] = sent[i])
    BY <1>6, Appended DEF SInv, Underway
  <1>11. Underway'
    <2>1. Len(sent') <= MaxTries
      BY <1>1, <1>10, MaxTriesAssumption DEF SInv, Underway
    <2>2. ~Unreadable(conf', verdict'.api, call')
      BY <1>1
    <2> QED  BY <1>1, <1>10, <2>1, <2>2 DEF SInv, Underway
  <1>12. OwnKeys'
    <2> SUFFICES ASSUME NEW i \in DOMAIN sent'
                 PROVE  sent'[i].key \in ToSet(KeysOf(conf, verdict.api))
      BY <1>1 DEF OwnKeys
    <2> QED  BY <1>9, <1>10 DEF SInv, OwnKeys
  <1>13. CredentialsKeptApart'
    <2>1. \A i \in DOMAIN sent : Apart(conf, verdict.api, sent[i].key, sent[i].headers)
      BY DEF SInv, CredentialsKeptApart, Apart
    <2>2. \A i \in DOMAIN sent' : Apart(conf, verdict.api, sent'[i].key, sent'[i].headers)
      BY <1>8, <1>9, <1>10, <2>1
    <2> QED  BY <1>1, <2>2 DEF CredentialsKeptApart, Apart
  <1> QED  BY <1>11, <1>12, <1>13

\* The other steps send nothing, and but for a start they leave what was sent
\* with the decision it was sent on.
LEMMA NextSent == ASSUME SInv, [Next]_vars PROVE SInv'
  <1>1. IInv'
    BY NextInv DEF SInv
  <1>2. ASSUME NEW d \in Drafts, Start(d) PROVE Underway' /\ OwnKeys' /\ CredentialsKeptApart'
    <2>1. sent = <<>> /\ sent' = <<>> /\ call' = Unset /\ verdict' = Unset /\ conf' = d
      BY <1>2 DEF Start, SInv, Underway
    <2> QED  BY <2>1, MaxTriesAssumption DEF Underway, OwnKeys, CredentialsKeptApart
  <1>3. ASSUME NEW q \in Calls, Arrive(q) PROVE Underway' /\ OwnKeys' /\ CredentialsKeptApart'
    <2>1. conf # Unset /\ conf' = conf /\ sent = <<>> /\ sent' = <<>> /\ call' = q /\ q # Unset
      BY <1>3, UnsetAssumption DEF Arrive, SInv, Underway
    <2> QED  BY <2>1, MaxTriesAssumption DEF Underway, OwnKeys, CredentialsKeptApart
  <1>4. ASSUME Send PROVE Underway' /\ OwnKeys' /\ CredentialsKeptApart'
    BY <1>4, SendSent
  <1>5. ASSUME FailToPrepare PROVE Underway' /\ OwnKeys' /\ CredentialsKeptApart'
    <2>1. sent = <<>> /\ sent' = <<>> /\ conf' = conf /\ call' = call /\ call # Unset
      BY <1>5 DEF FailToPrepare, SInv, Underway
    <2> QED  BY <2>1, MaxTriesAssumption DEF SInv, Underway, OwnKeys, CredentialsKeptApart
  <1>6. ASSUME UNCHANGED vars PROVE Underway' /\ OwnKeys' /\ CredentialsKeptApart'
    <2>1. conf' = conf /\ call' = call /\ verdict' = verdict /\ sent' = sent
      BY <1>6 DEF vars
    <2> QED  BY <2>1 DEF SInv, Underway, OwnKeys, CredentialsKeptApart
  <1>7. Underway' /\ OwnKeys' /\ CredentialsKeptApart'
    BY <1>2, <1>3, <1>4, <1>5, <1>6 DEF Next
  <1> QED  BY <1>1, <1>7 DEF SInv

\* What has been sent was sent with one of the API's own keys, one after another.
THEOREM SentHolds == Spec => []SInv
  <1> QED  BY InitSent, NextSent, PTL DEF Spec

\* On every attempt the caller's credential and the hop-by-hop headers stay
\* behind, and every configured header has its variables' own values, of the
\* key's the one that was selected.
THEOREM CredentialsApart == Spec => []CredentialsKeptApart
  <1>1. SInv => CredentialsKeptApart
    BY DEF SInv
  <1> QED  BY <1>1, SentHolds, PTL

\* Every variable has its type, a queued call its API, an upstream request a
\* key of the variable its API's own settings name.
THEOREM TypeCorrect == Spec => []TypeOK
  <1>1. ASSUME SInv PROVE TypeOK
    <2>1. conf \in Drafts \cup {Unset} /\ call \in Calls \cup {Unset} /\ Len(sent) <= MaxTries
      BY <1>1 DEF SInv, IInv, Accepted, Underway
    <2>2. ASSUME verdict # Unset
          PROVE  \/ verdict.status \in Refusals
                 \/ /\ verdict.status = "queued"
                    /\ verdict.api \in Apis(conf)
                    /\ verdict.priority \in {2, 3} /\ verdict.limited \in BOOLEAN
      BY <1>1, <2>2, DecisionCases DEF SInv, IInv, Decided, Answer, Refusals
    <2>3. ASSUME NEW i \in DOMAIN sent,
                 "key_variable" \in DOMAIN conf.apis[verdict.api].settings
          PROVE  sent[i].key \in
                   ToSet(conf.apis[verdict.api].variables[conf.apis[verdict.api].settings["key_variable"]])
      BY <1>1, <2>3 DEF SInv, OwnKeys, KeysOf, Setting
    <2> QED  BY <2>1, <2>2, <2>3 DEF TypeOK, Refusals
  <1> QED  BY <1>1, SentHolds, PTL

---------------------------------------------------------------------------
(* The bodies.                                                             *)

\* D is the set of documents, and configured rules and arriving bodies are made
\* of them.
Bodied(D, Keys, Chars) ==
    /\ Documents(D, Keys, Chars)
    /\ "[]" \notin Keys
    /\ \A d \in Drafts : \A api \in Apis(d) :
         WellFormedRules(D, Keys, Chars, d.apis[api].rules)
    /\ \A q \in Calls : q.body \in D \cup {NotJson}

\* What was sent is a document, or not JSON.
SentBodies(D) == \A i \in DOMAIN sent : sent[i].body \in D \cup {NotJson}

\* What an attempt starts from is a document, or not JSON,
LEMMA ContentType ==
    ASSUME NEW D, NEW Keys, NEW Chars, Bodied(D, Keys, Chars), SInv, SentBodies(D),
           verdict # Unset
    PROVE  Content \in D \cup {NotJson}
  <1>1. CASE sent = <<>>
    <2>1. call \in Calls
      BY DEF SInv, Underway
    <2> QED  BY <1>1, <2>1 DEF Content, Bodied
  <1>2. CASE sent # <<>>
    <2>1. sent \in Seq(ToSet(sent))
      BY DEF SInv, Underway
    <2>2. Len(sent) \in DOMAIN sent
      BY <1>2, <2>1
    <2> QED  BY <1>2, <2>2 DEF Content, SentBodies, Last
  <1> QED  BY <1>1, <1>2

\* ... and what it sends is one.
LEMMA BodiesStep ==
    ASSUME NEW D, NEW Keys, NEW Chars, Bodied(D, Keys, Chars), SInv, SentBodies(D), [Next]_vars
    PROVE  SentBodies(D)'
  <1>1. CASE Send
    <2>1. verdict # Unset /\ verdict.status = "queued"
      BY <1>1 DEF Send
    <2>2. conf \in Drafts /\ verdict.api \in Apis(conf)
      BY <2>1, QueuedDecision DEF SInv
    <2> DEFINE body == SentBody(conf, verdict.api, call, Content)
    <2>3. body \in D \cup {NotJson}
      <3>1. Content \in D \cup {NotJson}
        BY <2>1, ContentType
      <3>2. WellFormedRules(D, Keys, Chars, conf.apis[verdict.api].rules)
        BY <2>2 DEF Bodied
      <3>3. Content \in D => Apply(Content, conf.apis[verdict.api].rules) \in D
        BY <3>2, ApplyType DEF Bodied
      <3>4. Apply(NotJson, conf.apis[verdict.api].rules) = NotJson
        BY DEF Apply, Container, NotJson
      <3> QED  BY <3>1, <3>3, <3>4 DEF SentBody
    <2> DEFINE Request(key, values, names) ==
          LET headers == Configured(conf, verdict.api, names, values)
          IN  [key     |-> key,
               headers |-> Prepared(headers, Nominated(conf, verdict.api, call, headers)),
               body    |-> body]
    <2>4. \E key \in ToSet(KeysOf(conf, verdict.api)) :
            \E values \in Values(conf, verdict.api, key) : \E names :
              sent' = Append(sent, Request(key, values, names))
      BY <1>1 DEF Send
    <2>5. PICK e : sent' = Append(sent, e) /\ e.body = body
      BY <2>4
    <2> HIDE DEF body, Request
    <2>6. \A i \in DOMAIN sent' : sent'[i] = e \/ (i \in DOMAIN sent /\ sent'[i] = sent[i])
      BY <2>5, Appended DEF SInv, Underway
    <2> QED  BY <2>3, <2>5, <2>6 DEF SentBodies
  <1>2. CASE sent' = sent
    BY <1>2 DEF SentBodies
  <1> QED  BY <1>1, <1>2 DEF Next, Start, Arrive, FailToPrepare, vars

\* A probe is a path without a projection.
LEMMA ProbePlain == \A p \in Probes : Plain(p)
  <1> DEFINE Chosen == {"a", "b", "0", "1"}
  <1>1. ASSUME NEW p \in Probes PROVE p \in Seq(Chosen)
    <2>1. CASE p = <<>>
      BY <2>1
    <2>2. CASE \E n \in 1 .. 2 : p \in [1 .. n -> Chosen]
      BY <2>2
    <2> QED  BY <2>1, <2>2 DEF Probes
  <1>2. ASSUME NEW p \in Seq(Chosen) PROVE Plain(p)
    <2>1. ToSet(p) \subseteq Chosen
      BY DEF ToSet
    <2>2. p \in Seq(ToSet(p))
      BY DEF ToSet
    <2> HIDE DEF Chosen
    <2>3. "[]" \notin Chosen
      BY DEF Chosen
    <2> QED  BY <2>1, <2>2, <2>3 DEF Plain
  <1> QED  BY <1>1, <1>2

\* What a set does to a document.
LEMMA SetIsExact ==
    ASSUME NEW D, NEW Keys, NEW Chars, Documents(D, Keys, Chars), NEW doc \in D,
           NEW path, Plain(path), NEW v
    PROVE  SetExact(doc, SetField(doc, path, v), path, v)
  <1>1. CASE path = <<>>
    <2>1. SetField(doc, path, v) = v
      BY <1>1 DEF SetField
    <2>2. Search(path, v) = v
      <3>1. Len(path) = 0
        BY <1>1
      <3>2. Nodes(path, v)[0] = v
        BY <3>1, NodesStep
      <3> QED  BY <3>1, <3>2, PlainParts DEF Follow
    <2>3. \A p \in Probes : IsPrefix(path, p)
      <3>1. \A p \in Probes : Len(p) \in Nat
        BY ProbePlain, PlainParts
      <3> QED  BY <1>1, <3>1 DEF IsPrefix
    <2>4. Passable(doc, path)
      BY <1>1 DEF Passable
    <2> QED  BY <2>1, <2>2, <2>3, <2>4 DEF SetExact, Unrelated
  <1>2. CASE path # <<>> /\ ~Passable(doc, path)
    BY <1>2 DEF SetExact, SetField
  <1>3. CASE path # <<>> /\ Passable(doc, path)
    <2>1. IndexesObject(doc, path) \/ Search(path, SetField(doc, path, v)) = v
      BY <1>3, SetRead DEF IndexesObject
    <2>2. ASSUME NEW p \in Probes, Unrelated(p, path)
          PROVE  Kept(Search(p, doc), Search(p, SetField(doc, path, v)))
      BY <1>3, <2>2, ProbePlain, SetOthers DEF Unrelated
    <2> QED  BY <1>3, <2>1, <2>2 DEF SetExact, Kept
  <1> QED  BY <1>1, <1>2, <1>3

\* What a remove does to a document.
LEMMA RemoveIsExact ==
    ASSUME NEW D, NEW Keys, NEW Chars, Documents(D, Keys, Chars), NEW doc \in D,
           NEW path, Plain(path), path # <<>>
    PROVE  RemoveExact(doc, RemoveField(doc, path), path)
  <1> DEFINE parent == Search(Front(path), doc)
             next   == Index(Last(path)) + 1
             after  == RemoveField(doc, path)
  <1>1. Search(path, after) =
           IF /\ Last(path) \in Digits /\ parent.t = "list" /\ Search(path, doc) # Null
              /\ next \in DOMAIN parent.l
           THEN parent.l[next] ELSE Null
    BY RemoveRead
  <1>2. ASSUME NEW p \in Probes, Unrelated(p, path),
               ~(Last(path) \in Digits /\ parent.t = "list" /\ IsPrefix(Front(path), p))
        PROVE  Search(p, after) = Search(p, doc)
    BY <1>2, ProbePlain, RemoveOthers DEF Unrelated
  <1> QED  BY <1>1, <1>2 DEF RemoveExact

\* Each rule does to a document what it says, in every state whose bodies are
\* documents.
LEMMA RuleHolds ==
    ASSUME NEW D, NEW Keys, NEW Chars, Bodied(D, Keys, Chars), SInv, SentBodies(D)
    PROVE  RuleExact
  <1>1. SUFFICES ASSUME verdict # Unset, verdict.status = "queued", Container(Content),
                        NEW i \in DOMAIN conf.apis[verdict.api].rules
                 PROVE  LET rule   == conf.apis[verdict.api].rules[i]
                            before == Content
                            after  == Rewritten(before, rule)
                        IN  IF ~Applies(rule, before) THEN after = before
                            ELSE IF rule.operation = "set"
                            THEN SetExact(before, after, rule.path, Processed(rule.value, before))
                            ELSE rule.path # <<>> => RemoveExact(before, after, rule.path)
    BY DEF RuleExact
  <1> DEFINE rule   == conf.apis[verdict.api].rules[i]
             before == Content
  <1>2. before \in D
    BY <1>1, ContentType DEF Container, NotJson
  <1>3. Plain(rule.path)
    <2>1. conf \in Drafts /\ verdict.api \in Apis(conf)
      BY <1>1, QueuedDecision DEF SInv
    <2>2. rule.path \in Seq(Keys) /\ "[]" \notin Keys
      BY <2>1 DEF Bodied, WellFormedRules
    <2> HIDE DEF rule
    <2> QED  BY <2>2 DEF Plain, ToSet
  <1>4. Documents(D, Keys, Chars)
    BY DEF Bodied
  <1> HIDE DEF rule, before
  <1>5. IF ~Applies(rule, before) THEN Rewritten(before, rule) = before
        ELSE IF rule.operation = "set"
        THEN SetExact(before, Rewritten(before, rule), rule.path, Processed(rule.value, before))
        ELSE rule.path # <<>> => RemoveExact(before, Rewritten(before, rule), rule.path)
    BY <1>2, <1>3, <1>4, SetIsExact, RemoveIsExact DEF Rewritten
  <1> QED  BY <1>5 DEF rule, before

\* What the rules and the bodies are made of: JSON documents, and rules whose
\* paths have no projection.
JsonInputs(Keys, Chars, Numbers) ==
    /\ "[]" \notin Keys
    /\ {"None", "JSON"} \subseteq Chars
    /\ \A n \in Numbers : ToString(n) \in Chars
    /\ \A d \in Drafts : \A api \in Apis(d) :
         WellFormedRules(Json(Keys, Chars, Numbers), Keys, Chars, d.apis[api].rules)
    /\ \A q \in Calls : q.body \in Json(Keys, Chars, Numbers) \cup {NotJson}

\* JSON documents are a set of documents.
LEMMA JsonBodied ==
    ASSUME NEW Keys, NEW Chars, NEW Numbers, JsonInputs(Keys, Chars, Numbers)
    PROVE  Bodied(Json(Keys, Chars, Numbers), Keys, Chars)
  <1>1. Documents(Json(Keys, Chars, Numbers), Keys, Chars)
    BY JsonDocuments DEF JsonInputs
  <1> QED  BY <1>1 DEF Bodied, JsonInputs

\* Rules turn JSON documents into JSON documents, on every attempt of a request,
\* however deep they nest.
THEOREM SentJson ==
    ASSUME NEW Keys, NEW Chars, NEW Numbers, JsonInputs(Keys, Chars, Numbers)
    PROVE  Spec => []SentBodies(Json(Keys, Chars, Numbers))
  <1> DEFINE D == Json(Keys, Chars, Numbers)
  <1>1. Bodied(D, Keys, Chars)
    BY JsonBodied
  <1> HIDE DEF D
  <1>2. Init => SentBodies(D)
    BY DEF Init, SentBodies
  <1>3. SInv /\ SentBodies(D) /\ [Next]_vars => SentBodies(D)'
    BY <1>1, BodiesStep
  <1>4. Spec => []SentBodies(D)
    BY <1>2, <1>3, SentHolds, PTL DEF Spec
  <1> QED  BY <1>4 DEF D

\* On every attempt, whatever the rules, the bodies and their documents: a set
\* is read back at its path, a remove takes away what is at its path, and neither
\* touches another node.
THEOREM RulesExact ==
    ASSUME NEW Keys, NEW Chars, NEW Numbers, JsonInputs(Keys, Chars, Numbers)
    PROVE  Spec => []RuleExact
  <1> DEFINE D == Json(Keys, Chars, Numbers)
  <1>1. SInv /\ SentBodies(D) => RuleExact
    BY JsonBodied, RuleHolds
  <1>2. Spec => []SentBodies(D)
    BY SentJson
  <1> HIDE DEF D
  <1> QED  BY <1>1, <1>2, SentHolds, PTL
=============================================================================
