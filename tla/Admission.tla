----------------------------- MODULE Admission -----------------------------
(***************************************************************************)
(* A call from its arrival to its upstream request, under a configuration  *)
(* that was accepted at startup: validation and lookup of settings         *)
(* (nya/config/manager.py), authentication (nya/server/auth.py), routing,  *)
(* policy, exemption, priority and client address (nya/core/handler.py),   *)
(* and for every attempt the headers (nya/utils/header.py) and the body    *)
(* (Substitution) it is sent with.                                         *)
(*                                                                         *)
(* A secret is a text and whether blanks surround it.  An Authorization    *)
(* header is two: the whole of it less a leading "Bearer ", and the tail   *)
(* after its last one.  A path is the sequence of its segments and, after  *)
(* the API's, its trail: characters, or segments kept whole; a pattern is  *)
(* a prefix and whether a star ends it.  What the JSON schema refuses is   *)
(* never drafted.  Queueing is left to RequestQueue.                       *)
(***************************************************************************)
EXTENDS Substitution

CONSTANTS
    Drafts,    \* configurations that satisfy the schema
    Calls,     \* requests that may arrive
    Builtin,   \* BUILTIN_API_DEFAULTS, for the settings modelled
    Unset,     \* a setting, header or cookie that is absent
    MaxTries   \* attempts per call

VARIABLES
    conf,      \* the configuration of the process, Unset before the start
    call,      \* the request
    verdict,   \* what was decided on its arrival
    sent       \* its upstream requests

vars == <<conf, call, verdict, sent>>

Init == conf = Unset /\ call = Unset /\ verdict = Unset /\ sent = <<>>

---------------------------------------------------------------------------
(* Settings.                                                               *)

Apis(c) == DOMAIN c.apis

\* get_api_setting and get_default_setting.
Setting(c, api, name) ==
    IF name \in DOMAIN c.apis[api].settings THEN c.apis[api].settings[name]
    ELSE IF name \in DOMAIN c.defaults THEN c.defaults[name]
    ELSE Builtin[name]

\* Mutant of KeysOf: the API's own choice of key variable is overlooked.
KeysOfDefault(c, api) ==
    LET variable == IF "key_variable" \in DOMAIN c.defaults
                    THEN c.defaults["key_variable"] ELSE Builtin["key_variable"]
    IN  IF variable \in DOMAIN c.apis[api].variables THEN c.apis[api].variables[variable]
        ELSE <<>>

\* get_api_variable_values of the key variable.
KeysOf(c, api) == c.apis[api].variables[Setting(c, api, "key_variable")]

\* What the schema says of a draft's lists, and HTTP of a credential: a header
\* value does not end in blanks, so what follows "Bearer " is not blank.  The
\* peer's address is the socket's.
ASSUME SchemaAssumption ==
    /\ \A d \in Drafts :
         /\ d.keys \in Seq(ToSet(d.keys))
         /\ \A api \in Apis(d) :
              /\ d.apis[api].key_weights \in Seq(Nat)
              /\ \A v \in DOMAIN d.apis[api].variables :
                   d.apis[api].variables[v] \in Seq(ToSet(d.apis[api].variables[v]))
    /\ \A q \in Calls :
         /\ q.auth # Unset => q.auth.tail.text # ""
         /\ q.peer # "malformed"
         /\ q.forwarded \in Seq(ToSet(q.forwarded))

ASSUME UnsetAssumption == Unset \notin Drafts \cup Calls

ASSUME MaxTriesAssumption == MaxTries \in Nat

---------------------------------------------------------------------------
(* _semantic_validation_errors.                                            *)

CorsError(c) == c.cors.credentials /\ "*" \in c.cors.origins

BlockingError(settings) ==
    \/ /\ "key_blocking.status_codes" \in DOMAIN settings
       /\ \/ settings["key_blocking.status_codes"] = {}
          \/ ~(settings["key_blocking.status_codes"] \subseteq 400 .. 599)
    \/ /\ "key_blocking.duration_seconds" \in DOMAIN settings
       /\ settings["key_blocking.duration_seconds"] <= 0

KeyError(c, api) ==
    \/ Setting(c, api, "key_variable") = ""
    \/ Setting(c, api, "key_variable") \notin DOMAIN c.apis[api].variables
    \/ KeysOf(c, api) = <<>>

\* A template is the set of variables it names.
TemplateError(c, api) ==
    \E h \in DOMAIN c.apis[api].headers :
        ~(c.apis[api].headers[h] \subseteq DOMAIN c.apis[api].variables)

\* Mutant of WeightError: only the weights' presence is checked.
WeightAbsent(c, api) ==
    /\ Setting(c, api, "load_balancing_strategy") = "weighted"
    /\ c.apis[api].key_weights = <<>>

WeightError(c, api) ==
    /\ Setting(c, api, "load_balancing_strategy") = "weighted"
    /\ Setting(c, api, "key_variable") \in DOMAIN c.apis[api].variables
    /\ \/ Len(c.apis[api].key_weights) # Len(KeysOf(c, api))
       \/ \A i \in DOMAIN c.apis[api].key_weights : c.apis[api].key_weights[i] = 0

\* Mutant of AliasError: aliases are compared with aliases only.
AliasErrorAmongAliases(c, api) ==
    \E a \in c.apis[api].aliases, other \in Apis(c) \ {api} : a \in c.apis[other].aliases

\* claimed_routes: an alias of one API is the name or an alias of another.
AliasError(c, api) ==
    \E a \in c.apis[api].aliases, other \in Apis(c) \ {api} :
        a = other \/ a \in c.apis[other].aliases

Valid(c) ==
    /\ ~CorsError(c)
    /\ ~BlockingError(c.defaults)
    /\ \A api \in Apis(c) :
         /\ ~BlockingError(c.apis[api].settings)
         /\ ~KeyError(c, api)
         /\ ~TemplateError(c, api)
         /\ ~WeightError(c, api)
         /\ ~AliasError(c, api)

\* LoadBalancer.set_weights: cut to the number of keys, or filled up with 1.
EffectiveWeights(c, api) ==
    [i \in DOMAIN KeysOf(c, api) |->
        IF i \in DOMAIN c.apis[api].key_weights THEN c.apis[api].key_weights[i] ELSE 1]

---------------------------------------------------------------------------
(* AuthManager.                                                            *)

Blank(s) == s.text = ""

UsableKeys(c) == {c.keys[i].text : i \in {j \in DOMAIN c.keys : ~Blank(c.keys[j])}}

\* Mutant of MasterKeys: the first usable entry is the master key.
MasterPromoted(c) ==
    IF UsableKeys(c) = {} THEN {}
    ELSE {SelectSeq(c.keys, LAMBDA s : ~Blank(s))[1].text}

\* master_key, and ConfigManager._master_api_key: the first entry, if usable.
MasterKeys(c) == IF c.keys = <<>> \/ Blank(c.keys[1]) THEN {} ELSE {c.keys[1].text}

\* is_auth_disabled.  The texts "none" and "null" count only when the setting
\* is one string.
AuthDisabled(c) ==
    \/ UsableKeys(c) = {}
    \/ ~c.listed /\ c.keys[1].text \in {"none", "null"}

\* verify_api_key with the text of a header or cookie.
Verified(c, secret, keys) == secret # Unset /\ secret.text \in keys

PublicPaths == {<<>>, <<"health">>, <<"info">>, <<"metrics">>,
                <<"docs">>, <<"redoc">>, <<"openapi.json">>}

\* excluded_asset_suffixes: what the login page shows.
PublicAssets == {<<"dashboard", "static", "logo.svg">>, <<"dashboard", "favicon.ico">>,
                 <<"dashboard", "static", "fonts", "SpaceGrotesk-var.woff2">>}

\* The whole path ends in an asset, wherever it starts: the prefix may be a
\* mount, or an API and a path of it.
EndsInAsset(q) == \E asset \in PublicAssets : IsSuffix(asset, q.path \o q.trail)

\* _is_admin_surface, behind a mount prefix or not.
AdminSurface(q) ==
    LET path == IF IsPrefix(q.root, q.path)
                THEN SubSeq(q.path, Len(q.root) + 1, Len(q.path)) ELSE q.path
    IN  path # <<>> /\ path[1] \in {"dashboard", "config"}

\* AuthMiddleware.dispatch.
Admitted(c, q) ==
    \/ q.preflight
    \/ q.path \in PublicPaths
    \/ EndsInAsset(q)
    \/ AuthDisabled(c)
    \/ Verified(c, q.cookie, MasterKeys(c))
    \/ /\ q.auth # Unset
       /\ Verified(c, q.auth.whole, IF AdminSurface(q) THEN MasterKeys(c) ELSE UsableKeys(c))

---------------------------------------------------------------------------
(* RequestHandler.prepare_request and validate_request_policy.             *)

\* parse_request: the API of a segment, its name before any alias.  More than
\* one API may have the alias in a configuration that is not valid.
Route(c, segment) ==
    IF segment \in Apis(c) THEN {segment}
    ELSE {api \in Apis(c) : segment \in c.apis[api].aliases}

\* _matches_path.
Matches(trail, patterns) ==
    \E p \in patterns :
        IF p.star THEN IsPrefix(p.prefix, trail) ELSE p.prefix = trail

PathAllowed(c, api, trail) ==
    Setting(c, api, "allowed_paths.enabled") =>
        Matches(trail, Setting(c, api, "allowed_paths.paths"))
          = (Setting(c, api, "allowed_paths.mode") = "whitelist")

\* should_enforce_rate_limit.
RateLimited(c, api, trail) ==
    LET paths == Setting(c, api, "rate_limit.rate_limit_paths")
    IN  Setting(c, api, "rate_limit.enabled") /\ (paths = {} \/ Matches(trail, paths))

\* Mutant of Priority: any configured key has priority.
PriorityOfAny(c, q) ==
    IF q.auth # Unset /\ \E i \in DOMAIN c.keys : c.keys[i] = q.auth.tail THEN 2 ELSE 3

\* set_request_priority compares the header's tail with the first entry as they
\* are.
Priority(c, q) ==
    IF q.auth # Unset /\ c.keys # <<>> /\ c.keys[1] = q.auth.tail THEN 2 ELSE 3

\* Mutant of ClientAddress: the first header counts, well formed or not.
ClientAddressUnchecked(c, q) ==
    IF q.peer \in c.trusted /\ q.forwarded # <<>> THEN q.forwarded[1] ELSE q.peer

\* _is_valid_ip, of the addresses in the order their headers are looked at.
WellFormed(q) == {i \in DOMAIN q.forwarded : q.forwarded[i] # "malformed"}

\* is_trusted_proxy and parse_source_ip_address: the first well-formed address
\* in the headers of a trusted peer.
ClientAddress(c, q) ==
    IF q.peer \in c.trusted /\ WellFormed(q) # {}
    THEN q.forwarded[CHOOSE i \in WellFormed(q) : \A j \in WellFormed(q) : i <= j]
    ELSE q.peer

NotJson == [t |-> "bytes"]

Answer(status) == [status |-> status]

\* What becomes of q: a page or an error, or a place in its API's queue.  The
\* CORS layer answers a preflight itself, as a page.
Decision(c, q) ==
    IF ~Admitted(c, q) THEN Answer(IF AdminSurface(q) THEN "401" ELSE "403")
    ELSE IF q.preflight \/ Len(q.path) < 2 \/ q.path[1] # "api" THEN Answer("page")
    ELSE IF Route(c, q.path[2]) = {} THEN Answer("404")
    ELSE LET api == CHOOSE a \in Route(c, q.path[2]) : TRUE
         IN  IF q.method \notin Setting(c, api, "allowed_methods") THEN Answer("405")
             ELSE IF ~PathAllowed(c, api, q.trail) THEN Answer("prohibited")
             ELSE [status |-> "queued", api |-> api, priority |-> Priority(c, q),
                   client |-> ClientAddress(c, q),
                   limited |-> RateLimited(c, api, q.trail)]

---------------------------------------------------------------------------
(* The upstream request.                                                   *)

HopByHop == {"connection", "te"}

Excluded == HopByHop \cup {"x-forwarded-for"}

\* Mutant of Stripped: configured names replace the client's, the rest passes.
StrippedHopByHop(names) == names \ Excluded

\* process_headers: the caller's headers that are passed on.
Stripped(names) == names \ (Excluded \cup {"authorization"})

\* process_request_headers: header name to where its value is from.  A
\* configured header is filled with the chosen value of each variable.
FromClient == [from |-> "client", filled |-> [v \in {} |-> Unset]]

Configured(c, api, names, values) ==
    LET templates == c.apis[api].headers
    IN  [h \in Stripped(names) \cup DOMAIN templates |->
            IF h \in DOMAIN templates
            THEN [from |-> "config", filled |-> [v \in templates[h] |-> values[v]]]
            ELSE FromClient]

\* What "connection" nominates, the client's header or the one configured in its
\* place, whose text is the same for every value of a variable.
Nominated(c, api, q, headers) ==
    IF "connection" \notin DOMAIN headers THEN {}
    ELSE IF headers["connection"].from = "config" THEN c.apis[api].nominated
    ELSE q.nominated

\* RequestExecutor._prepare_request_headers.
Prepared(headers, nominated) ==
    [h \in DOMAIN headers \ (HopByHop \cup nominated) |-> headers[h]]

\* The values variables may take: any configured one, the key as selected.
Values(c, api, key) ==
    LET variables == c.apis[api].variables
        kv        == Setting(c, api, "key_variable")
    IN  {f \in [DOMAIN variables -> UNION {ToSet(variables[v]) : v \in DOMAIN variables}] :
            \A v \in DOMAIN variables :
                IF v = kv THEN f[v] = key ELSE f[v] \in ToSet(variables[v])}

\* The request body of the next attempt is what the last one sent.
Content == IF sent = <<>> THEN call.body ELSE Last(sent).body

\* Is the body rewritten?
Rewrites(c, api, q) == q.json /\ c.apis[api].rules # <<>>

\* process_request_body cannot serialize what was not JSON to begin with.
Unreadable(c, api, q) == Rewrites(c, api, q) /\ q.body = NotJson

\* process_request_body.
SentBody(c, api, q, content) ==
    IF Rewrites(c, api, q) THEN Apply(content, c.apis[api].rules) ELSE content

---------------------------------------------------------------------------
(* The steps.                                                              *)

\* A process starts with a valid configuration, or not at all.
Start(d) ==
    /\ conf = Unset
    /\ Valid(d)
    /\ conf' = d
    /\ UNCHANGED <<call, verdict, sent>>

Arrive(q) ==
    /\ conf # Unset /\ call = Unset
    /\ call' = q
    /\ verdict' = Decision(conf, q)
    /\ UNCHANGED <<conf, sent>>

\* _process_queued_request, on every attempt: headers, body, upstream.
Send ==
    /\ verdict # Unset /\ verdict.status = "queued"
    /\ ~Unreadable(conf, verdict.api, call)
    /\ Len(sent) < MaxTries
    /\ \E key \in ToSet(KeysOf(conf, verdict.api)) :
         \E values \in Values(conf, verdict.api, key) :
            LET names   == IF sent = <<>> THEN call.headers ELSE DOMAIN Last(sent).headers
                headers == Configured(conf, verdict.api, names, values)
            IN  sent' = Append(sent,
                  [key     |-> key,
                   headers |-> Prepared(headers, Nominated(conf, verdict.api, call, headers)),
                   body    |-> SentBody(conf, verdict.api, call, Content)])
    /\ UNCHANGED <<conf, call, verdict>>

\* The first attempt raises before it is sent.
FailToPrepare ==
    /\ verdict # Unset /\ verdict.status = "queued"
    /\ Unreadable(conf, verdict.api, call)
    /\ verdict' = Answer("500")
    /\ UNCHANGED <<conf, call, sent>>

Next ==
    \/ \E d \in Drafts : Start(d)
    \/ \E q \in Calls : Arrive(q)
    \/ Send
    \/ FailToPrepare

Spec == Init /\ [][Next]_vars
---------------------------------------------------------------------------
(* Properties.                                                             *)

\* Every variable has its type: a queued call has its API and an upstream
\* request a key of that API's own key variable.
TypeOK ==
    /\ conf \in Drafts \cup {Unset}
    /\ call \in Calls \cup {Unset}
    /\ verdict # Unset =>
         \/ verdict.status \in {"401", "403", "404", "405", "500", "page", "prohibited"}
         \/ /\ verdict.status = "queued"
            /\ verdict.api \in Apis(conf)
            /\ verdict.priority \in {2, 3} /\ verdict.limited \in BOOLEAN
    /\ Len(sent) <= MaxTries
    /\ \A i \in DOMAIN sent :
         LET api == conf.apis[verdict.api]
         IN  "key_variable" \in DOMAIN api.settings =>
               sent[i].key \in ToSet(api.variables[api.settings["key_variable"]])

\* An accepted configuration routes the name and every alias of an API to that
\* API alone: what claimed_routes refuses and the order parse_request looks in
\* fit together.
RoutesUnambiguous ==
    conf # Unset =>
        \A api \in Apis(conf) : \A segment \in {api} \cup conf.apis[api].aliases :
            Route(conf, segment) = {api}

\* Public paths and paths that end in an asset of the login page apart, a path of
\* an API included, only holders of a key get past the middleware: an admin page
\* takes the first configured entry, and stays locked when that one is blank, a
\* proxied call takes any entry that is not blank, a cookie the first.
OnlyKeyholders ==
    verdict # Unset /\ verdict.status \notin {"401", "403"} =>
        \/ call.preflight \/ call.path \in PublicPaths \/ EndsInAsset(call)
        \/ AuthDisabled(conf)
        \/ \E i \in DOMAIN conf.keys :
             /\ ~Blank(conf.keys[i])
             /\ \/ i = 1 /\ call.cookie # Unset /\ call.cookie.text = conf.keys[i].text
                \/ /\ call.auth # Unset /\ call.auth.whole.text = conf.keys[i].text
                   /\ AdminSurface(call) => i = 1

\* A request goes ahead in the queue only when its header's tail is the key that
\* opens the admin pages, so a blank first entry gives priority to nobody.  (The
\* middleware reads the whole of the header: it takes the same header when that
\* is the tail, as in "Bearer <key>".)
PriorityIsMaster ==
    verdict # Unset /\ verdict.status = "queued" /\ verdict.priority = 2 =>
        call.auth # Unset /\ call.auth.tail.text \in MasterKeys(conf)

\* An accepted configuration with the weighted strategy gives every key the
\* weight that was configured for it, and some key one above 0.
WeightsHonoured ==
    conf # Unset =>
        \A api \in Apis(conf) :
            Setting(conf, api, "load_balancing_strategy") = "weighted" =>
                /\ EffectiveWeights(conf, api) = conf.apis[api].key_weights
                /\ \E i \in DOMAIN KeysOf(conf, api) : EffectiveWeights(conf, api)[i] > 0

\* The address quotas are charged to is an address: the peer's own unless the
\* peer is trusted and sent a well-formed one, and then the first of those.
ClientBelievable ==
    verdict # Unset /\ verdict.status = "queued" =>
        /\ verdict.client # "malformed"
        /\ verdict.client # call.peer =>
             call.peer \in conf.trusted /\ verdict.client \in ToSet(call.forwarded)
        /\ call.peer \in conf.trusted =>
             \A i \in DOMAIN call.forwarded :
                \/ call.forwarded[i] = "malformed"
                \/ \E j \in 1 .. i : verdict.client = call.forwarded[j]

\* On every attempt the credential the caller gave NyaProxy and the hop-by-hop
\* headers stay behind, and every variable of every configured header, but those
\* a configured "connection" nominates, has one of its configured values, the
\* key's being the key that was selected.
CredentialsKeptApart ==
    \A i \in DOMAIN sent :
        LET headers == sent[i].headers
            api     == conf.apis[verdict.api]
        IN  /\ \A h \in Excluded \cup {"authorization"} :
                 h \in DOMAIN headers => headers[h].from # "client"
            /\ \A h \in DOMAIN api.headers \ (HopByHop \cup api.nominated) :
                 /\ h \in DOMAIN headers
                 /\ \A v \in DOMAIN headers[h].filled :
                      /\ headers[h].filled[v] \in ToSet(api.variables[v])
                      /\ v = Setting(conf, verdict.api, "key_variable") =>
                           headers[h].filled[v] = sent[i].key

\* Paths that reach a node of the body, or could.
Probes == {<<>>} \cup UNION {[1 .. n -> {"a", "b", "0", "1"}] : n \in 1 .. 2}

Unrelated(p, q) == ~IsPrefix(p, q) /\ ~IsPrefix(q, p)

\* An index that meets an object becomes a key no reference can read.
IndexesObject(doc, path) ==
    \E i \in DOMAIN path : path[i] \in Digits /\ Way(doc, path)[i - 1].t = "obj"

\* What a set does: the value can be read back where the path can be followed,
\* and every other node is as before or one that filled up a list.
SetExact(before, after, path, value) ==
    IF ~Passable(before, path) THEN after = before
    ELSE /\ IndexesObject(before, path) \/ Search(path, after) = value
         /\ \A p \in Probes : Unrelated(p, path) =>
              \/ Search(p, after) = Search(p, before)
              \/ Search(p, before) = Null /\ Search(p, after) \in {Fresh("a"), Fresh("0")}

\* What a remove does: a key is gone, or the next item takes the item's place;
\* every other node that no item moved is as before.
RemoveExact(before, after, path) ==
    LET parent == Search(Front(path), before)
        inList == Last(path) \in Digits /\ parent.t = "list"
        next   == Index(Last(path)) + 1
    IN  /\ Search(path, after) =
             IF inList /\ Search(path, before) # Null /\ next \in DOMAIN parent.l
             THEN parent.l[next] ELSE Null
        /\ \A p \in Probes :
             Unrelated(p, path) /\ ~(inList /\ IsPrefix(Front(path), p))
               => Search(p, after) = Search(p, before)

\* A rule does what its operation says and nothing else, and a rule that does
\* not apply changes nothing.
RuleExact ==
    verdict # Unset /\ verdict.status = "queued" /\ Container(Content) =>
        \A i \in DOMAIN conf.apis[verdict.api].rules :
            LET rule   == conf.apis[verdict.api].rules[i]
                before == Content
                after  == Rewritten(before, rule)
            IN  IF ~Applies(rule, before) THEN after = before
                ELSE IF rule.operation = "set"
                THEN SetExact(before, after, rule.path, Processed(rule.value, before))
                ELSE rule.path # <<>> => RemoveExact(before, after, rule.path)

\* "You can reference values from the original request body"
\* (docs/request_body_substitution.md): on every attempt a reference reads the
\* body the client sent.
ReferencesOriginal ==
    \A i \in DOMAIN sent :
        LET FromOriginal(doc, rule) ==
                IF ~Applies(rule, doc) THEN doc
                ELSE IF rule.operation = "set"
                THEN SetField(doc, rule.path, Processed(rule.value, call.body))
                ELSE RemoveField(doc, rule.path)
        IN  sent[i].body = FoldLeft(FromOriginal, call.body, conf.apis[verdict.api].rules)

=============================================================================
