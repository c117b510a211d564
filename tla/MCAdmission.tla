---------------------------- MODULE MCAdmission ----------------------------
(* Configurations and calls for Admission: each family varies one aspect.  *)
EXTENDS Admission, TLC

Secret(text, padded) == [text |-> text, padded |-> padded]

\* "Bearer <secret>", and a header with something before "Bearer".
Bearer(secret) == [whole |-> secret, tail |-> secret]

Prefixed(secret) == [whole |-> Secret("prefixed", FALSE), tail |-> secret]

MCBuiltin ==
    "key_variable" :> "keys" @@ "load_balancing_strategy" :> "round_robin"
      @@ "allowed_methods" :> {"GET", "POST"}
      @@ "allowed_paths.enabled" :> FALSE @@ "allowed_paths.mode" :> "whitelist"
      @@ "allowed_paths.paths" :> {[prefix |-> <<>>, star |-> TRUE]}
      @@ "rate_limit.enabled" :> FALSE
      @@ "rate_limit.rate_limit_paths" :> {[prefix |-> <<>>, star |-> TRUE]}

NoSettings == [s \in {} |-> Unset]

X == [aliases |-> {"y"}, variables |-> "keys" :> <<"k1">>,
      headers |-> "authorization" :> {"keys"}, nominated |-> {}, settings |-> NoSettings,
      key_weights |-> <<>>, rules |-> <<>>]

Base == [cors |-> [credentials |-> FALSE, origins |-> {"*"}], trusted |-> {"proxy"},
         keys |-> <<Secret("m", FALSE), Secret("p", FALSE)>>, listed |-> TRUE,
         defaults |-> NoSettings, apis |-> "x" :> X]

With(api) == [Base EXCEPT !.apis = "x" :> api]

---------------------------------------------------------------------------
KeyDrafts ==
    {[Base EXCEPT !.keys = k[1], !.listed = k[2]] : k \in
        {<<<<>>, FALSE>>, <<<<Secret("m", FALSE)>>, FALSE>>, <<<<Secret("none", FALSE)>>, FALSE>>,
         <<<<Secret("", TRUE)>>, TRUE>>, <<<<Secret("", TRUE), Secret("p", FALSE)>>, TRUE>>,
         <<<<Secret("m", TRUE), Secret("p", FALSE)>>, TRUE>>,
         <<<<Secret("none", FALSE)>>, TRUE>>}}

RouteDrafts ==
    {[Base EXCEPT !.apis = "x" :> [X EXCEPT !.aliases = s] @@ "z" :> [X EXCEPT !.aliases = t]] :
        s \in SUBSET {"y", "z"}, t \in SUBSET {"w", "x", "y"}}

Weights == {<<>>, <<1>>, <<1, 0>>, <<0, 0>>, <<1, 2>>, <<1, 2, 1>>}

WeightDrafts ==
    {With([X EXCEPT !.key_weights = w, !.variables = "keys" :> ks,
                    !.settings = "load_balancing_strategy" :> s]) :
        w \in Weights, ks \in {<<"k1">>, <<"k1", "k2">>}, s \in {"weighted", "random"}}

\* Mistakes, and settings given at either level.
OtherDrafts ==
    {[Base EXCEPT !.cors.credentials = TRUE],
     [Base EXCEPT !.defaults = "key_blocking.status_codes" :> {399}],
     [Base EXCEPT !.defaults = "load_balancing_strategy" :> "weighted"],
     With([X EXCEPT !.settings = "key_blocking.duration_seconds" :> 0]),
     With([X EXCEPT !.settings = "key_variable" :> "other"]),
     With([X EXCEPT !.headers = "authorization" :> {"keys", "absent"}]),
     With([X EXCEPT !.headers = "custom" :> {"keys"}]),
     With([X EXCEPT !.headers = "authorization" :> {"keys"} @@ "connection" :> {},
                    !.nominated = {"custom"}]),
     With([X EXCEPT !.headers = "authorization" :> {"keys"} @@ "custom" :> {"region"},
                    !.variables = "keys" :> <<"k1", "k2">> @@ "region" :> <<"r1", "r2">>]),
     [With([X EXCEPT !.settings = "key_variable" :> "tokens",
                     !.variables = "tokens" :> <<"k1">> @@ "keys" :> <<"k2">>])
        EXCEPT !.defaults = "key_variable" :> "keys"]}

Pattern(prefix, star) == [prefix |-> prefix, star |-> star]

PolicyDrafts ==
    {With([X EXCEPT !.settings =
        "allowed_paths.enabled" :> TRUE @@ "allowed_paths.mode" :> mode
          @@ "allowed_paths.paths" :> {p} @@ "rate_limit.enabled" :> TRUE
          @@ "rate_limit.rate_limit_paths" :> {p} @@ "allowed_methods" :> {"GET"}]) :
        mode \in {"whitelist", "blacklist"},
        p \in {Pattern(<<"a">>, FALSE), Pattern(<<"a">>, TRUE)}}

---------------------------------------------------------------------------
\* Rules and bodies.
Rule(operation, path, value, conditions) ==
    [operation |-> operation, path |-> path, value |-> value, conditions |-> conditions]

When(field, operator, value) == <<[field |-> field, operator |-> operator, value |-> value]>>

TargetPaths == {<<"a">>, <<"b">>, <<"a", "b">>, <<"a", "0">>, <<"a", "1">>, <<"a", "0", "b">>}

Conditions ==
    {<<>>}
      \cup {When(<<"b">>, o, Num(1)) : o \in {"eq", "ne", "gt", "lt", "ge", "le", "contains", "ncontains"}}
      \cup {When(<<"b">>, o, List(<<Num(0), Num(1)>>)) : o \in {"in", "nin", "between", "nbetween"}}
      \cup {When(<<"a">>, o, Null) : o \in {"exists", "nexists", "isnull", "notnull"}}
      \cup {When(<<"b">>, o, Str(<<"x", "%">>)) : o \in {"like", "nlike"}}
      \cup {When(<<"b">>, o, Str(<<"x">>)) : o \in {"startswith", "endswith", "contains"}}
      \cup {When(<<"a", "[]", "b">>, "contains", Num(1))}

Rewrite(rules) ==
    With([X EXCEPT !.rules = rules])

RuleDrafts ==
    {Rewrite(<<Rule("set", p, v, <<>>)>>) : p \in TargetPaths \cup {<<>>},
        v \in {Num(2), Null, Ref(<<"b">>), Mixed(<<"x">>, <<"b">>),
               Obj("a" :> Ref(<<"a">>)), List(<<Ref(<<"a", "0">>)>>)}}
      \cup {Rewrite(<<Rule("remove", p, NoValue, <<>>)>>) : p \in TargetPaths \cup {<<>>}}
      \cup {Rewrite(<<Rule("set", <<"a">>, Num(2), c)>>) : c \in Conditions}
      \cup {Rewrite(<<Rule("set", <<"a">>, NoValue, <<>>), Rule("remove", <<"b">>, NoValue, <<>>)>>)}

Leaves == {Null, Num(1), Str(<<"x", "y">>), List(<<Num(1), Num(2)>>), Obj("b" :> Num(1)),
           List(<<Obj("b" :> Num(1)), Null>>)}

Bodies ==
    {Obj(("b" :> v)) : v \in Leaves \ {Null}}
      \cup {Obj("a" :> u @@ "b" :> v) : u \in Leaves, v \in {Num(1), Num(2), Str(<<"x", "y">>)}}
      \cup {List(<<Num(1)>>), Num(1), NotJson}

---------------------------------------------------------------------------
BaseCall == [root |-> <<>>, path |-> <<"api", "x">>, trail |-> <<"a">>, method |-> "GET",
             preflight |-> FALSE, auth |-> Bearer(Secret("p", FALSE)), cookie |-> Unset,
             peer |-> "client", forwarded |-> <<>>, headers |-> {"authorization", "custom"},
             nominated |-> {}, json |-> FALSE, body |-> NotJson]

Headers == {Unset}
             \cup {Bearer(s) : s \in {Secret("m", FALSE), Secret("m", TRUE), Secret("p", FALSE),
                                     Secret("q", FALSE), Secret("none", FALSE)}}
             \cup {Prefixed(Secret("m", FALSE)), Prefixed(Secret("p", FALSE))}

AuthCalls ==
    {[BaseCall EXCEPT !.path = path, !.auth = auth, !.cookie = cookie] :
        path \in {<<"api", "x">>, <<"dashboard">>}, auth \in Headers,
        cookie \in {Unset, Secret("m", FALSE), Secret("p", FALSE)}}
      \cup {[BaseCall EXCEPT !.root = <<"mount">>, !.path = <<"mount", "config">>],
            [BaseCall EXCEPT !.path = <<"health">>, !.auth = Unset],
            [BaseCall EXCEPT !.path = <<"openapi.json">>, !.auth = Unset],
            [BaseCall EXCEPT !.path = <<"dashboard", "static", "other.js">>, !.auth = Unset],
            [BaseCall EXCEPT !.preflight = TRUE, !.auth = Unset, !.method = "OPTIONS"]}

Asset == <<"dashboard", "favicon.ico">>

\* Paths that end in an asset, behind a mount prefix or an API as well, with the
\* credentials the middleware then does not look at.
AssetCalls ==
    {[BaseCall EXCEPT !.path = Asset, !.auth = Unset],
     [BaseCall EXCEPT !.root = <<"mount">>, !.path = <<"mount">> \o Asset, !.auth = Unset]}
      \cup {[BaseCall EXCEPT !.trail = <<"a">> \o Asset, !.auth = auth] :
               auth \in {Unset, Prefixed(Secret("m", FALSE)), Bearer(Secret("q", FALSE))}}

PathCalls ==
    {[BaseCall EXCEPT !.path = <<"api", segment>>, !.trail = trail, !.method = method] :
        segment \in {"w", "x", "y", "z"}, trail \in {<<>>, <<"a">>, <<"a", "b">>, <<"b">>},
        method \in {"GET", "POST"}}

AddressCalls ==
    {[BaseCall EXCEPT !.peer = peer, !.forwarded = f, !.headers = @ \cup {"x-forwarded-for"}] :
        peer \in {"client", "proxy"},
        f \in {<<"malformed">>, <<"malformed", "ip">>, <<"ip">>, <<"proxy", "ip">>}}

HeaderCalls ==
    {[BaseCall EXCEPT !.headers = {"authorization", "connection", "te", "custom"},
                      !.nominated = n] : n \in {{}, {"custom"}}}

BodyCalls ==
    {[BaseCall EXCEPT !.json = TRUE, !.body = body] : body \in Bodies}

MCDrafts ==
    {Base} \cup KeyDrafts \cup RouteDrafts \cup WeightDrafts \cup OtherDrafts
      \cup PolicyDrafts \cup RuleDrafts

MCCalls == AuthCalls \cup AssetCalls \cup PathCalls \cup AddressCalls \cup HeaderCalls \cup BodyCalls

\* One configuration, for ReferencesOriginal.
ReferenceDrafts ==
    {Rewrite(<<Rule("set", <<"a">>, Ref(<<"b">>), <<>>), Rule("set", <<"b">>, Num(2), <<>>)>>)}
============================================================================
