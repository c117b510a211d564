----------------------------- MODULE MCTraffic -----------------------------
(* Small instances of Traffic.                                             *)
EXTENDS Traffic, TLC

CONSTANTS
    k1, k2, r1, r2, r3, r4, c1, c2, call1, call2, call3,
    MaxTroubled   \* bound: attempts that keep their key or fail to close

Troubled == {r \in Requests : status[r] = "kept" \/ closedAt[r] # 0}

\* Only attempts of call1 are troubled, under round robin and with no exempt
\* call beside them.
FewTroubled ==
    /\ Cardinality(Troubled) <= MaxTroubled
    /\ \A r \in Troubled : CallOf[r] = call1
    /\ Troubled # {} => /\ setup.strategy = "round_robin"
                       /\ \A r \in Exempt : status[r] = "new"

\* Round robin apart, any three attempts are made.
FewDrawn ==
    setup.strategy # "round_robin" =>
        Cardinality({r \in Requests : status[r] # "new"}) <= 3

MCKeyOrder == <<k1, k2>>

\* A key with weight 0 is never drawn by "weighted".
MCWeight == k1 :> 1 @@ k2 :> 0

\* r1 and r2 are attempts of one call, r3 is of another of the same client; r4
\* is exempt.
MCCallOf == r1 :> call1 @@ r2 :> call1 @@ r3 :> call2 @@ r4 :> call3

MCClientOf == r1 :> c1 @@ r2 :> c1 @@ r3 :> c1 @@ r4 :> c2

Symmetry == Permutations({r1, r2})

Rate(limit, window) == [limit |-> limit, window |-> window]

Config(keyRate, endpointRate, clientRate, concurrency, strategy) ==
    [key |-> keyRate, endpoint |-> endpointRate, client |-> clientRate,
     concurrency |-> concurrency, strategy |-> strategy]

\* Windows are odd and Step is 2: no window ends at the instant of a call.
\* Each level is the scarce one in some setup.
MCSetups ==
    {Config(Rate(1, 3), Rate(2, 3), Rate(0, 0), FALSE, "round_robin"),
     Config(Rate(2, 5), Rate(1, 5), Rate(1, 3), TRUE, "round_robin"),
     Config(Rate(0, 0), Rate(0, 0), Rate(1, 5), FALSE, "round_robin")}
      \cup {Config(Rate(1, 3), Rate(1, 3), Rate(0, 0), FALSE, s) :
              s \in Strategies \ {"round_robin"}}

============================================================================
