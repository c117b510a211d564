--------------------------- MODULE MCRateLimiter ---------------------------
(* Small instances of RateLimiter.                                         *)
EXTENDS RateLimiter, TLC

CONSTANT MaxCloses   \* bound: closes that raise

FewCloses == Cardinality({r \in Requests : closedAt[r] # 0}) <= MaxCloses

Key(limit, window, concurrency) ==
    [limit |-> limit, window |-> window, concurrency |-> concurrency]

\* 2/2 exclusive, 1/2 concurrent, and an unlimited exclusive key.
MCConfigs == {Key(2, 2, FALSE), Key(1, 2, TRUE), Key(0, 0, FALSE)}

Symmetry == Permutations(Requests \ Exempt)
============================================================================
