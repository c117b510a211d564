--------------------------- MODULE MCRequestQueue ---------------------------
(* Small instances of RequestQueue.                                        *)
EXTENDS RequestQueue, TLC

CONSTANT MaxFaults   \* bound: expired locks, failed closes and open exchanges
                     \* of streamed responses >= 400, taken together

ErrorStreams == {r \in Requests : place[r] \in Using /\ ~Holds(r)}

Total(count) == FoldFunction(+, 0, count)

Faults == Total(expiries) + Total(raised) + Cardinality(ErrorStreams)

\* Faults come while the queue is open; one worker at a time closes a response,
\* and one try is retried with a status below 400.
FewFaults ==
    /\ Faults <= MaxFaults
    /\ phase = "open" \/ Faults = 0
    /\ Total(closing) <= 1
    /\ Total(kept) <= 1

Symmetry == Permutations(Requests \ Exempt) \cup Permutations(Keys)
============================================================================
