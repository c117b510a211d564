----------------------------- MODULE MCExchange -----------------------------
(* Small instances of Exchange.                                            *)
EXTENDS Exchange, TLC

CONSTANTS a1, a2, a3

Symmetry == Permutations(Attempts)

HeadOf(type, length, encoded, latin1) ==
    [type |-> type, chunked |-> FALSE, length |-> length, ranges |-> FALSE,
     encoded |-> encoded, latin1 |-> latin1]

\* Buffered: readable, compressed, and with a header that cannot be passed on.
\* Streamed: an event stream, a compressed download, and one that cannot be set up.
MCHeads == {HeadOf("json", TRUE, FALSE, TRUE), HeadOf("text", TRUE, TRUE, FALSE),
            HeadOf("text", FALSE, FALSE, TRUE), HeadOf("other", FALSE, TRUE, TRUE),
            HeadOf("media", FALSE, FALSE, FALSE)}

BufferedHeads == {HeadOf("json", TRUE, FALSE, TRUE)}
=============================================================================
