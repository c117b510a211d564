--------------------------- MODULE MCPersistence ---------------------------
(* Small instances of Persistence.                                         *)
EXTENDS Persistence, TLC

CONSTANTS ip, key

Rate(limit, window) == [limit |-> limit, window |-> window]

\* An edit changes a limit, narrows a window, or widens it.
MCConfigs == {ip :> Rate(1, 1) @@ key :> Rate(2, 3),
              ip :> Rate(1, 2) @@ key :> Rate(1, 1)}
============================================================================
