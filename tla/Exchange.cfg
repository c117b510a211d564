CONSTANTS
    a1 = a1
    a2 = a2
    a3 = a3
    Attempts = {a1, a2}
    Heads <- MCHeads
    Retention = 1
    MaxChunks = 1
    MaxId = 3
    MaxResets = 1
    MaxCrashes = 1
SYMMETRY Symmetry
SPECIFICATION Spec
INVARIANTS TypeOK GaugeBalanced ConnectionsReturned RetentionKept EvidenceTrue
CHECK_DEADLOCK FALSE
