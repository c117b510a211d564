CONSTANTS
    a1 = a1
    a2 = a2
    a3 = a3
    Attempts = {a1, a2}
    Heads <- BufferedHeads
    Retention = 1
    MaxChunks = 1
    MaxId = 3
    MaxResets = 0
    MaxCrashes = 0
SYMMETRY Symmetry
SPECIFICATION Spec
INVARIANTS GaugeCountsInFlight
CHECK_DEADLOCK FALSE
