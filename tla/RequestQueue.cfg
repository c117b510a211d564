CONSTANTS
    Requests = {r1, r2, r3}
    Keys = {k1}
    Exempt = {}
    MaxWorkers = 2
    MaxSize = 1
    MaxRetries = 2
    KeyConcurrency = FALSE
    RetriesBelow400 = TRUE
    NoKey = NoKey
    MaxFaults = 1
CONSTRAINT FewFaults
SYMMETRY Symmetry
SPECIFICATION Spec
INVARIANTS TypeOK HoldersBounded LockHasUser NotLost Accounting FreshBounded
PROPERTIES ReleaseWakes KeepsPromise
CHECK_DEADLOCK FALSE
