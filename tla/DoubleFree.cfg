CONSTANTS
    Requests = {r1, r2, r3}
    Keys = {k1}
    Exempt = {}
    MaxWorkers = 2
    MaxSize = 1
    MaxRetries = 2
    KeyConcurrency = FALSE
    RetriesBelow400 = FALSE
    NoKey = NoKey
    MaxFaults = 1
CONSTRAINT FewFaults
SYMMETRY Symmetry
SPECIFICATION Spec
INVARIANT ExclusiveKey
CHECK_DEADLOCK FALSE
