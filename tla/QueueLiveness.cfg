CONSTANTS
    Requests = {r1, r2}
    Keys = {k1}
    Exempt = {r2}
    MaxWorkers = 1
    MaxSize = 2
    MaxRetries = 2
    KeyConcurrency = FALSE
    RetriesBelow400 = FALSE
    NoKey = NoKey
    MaxFaults = 1
SPECIFICATION FairSpec
PROPERTIES Answered WakeOnClientExit
CHECK_DEADLOCK FALSE
