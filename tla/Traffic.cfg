CONSTANTS
    k1 = k1
    k2 = k2
    r1 = r1
    r2 = r2
    r3 = r3
    r4 = r4
    c1 = c1
    c2 = c2
    Requests = {r1, r2, r3, r4}
    call1 = call1
    call2 = call2
    call3 = call3
    Calls = {call1, call2, call3}
    CallOf <- MCCallOf
    MaxTroubled = 1
    Exempt = {r4}
    Keys = {k1, k2}
    KeyOrder <- MCKeyOrder
    Weight <- MCWeight
    Clients = {c1, c2}
    ClientOf <- MCClientOf
    Setups <- MCSetups
    LockTTL = 3
    CoolDowns = {3}
    Speeds = {1}
    NoKey = NoKey
    Step = 2
    MaxTime = 6
CONSTRAINTS FewTroubled FewDrawn
SYMMETRY Symmetry
SPECIFICATION Spec
INVARIANTS TypeOK EndpointWindow ClientWindow KeyWindow WaitSuffices
PROPERTY KeysAsSpecified
CHECK_DEADLOCK FALSE
