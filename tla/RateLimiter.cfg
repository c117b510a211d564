CONSTANTS
    Requests = {r1, r2, r3, r4}
    Exempt = {r4}
    Configs <- MCConfigs
    LockTTL = 2
    CoolDowns = {1, 3}
    Step = 1
    MaxTime = 4
    MaxCloses = 1
CONSTRAINT FewCloses
SYMMETRY Symmetry
SPECIFICATION Spec
INVARIANTS TypeOK DequeBounded NetWindow ExclusiveHolder SleptEnough
PROPERTY CoolDownKept
CHECK_DEADLOCK FALSE
