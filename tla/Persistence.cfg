CONSTANTS
    ip = ip
    key = key
    Names = {ip, key}
    Prunable = {ip}
    Blockable = {key}
    Configs <- MCConfigs
    CoolDowns = {3}
    PruneInterval = 2
    MinIdle = 2
    MayDie = TRUE
    Absent = Absent
    MaxUses = 2
    MaxTime = 6
SPECIFICATION Spec
INVARIANTS TypeOK QuotaKept NothingInvented IdleBounded
CHECK_DEADLOCK FALSE
