CONSTANTS
    ip = ip
    key = key
    Names = {ip, key}
    Prunable = {ip}
    Blockable = {key}
    Configs <- MCConfigs
    CoolDowns = {3}
    PruneInterval = 2
    MinIdle = 2
    MayDie = FALSE
    Absent = Absent
    MaxUses = 2
    MaxTime = 6
SPECIFICATION Spec
INVARIANT QuotaKeptAcrossRestarts
CHECK_DEADLOCK FALSE
