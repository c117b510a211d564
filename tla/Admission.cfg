CONSTANTS
    Unset = Unset
    Drafts <- MCDrafts
    Calls <- MCCalls
    Builtin <- MCBuiltin
    MaxTries = 2
SPECIFICATION Spec
INVARIANTS TypeOK RoutesUnambiguous OnlyKeyholders PriorityIsMaster WeightsHonoured ClientBelievable CredentialsKeptApart RuleExact
CHECK_DEADLOCK FALSE
