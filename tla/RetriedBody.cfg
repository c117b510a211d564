CONSTANTS
    Unset = Unset
    Drafts <- ReferenceDrafts
    Calls <- BodyCalls
    Builtin <- MCBuiltin
    MaxTries = 2
SPECIFICATION Spec
INVARIANT ReferencesOriginal
CHECK_DEADLOCK FALSE
