SPECIFICATION MCSpec
CONSTANTS
    Ids = {1, 2}
    Timestamp <- MCTimestamp
    Class <- MCClass
    Old = {1, 2}
    Hot = {}
    Duplicates <- MCDuplicates
    InitRows <- MCRows
    Users = {u1, u2}
    Tools = {"forget", "restore", "write", "feedback", "quarantine", "unquarantine", "label", "enforce", "search"}
    DecayTo <- MCDecayTo
    Adjustments <- MCAdjust
    MaxCycles = 1
    MaxCalls = 2
    Sessions = {s1, s2}
    Owners = {o1, o2}
    Memories = {1, 2}
    TargetLists <- MCTargetLists
    OP_TOKEN_TTL_SECS = 1
    MaxTokens = 2
    MaxEdits = 1
INVARIANTS MCTypeOK ConfirmedAsPreviewed
PROPERTIES UserLabelsSurvive OnlyRestoreRevives EnforcedKeepsValidity LiveFloor
SYMMETRY Symmetry
CHECK_DEADLOCK FALSE
