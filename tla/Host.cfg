SPECIFICATION MCSpec
CONSTANTS
    Threads = {t1, t2}
    Edges = {"e", "f"}
    Rows = {"m", "n"}
    MaxStrength = 2
    MAX_DELTA = 1
    MaxChanges = 3
    MaxRowChanges = 3
    MaxSaveFaults = 2
    Requests = {q1, q2}
    Users = {"u", "v"}
    MAX_USERS = 2
    MaxEngines = 3
    MaxMemories = 1
    MaxEvictions = 2
    Clients = {k1, k2}
    Ids = {i1, i2}
    Root = root
    MAX_ACCOUNTS = 2
    MAX_SUBS = 1
    MaxAccountChanges = 3
    MaxAccountFaults = 1
    Visitors = {v1, v2}
    MaxCodes = 3
    MaxInviteCrashes = 1
    MaxInviteFaults = 1
    Addresses = {"a"}
    Spellings = {"short", "long"}
    Canonical = "short"
    BAN_THRESHOLD = 2
    BAN_TIMEOUT = 1
    Severities = {1, 2}
    MaxTime = 2
    MaxHits = 2
    MaxReloads = 1
    MaxGuardFaults = 1
    MaxCommands = 2
INVARIANTS HostTypeOK CleanIsSaved RowsTracked MarkHasLoader WritesKept AnsweredIsStored FamiliesWhole EachCodeOnce OnlyRefundsBlock UnbanSticks RecordedBanEnforced
CHECK_DEADLOCK FALSE
