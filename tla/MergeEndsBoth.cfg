SPECIFICATION MemorySpec
CONSTANTS
    Ids = {1, 2}
    Timestamp <- MCTimestamp
    Class <- MCPermanent
    Old = {}
    Hot = {}
    Duplicates <- MCDuplicates
    InitRows <- MCRows
    Users = {u1}
    Tools = {"search"}
    DecayTo <- MCDecayTo
    Adjustments <- MCAdjust
    MaxCycles = 1
    MaxCalls = 0
INVARIANT OneCopyStays
CHECK_DEADLOCK FALSE
