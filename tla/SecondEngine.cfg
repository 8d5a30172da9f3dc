SPECIFICATION SlotsSpec
CONSTANTS
    Requests = {q1, q2}
    Users = {"u"}
    MAX_USERS = 2
    MaxEngines = 2
    MaxMemories = 0
    MaxEvictions = 0
PROPERTIES SlotNeverReplaced
CHECK_DEADLOCK FALSE
