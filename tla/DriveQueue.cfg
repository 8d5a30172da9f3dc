SPECIFICATION MCSpec
CONSTANTS
    Callers = {c1, c2}
    Fingerprints = {"gap", "stall"}
    Evidence <- MCEvidence
    Mentions = {"stall"}
    MAX_QUEUE_SIGNALS = 2
    MAX_RETRIES = 1
    MaxId = 2
    MaxAcks = 2
    MaxCrashes = 2
    MaxFaults = 1
SYMMETRY Symmetry
INVARIANTS DriveTypeOK AnsweredStaysSettled LearnedClosesValve DuplicatesBounded PenaltyOnlyForDeadLetters
PROPERTIES StoredIsKept IdsNeverReused
CHECK_DEADLOCK FALSE
