SPECIFICATION MCSpec
CONSTANTS
    MaxActions = 3
    MaxGoals = 1
    Workers = {w1, w2}
    None = None
    Lease = 1
    BackoffBase = 1
    BackoffMax = 2
    MaxOpen = 3
    MaxSteer = 1
    CountMax = 1
SYMMETRY WorkerSymmetry
INVARIANTS
    TypeOK
    OwnershipConsistent
    ClaimedDepsDone
    NoDependencyCycle
PROPERTIES
    ImplementsLifecycle
