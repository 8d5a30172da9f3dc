SPECIFICATION DispatchSpec
CONSTANTS
    Handlers = {h1, h2}
    Sweeper = sweeper
    Admins = {}
    Tools = {"propose", "claim", "heartbeat", "complete", "assign", "dispatch", "workers", "sweep"}
    MaxBusy = 3
    PruneIds = {}
    Workers = {w1, w2}
    None = None
    MaxActions = 1
    MaxGoals = 0
    MaxLoad <- LoadOfOne
    MaxDeps = 1
    Blacklist = 1
    MaxRequeues = 2
    MaxTransientRetries = 0
    Lease = 1
    BackoffBase = 1
    BackoffMax = 1
    MaxOpen = 2
    MaxSteer = 0
    CountMax = 5
SYMMETRY Symmetry
INVARIANTS
    ExhaustedIsAccounted
    BudgetOverdraftBounded
PROPERTIES
    ImplementsFrontier
