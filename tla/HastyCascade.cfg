SPECIFICATION DispatchSpec
CONSTANTS
    Handlers = {h1, h2}
    Sweeper = sweeper
    Admins = {}
    Tools = {"propose", "claim", "complete", "sweep"}
    MaxBusy = 2
    PruneIds = {}
    Workers = {w1}
    None = None
    MaxActions = 2
    MaxGoals = 0
    MaxLoad <- LoadOfOne
    MaxDeps = 1
    Blacklist = 1
    MaxRequeues = 1
    MaxTransientRetries = 1
    Lease = 1
    BackoffBase = 1
    BackoffMax = 1
    MaxOpen = 2
    MaxSteer = 0
    CountMax = 4
INVARIANTS
    BlockedForAReason
