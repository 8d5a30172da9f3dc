SPECIFICATION DispatchSpec
CONSTANTS
    Handlers = {h1, h2}
    Sweeper = sweeper
    Admins = {}
    Tools = {"propose", "goals"}
    MaxBusy = 2
    PruneIds = {}
    Workers = {w1}
    None = None
    MaxActions = 1
    MaxGoals = 1
    MaxLoad <- LoadOfOne
    MaxDeps = 1
    Blacklist = 1
    MaxRequeues = 1
    MaxTransientRetries = 1
    Lease = 1
    BackoffBase = 1
    BackoffMax = 1
    MaxOpen = 2
    MaxSteer = 0
    CountMax = 4
INVARIANTS
    NoLiveWorkInFinishedGoal
