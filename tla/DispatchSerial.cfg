SPECIFICATION DispatchSpec
CONSTANTS
    Handlers = {h1}
    Sweeper = sweeper
    Admins = {}
    Tools = {"propose", "claim", "heartbeat", "complete", "control", "goals", "sweep"}
    MaxBusy = 1
    PruneIds = {1}
    Workers = {w1}
    None = None
    MaxActions = 2
    MaxGoals = 1
    MaxLoad <- LoadOfOne
    MaxDeps = 1
    Blacklist = 1
    MaxRequeues = 1
    MaxTransientRetries = 1
    Lease = 1
    BackoffBase = 1
    BackoffMax = 1
    MaxOpen = 2
    MaxSteer = 0
    CountMax = 4
INVARIANTS
    BlockedForAReason
    NoLiveWorkInFinishedGoal
    NoEscalationWithoutFailure
    PoolCanRun
PROPERTIES
    SweepRespectsLease
