SPECIFICATION FairDispatchSpec
CONSTANTS
    Handlers = {h1}
    Sweeper = sweeper
    Admins = {}
    Tools = {"propose", "claim", "heartbeat", "complete", "sweep"}
    MaxBusy = 2
    PruneIds = {}
    Workers = {w1}
    None = None
    MaxActions = 2
    MaxGoals = 0
    MaxLoad <- LoadOfOne
    MaxDeps = 1
    Blacklist = 0
    MaxRequeues = 0
    MaxTransientRetries = 1
    Lease = 1
    BackoffBase = 1
    BackoffMax = 1
    MaxOpen = 1
    MaxSteer = 0
    CountMax = 3
INVARIANTS
    CapExcessBounded
PROPERTIES
    SilentClaimsMoveOn
    DoomedAreBlocked
