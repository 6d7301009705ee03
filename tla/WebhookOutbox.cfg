SPECIFICATION FairSpec
CONSTANTS
    Deliveries = {1, 2}
    Hooks = {h1}
    Plugins = {g1}
    HookWorkers = {v1}
    PluginWorkers = {w1}
    QueueLength = 1
    Batch = 2
    Lease = 3
    MaxAttempts = 2
    Backoff <- Waits
    MaxSwitches = 1
    MaxTrouble = 2
    None = None
INVARIANTS
    OneSender
    OneAtATime
    RepeatsForCause
    GoneForCause
PROPERTIES
    ImplementsPromise
    Delivered
CHECK_DEADLOCK FALSE
