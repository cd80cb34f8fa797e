SPECIFICATION Spec
CONSTANTS
    t1 = t1
    t2 = t2
    w1 = w1
    w2 = w2
    NoTime = NoTime
    JobIds = {1, 2}
    Types <- TwoTypes
    Workers <- TwoWorkers
    QueueBuffer = 1
    Retention = 1
    AllowEnqueueWithoutHandler = TRUE
    MaxStarts = 1
    MaxTime = 1
    MaxAttemptLimit = 1
    RetryDelay <- UnitDelay
INVARIANTS
    SingleHolder
    DispatcherNeverBlocks
PROPERTIES
    NeverClaimedEarly
    ImplementsLifecycle
