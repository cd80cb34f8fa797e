SPECIFICATION FairSpec
CONSTANTS
    t1 = t1
    t2 = t2
    w1 = w1
    w2 = w2
    NoTime = NoTime
    JobIds = {1}
    Types <- OneType
    Workers <- OneWorker
    QueueBuffer = 1
    Retention = 1
    AllowEnqueueWithoutHandler = TRUE
    MaxStarts = 2
    MaxTime = 0
    MaxAttemptLimit = 2
    RetryDelay <- NoDelay
INVARIANTS
    IInv
PROPERTIES
    EveryJobSettles
    StopReturns
