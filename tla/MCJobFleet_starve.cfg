SPECIFICATION FairSpec
CONSTANTS
    t1 = t1
    t2 = t2
    w1 = w1
    m1 = m1
    m2 = m2
    c1 = c1
    c2 = c2
    NoTime = NoTime
    JobIds = {1, 2}
    Types <- TwoTypes
    Managers <- OneManager
    Workers <- OneWorker
    Clients <- OneClient
    HandlerTypes <- HandlesT1
    QueueBuffer = 1
    Retention = 1
    RetryDelay <- UnitDelay
    TicksPerMs = 1
    MaxTries = 2
    MaxAttemptLimit = 1
    MaxTime = 0
    MaxFaults = 0
    MaxStops = 0
PROPERTIES
    ServicesShareNamespace
