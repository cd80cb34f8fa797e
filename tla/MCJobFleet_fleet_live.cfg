SPECIFICATION FairSpec
CONSTANTS
    t1 = t1
    t2 = t2
    w1 = w1
    m1 = m1
    m2 = m2
    c1 = c1
    c2 = c2
    NoTime = NoTime
    JobIds = {1}
    Types <- OneType
    Managers <- TwoManagers
    Workers <- OneWorker
    Clients <- OneClient
    HandlerTypes <- HandlesT1
    QueueBuffer = 1
    Retention = 3
    RetryDelay <- UnitDelay
    TicksPerMs = 2
    MaxTries = 2
    MaxAttemptLimit = 2
    MaxTime = 4
    MaxFaults = 0
    MaxStops = 1
PROPERTIES
    SurvivorsFinish
    NeverAMillisecondEarly
    RetainedToTheMillisecond
