SPECIFICATION Spec
CONSTANTS
    t1 = t1
    t2 = t2
    w1 = w1
    m1 = m1
    m2 = m2
    c1 = c1
    c2 = c2
    NoTime = NoTime
    JobIds = {1}
    Types <- TwoTypes
    Managers <- TwoManagers
    Workers <- OneWorker
    Clients <- TwoClients
    HandlerTypes <- HandlesT1
    QueueBuffer = 1
    Retention = 1
    RetryDelay <- UnitDelay
    TicksPerMs = 1
    MaxTries = 1
    MaxAttemptLimit = 2
    MaxTime = 1
    MaxFaults = 1
    MaxStops = 1
SYMMETRY FleetSymmetry
INVARIANTS
    FleetInv
    ReportNeverConflicts
PROPERTIES
    OrphansStay
    ImplementsLifecycle
