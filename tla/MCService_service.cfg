SPECIFICATION FairSpec
CONSTANTS
    A = A
    B = B
    a1 = a1
    b1 = b1
    b2 = b2
    q1 = q1
    q2 = q2
    bye = bye
    garbage = garbage
    quiet = quiet
    Procs <- TwoProcs
    MaxFaults = 2
    MaxRelease = 2
    Codes <- ThreeCodes
    ServiceOf <- Owner
    Defines <- Catalogues
    RoleDefs <- Definitions
    Roles <- TwoRoles
    Events <- ThreeEvents
    Garbage = garbage
    QueueSize = 1
    Configs <- SomeConfigs
    Requests <- TwoRequests
    AppHooks <- OnShutdown
    SetupHooks <- SetupShutdown
    Quiet = quiet
    BufferSize = 2
CHECK_DEADLOCK FALSE
INVARIANTS
    ConfigOfTheStart
    
    AuditAccounted
    ShutdownInOrder
    LogsAccounted
PROPERTIES
    EverythingSettles
