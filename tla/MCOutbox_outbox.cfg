SPECIFICATION FairSpec
CONSTANTS
    r1 = r1
    r2 = r2
    p1 = p1
    p2 = p2
    Records <- TwoRecords
    Processors <- TwoProcessors
    RawOptions <- SomeOptions
    Defaults <- SmallDefaults
    MaxFaults = 2
INVARIANTS
    OutboxInv
    DuplicatesHaveACause
PROPERTIES
    BackoffCountsFromTheStart
    EveryRecordDelivered
