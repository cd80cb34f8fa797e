SPECIFICATION FairSpec
CONSTANTS
    c1 = c1
    c2 = c2
    Callers <- TwoCallers
    Options <- SomeOptions
    Threshold = 2
    MaxRequests = 1
    Answers <- Lifetimes
    DefaultLifetime = 2
    Margin = 1
    RefreshBuffer = 1
    MaxFaults = 2
    MaxRevocations = 1
    MaxTicks = 1
INVARIANTS
    OutboundInv
    
    FetchesHaveACause
    BreakerTripsOnServerFailures
PROPERTIES
    EveryCallReturns
