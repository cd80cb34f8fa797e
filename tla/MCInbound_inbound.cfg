SPECIFICATION Spec
CONSTANTS
    r1 = r1
    r2 = r2
    Slots <- TwoSlots
    MaxKey = 2
    Configs <- SomeConfigs
    TTL = 1
    DecisionTTL = 1
    RangeBits = 2
    MaxRequests = 3
    MaxTicks = 3
    MaxFaults = 1
INVARIANTS
    
    GrantedWasIssued
PROPERTIES
    RetiredKeyDiesOut
    StaleApprovalExpires
SYMMETRY SlotSymmetry
CHECK_DEADLOCK FALSE
