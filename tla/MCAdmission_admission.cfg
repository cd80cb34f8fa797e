SPECIFICATION Spec
CONSTANTS
    r1 = r1
    r2 = r2
    Slots <- TwoSlots
    Chains <- OneGate
    Kinds <- SomeKinds
    BlockedStatuses = {"suspended", "cancelled", "inactive"}
    Burst = 1
    Interval = 1
    TTL = 2
    FailOpen = FALSE
    MaxRequests = 5
    MaxTicks = 4
    MaxDay = 2
INVARIANTS
    
    
    OverrunHasACause
SYMMETRY SlotSymmetry
CHECK_DEADLOCK FALSE
