SPECIFICATION Spec
CONSTANTS
    r1 = r1
    r2 = r2
    Slots <- TwoSlots
    Configs <- AllConfigs
    Inputs <- AllInputs
    IdKeys <- Ids
CHECK_DEADLOCK FALSE
INVARIANTS
    TenantSeenAlike
    
    
    MiddlewareKeepApart
