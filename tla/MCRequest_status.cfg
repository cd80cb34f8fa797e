SPECIFICATION Spec
CONSTANTS
    r1 = r1
    r2 = r2
    Slots <- TwoSlots
    Configs <- StatusOnly
    Inputs <- AllInputs
    IdKeys <- Ids
INVARIANT
    TenantStatusIsEnforced
CHECK_DEADLOCK FALSE
