SPECIFICATION Spec
CONSTANTS
    Null = Null
    Objects = {o1}
    SLOT_MASK = 2
    GEN_MAX = 3
    MaxFrees = 4
INVARIANTS
    TypeOK
    FreeListExact
    StaleWithinCycle
