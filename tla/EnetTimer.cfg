SPECIFICATION Spec
CONSTANTS
    Null = Null
    SLOT_MASK = 0
    GEN_MAX = 2
    HostIds = {1}
    PeerSlots = {1, 2}
    Sizes = {2, 3}
    MAX_MESSAGE = 2
    CtlSize = 1
    DrainCap = 1
    MaxTries = 4
    MaxInits = 1
    MaxConns = 2
    MaxRecvs = 1
    MaxStarts = 2
INVARIANTS
    OneTimer
