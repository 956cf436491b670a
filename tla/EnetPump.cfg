SPECIFICATION FairSpec
CONSTANTS
    Null = Null
    SLOT_MASK = 0
    GEN_MAX = 3
    HostIds = {1, 2}
    PeerSlots = {1, 2}
    Sizes = {2, 3}
    MAX_MESSAGE = 2
    CtlSize = 1
    DrainCap = 1
    MaxTries = 4
    MaxInits = 2
    MaxConns = 2
    MaxRecvs = 1
    MaxStarts = 1
INVARIANTS
    TypeOK
    Backlinks
    Lossless
    OneStory
PROPERTIES
    GoodbyeHeard
