SPECIFICATION Spec
CONSTANTS
    Null = Null
    Script = Script
    Nobody = Nobody
    w1 = w1
    w2 = w2
    Workers <- OneWorker
    SLOT_MASK = 0
    GEN_MAX = 7
    Kinds = {"DATA_CHANNEL", "E_STATE_CHANGE", "E_MESSAGE"}
    Sizes = {0, 2}
    States = {0, 1}
    MAX_MESSAGE = 1
    MaxQueueEvents = 2
    MaxQueueBytes = 4
    BaseCost = 1
    EntryHeader = 1
    DrainCap = 4
    MaxRtcId = 2
    MaxPeers = 2
    MaxFires = 3
INVARIANTS
    QueueAccounts
    ShedAccounted
    ShadowTruth
PROPERTIES
    FIFO
