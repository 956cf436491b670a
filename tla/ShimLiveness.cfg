SPECIFICATION FairSpec
CONSTANTS
    Null = Null
    Script = Script
    Nobody = Nobody
    w1 = w1
    w2 = w2
    Workers <- OneWorker
    SLOT_MASK = 0
    GEN_MAX = 7
    Kinds = {"DATA_CHANNEL", "E_BUFFERED_LOW"}
    Sizes = {2}
    States = {0}
    MAX_MESSAGE = 2
    MaxQueueEvents = 1
    MaxQueueBytes = 4
    BaseCost = 1
    EntryHeader = 1
    DrainCap = 4
    MaxRtcId = 3
    MaxPeers = 1
    MaxFires = 0
PROPERTIES
    CallsReturn
    OrphansReaped
    QueueDrains
