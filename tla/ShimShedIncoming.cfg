SPECIFICATION Spec
CONSTANTS
    Null = Null
    Script = Script
    Nobody = Nobody
    w1 = w1
    w2 = w2
    Workers <- OneWorker
    SLOT_MASK = 0
    GEN_MAX = 7
    Kinds = {"DATA_CHANNEL", "E_CHANNEL_OPEN", "E_STATE_CHANGE"}
    Sizes = {0}
    States = {0}
    MAX_MESSAGE = 1
    MaxQueueEvents = 1
    MaxQueueBytes = 4
    BaseCost = 1
    EntryHeader = 1
    DrainCap = 4
    MaxRtcId = 2
    MaxPeers = 2
    MaxFires = 3
INVARIANT
    HandleAlwaysFirst
