SPECIFICATION Spec
CONSTANTS
    Null = Null
    Script = Script
    Nobody = Nobody
    w1 = w1
    w2 = w2
    Workers <- TwoWorkers
    SLOT_MASK = 1
    GEN_MAX = 7
    Kinds = {"DATA_CHANNEL", "E_CHANNEL_OPEN"}
    Sizes = {0}
    States = {0}
    MAX_MESSAGE = 1
    MaxQueueEvents = 20
    MaxQueueBytes = 100
    BaseCost = 1
    EntryHeader = 1
    DrainCap = 30
    MaxRtcId = 3
    MaxPeers = 2
    MaxFires = 1
SYMMETRY Symmetry
INVARIANTS
    TypeOK
    LockDiscipline
    MapsAgree
    NoLeak
    NoOrphanEntry
    HandleFirst
    OpenOnce
PROPERTIES
    NothingAfterFree
    QuietDelete
