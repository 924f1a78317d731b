SPECIFICATION HSpec
SYMMETRY UserSymmetry
CONSTANTS
    MeshUsers = {u1, u2, u3}
    MeshNames = {"Ann"}
    Phones = {}
    ShortTexts = {t1}
    LongTexts = {}
    HeapLevels = {0, 2, 3}
    LinkStates = {TRUE}
    CLOCK_MOD = 100
    VIRT_ID_MAX_SLOTS = 2
    VIRT_ID_TIMEOUT = 2
    VIRT_ID_HEAP_RESERVE = 2
    VIRT_ID_HEAP_CRITICAL = 1
    DEDUP_CACHE_SIZE = 1
    DEDUP_TTL = 1
    BITCHAT_ANNOUNCE_INTERVAL = 1
    VIRTUAL_ANNOUNCE_STAGGER = 1
    VIRT_ID_MEMORY_CHECK = 1
    CHUNKS = 2
    BRIDGE_CHUNK_DELAY = 1
    MaxTime = 5
    MaxMessages = 4
INVARIANTS TypeOK OneIdentityPerUser PeersSeeRegistry
PROPERTIES AnnouncedBeforeSpeaking EvictsLeastRecent CycleAnnouncesAll
