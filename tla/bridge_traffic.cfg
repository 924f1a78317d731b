SPECIFICATION TrafficSpec
CONSTANTS
    MeshUsers = {u1}
    MeshNames = {"Ann"}
    Phones = {p1, p2}
    ShortTexts = {t1}
    LongTexts = {t2}
    HeapLevels = {2, 3}
    LinkStates = {TRUE, FALSE}
    CLOCK_MOD = 100
    VIRT_ID_MAX_SLOTS = 1
    VIRT_ID_TIMEOUT = 9
    VIRT_ID_HEAP_RESERVE = 2
    VIRT_ID_HEAP_CRITICAL = 1
    DEDUP_CACHE_SIZE = 5
    DEDUP_TTL = 2
    BITCHAT_ANNOUNCE_INTERVAL = 9
    VIRTUAL_ANNOUNCE_STAGGER = 1
    VIRT_ID_MEMORY_CHECK = 9
    CHUNKS = 2
    BRIDGE_CHUNK_DELAY = 1
    MaxTime = 3
    MaxMessages = 3
PROPERTIES SkipsOnlyRepeats ForwardsOnce ChunksInOrder
