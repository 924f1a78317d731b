SPECIFICATION Spec
CONSTANTS
    a = a
    b = b
    c = c
    d = d
    v = v
    Nodes <- Devices
    Phones = {d}
    Neighbours <- Triangle
    Centrals <- CentralOf
    Virtual <- OneVirtual
    BITCHAT_MAX_HOPS = 3
    RELAY_DEDUP_SIZE = 1
    CACHE_TTL = 1
    Originators = {d}
    PhoneAnnounces <- SomeAnnounces
    MaxSends = 2
    MaxEvents = 1
CHECK_DEADLOCK FALSE
INVARIANT GenuineNotDropped
