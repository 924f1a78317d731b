SPECIFICATION Spec
CONSTANTS
    Blocks <- PaddingBlocks
    BITCHAT_BLE_MTU = 512
    BITCHAT_MAX_FRAGMENTS = 4
    BITCHAT_FRAG_REASSEMBLY = 2
    FRAG_BUFFER = 1024
    FRAG_TIMEOUT = 0
    FRAG_OVERHEAD = 156
    PeerMtu = 509
    BridgePackets = {b1}
    PhonePackets = {p1, p2}
    Handles = {h1, h2}
    MsgIds = {x, y}
    Bodies <- BodySet
    PhoneForms <- PhoneFormSet
    PhoneChunks = {256}
    MaxRepeats = 1
    MaxTime = 1
SYMMETRY Symmetry
INVARIANTS TypeOK ReassembledWhole RepeatsNeedAll ArrivedIsHandedOn PaddingComesOff
PROPERTIES SlotsAreKept
CHECK_DEADLOCK FALSE
