SPECIFICATION Spec
CONSTANTS
    CLOCK_MOD = 6
    RETRY_BASE = 1
    RETRY_CAP = 3
    HANDSHAKE_TIMEOUT = 1
    MESH_HEARTBEAT = 2
    BRIDGE_NODEINFO_INTERVAL = 3
    RadioStates = {"up", "mute", "down"}
    SetupTime = 2
INVARIANTS FramesAreOfOneSession NodeInfoPrompt
PROPERTY Reconnects
