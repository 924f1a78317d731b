SPECIFICATION Spec
CONSTANTS
    Hub = hub
    Centrals = {c1}
    Virtual = virtual
    Nobody = nobody
    MAX_CONNECTIONS = 2
    RX_ROOM = 2
    MaxLinks = 3
    MaxEvents <- TwoEach
INVARIANT ReceiverNotAhead
CHECK_DEADLOCK FALSE
