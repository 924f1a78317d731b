SPECIFICATION Spec
CONSTANTS
    Hub = hub
    Centrals = {c1, c2}
    Virtual = virtual
    Nobody = nobody
    MAX_CONNECTIONS = 2
    RX_ROOM = 2
    MaxLinks = 2
    MaxEvents <- OneEach
SYMMETRY CentralSymmetry
INVARIANTS
    TypeOK
    SendKeysDistinct
    PrivateDelivery
    SessionOfConnection
CHECK_DEADLOCK FALSE
