SPECIFICATION Spec
CONSTANTS
    RX_QUEUE_SIZE = 4
    MaxArrivals = 5
    Completing <- MCBusy
    Oversized <- MCNone
INVARIANT HandledInOrder
CHECK_DEADLOCK FALSE
