SPECIFICATION Spec
CONSTANTS
    RX_QUEUE_SIZE = 4
    MaxArrivals = 8
    Completing <- MCQuiet
    Oversized <- MCQuietOversized
INVARIANTS TypeOK EntryNotOverwritten HandledInOrder
PROPERTIES ImplementsFifo AcceptedIsHandled
CHECK_DEADLOCK FALSE
