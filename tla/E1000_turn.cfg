CONSTANTS
    TXDESCS = 3
    RXDESCS = 4
    MaxSent = 3
    MaxReceived = 5
    None = None
SPECIFICATION Spec
CHECK_DEADLOCK FALSE
INVARIANTS
    ReceivedInOrder
