CONSTANTS
    TXDESCS = 3
    RXDESCS = 4
    MaxSent = 7
    MaxReceived = 7
    None = None
SPECIFICATION Spec
CHECK_DEADLOCK FALSE
INVARIANTS
    FramesInOrder
PROPERTIES
    FramesAreSent
