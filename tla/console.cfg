CONSTANTS
    NULL = NULL
    Unmapped = Unmapped
    name = name
    BITS = 8
    TICKETS = 3
    Strings <- MCStrings
    Messages <- MCMessages
    PanicMessage <- MCPanicMessage
SPECIFICATION Spec
PROPERTIES
    
    EveryCallEnds
    PanicHeard
CHECK_DEADLOCK FALSE
