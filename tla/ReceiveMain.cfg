\* Four messages; a buffer of two messages and a volume of three, a channel of one.
SPECIFICATION Spec
CONSTANTS
    Message <- MCMessage
    Priority <- MCPriority
    Size <- MCSize
    Round <- MCRound
    ChannelSize = 1
    Capacity = 2
    Volume = 3
INVARIANTS
    MemUseCovers
PROPERTIES
    Refinement
    RegistrationTakesAll
    ReceivingGoesOn
CHECK_DEADLOCK FALSE
