SPECIFICATION Spec
CONSTANTS
    e1 = e1
    e2 = e2
    c1 = c1
    c2 = c2
    HELLO = HELLO
    BYE = BYE
    Entity <- TwoEntities
    Command <- TwoCommands
    Payload <- HelloOnly
    Nest <- Nowhere
    Initially <- All
    Changing <- None
    LongCallbacks = FALSE
    MaxRegister = 1
    MaxSend = 1
    MaxDepth = 1
INVARIANT FreedIsSilent
CHECK_DEADLOCK FALSE
