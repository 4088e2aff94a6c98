SPECIFICATION Spec
CONSTANTS
    e1 = e1
    e2 = e2
    c1 = c1
    c2 = c2
    HELLO = HELLO
    BYE = BYE
    Entity <- TwoEntities
    Command <- TwoCommands
    Payload <- Payloads
    Nest <- Handlers
    Initially <- AllOrNone
    Changing <- ErrorOnly
    LongCallbacks = FALSE
    MaxRegister = 2
    MaxSend = 1
    MaxDepth = 2
INVARIANTS
    TypeOK
    NoDanglingUse
    TimersMatchTables
    ToldTheTruth
    FirstRegistrationServes
    SettledOnce
SYMMETRY Symmetry
CHECK_DEADLOCK FALSE

