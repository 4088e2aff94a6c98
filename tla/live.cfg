SPECIFICATION FairSpec
CONSTANTS
    a = a
    b = b
    c = c
    Entity <- TwoEntities
    ALL = ALL
    NoEntity = NoEntity
    MULTICAST = MULTICAST
    SendUnicast = TRUE
    ReliableSender <- OnlyA
    PlainDest <- ToEach
    PlainKind <- JustBye
    Duplicates = FALSE
    MaxSeq = 2
    MaxAckSeq = 4
    MaxRestart = 0
    MaxLoss = 1
CHECK_DEADLOCK FALSE
PROPERTIES
    AcksLeave
    ImplementsReliableService
    DeliveredUnlessLost
