SPECIFICATION Spec
CONSTANTS
    a = a
    b = b
    c = c
    Entity <- TwoEntities
    ALL = ALL
    NoEntity = NoEntity
    MULTICAST = MULTICAST
    SendUnicast = TRUE
    ReliableSender <- OnlyA
    PlainDest <- Nobody
    PlainKind <- JustApp
    Duplicates = FALSE
    MaxSeq = 2
    MaxAckSeq = 2
    MaxRestart = 1
    MaxLoss = 0
CHECK_DEADLOCK FALSE
INVARIANTS
    TypeOK
    SeqIdentifiesPacket
    AcksTruthful
    NoAckForgotten
    SettledOnce
