SPECIFICATION Spec
CONSTANTS
    a = a
    b = b
    c = c
    Entity <- ThreeEntities
    ALL = ALL
    NoEntity = NoEntity
    MULTICAST = MULTICAST
    SendUnicast = TRUE
    ReliableSender <- AandB
    PlainDest <- Nobody
    PlainKind <- JustApp
    Duplicates = FALSE
    MaxSeq = 2
    MaxAckSeq = 2
    MaxRestart = 0
    MaxLoss = 0
CHECK_DEADLOCK FALSE
INVARIANT AckedWasDelivered
