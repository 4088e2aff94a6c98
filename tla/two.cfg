SPECIFICATION Spec
CONSTANTS
    a = a
    b = b
    c = c
    Entity <- TwoEntities
    ALL = ALL
    NoEntity = NoEntity
    MULTICAST = MULTICAST
    SendUnicast = TRUE
    ReliableSender <- AandB
    PlainDest <- ToEachAndAll
    PlainKind <- JustApp
    Duplicates = TRUE
    MaxSeq = 2
    MaxAckSeq = 3
    MaxRestart = 0
    MaxLoss = 0
CHECK_DEADLOCK FALSE
SYMMETRY Symmetry
INVARIANTS
    NoAckForgotten
    AcksTruthful
    SettledOnce
    AckedWasDelivered
PROPERTIES
    ImplementsReliableDelivery
