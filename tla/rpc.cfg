SPECIFICATION FairSpec
CONSTANTS
    a = a
    b = b
    c = c
    sum = sum
    ALL = ALL
    Entity <- ThreeEntities
    Command <- OneCommand
    Caller <- OnlyA
    Server <- BandC
    CallType <- AnyType
    Result <- GoodOrBad
    Duplicates = FALSE
    MaxCalls = 2
    Restarting <- Nobody
    MaxRestart = 0
CHECK_DEADLOCK FALSE
INVARIANTS
    AnswersOwnCall
    OutstandingOrAnswered
PROPERTIES
    ImplementsRPCService
    CallsComplete
