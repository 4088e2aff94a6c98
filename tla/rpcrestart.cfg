SPECIFICATION Spec
CONSTANTS
    a = a
    b = b
    c = c
    sum = sum
    ALL = ALL
    Entity <- ThreeEntities
    Command <- OneCommand
    Caller <- OnlyA
    Server <- BandC
    CallType <- Anycast
    Result <- JustBad
    Duplicates = TRUE
    MaxCalls = 1
    Restarting <- AandB
    MaxRestart = 1
CHECK_DEADLOCK FALSE
INVARIANTS
    TypeOK
    AnsweredOnce
    OutstandingOrAnswered
