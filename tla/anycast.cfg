SPECIFICATION Spec
CONSTANTS
    a = a
    b = b
    c = c
    sum = sum
    ALL = ALL
    Entity <- ThreeEntities
    Command <- OneCommand
    Caller <- OnlyA
    Server <- BandC
    CallType <- Anycast
    Result <- GoodOrBad
    Duplicates = FALSE
    MaxCalls = 2
    Restarting <- Nobody
    MaxRestart = 0
CHECK_DEADLOCK FALSE
INVARIANTS
    UnmatchedIsUnknown
