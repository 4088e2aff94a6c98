SPECIFICATION Spec
CONSTANTS
    p1 = p1
    p2 = p2
    k1 = k1
    k2 = k2
    h4 = h4
    h6 = h6
    Missing = Missing
    Digits <- DigitWords
    Negative <- NegativeWords
    Decimal <- DecimalWords
    Upper <- UpperWords
    Lower <- LowerWords
    Alnum <- AlnumWords
    Rank <- Ranks
    Fixed <- PrintedAs
    Whole <- WholeOf
    CommaLocale = FALSE
    Clock = "47000"
    HashKey <- TwoKeys
    Host <- Hosts
    Port <- Ports
    Process <- TwoProcesses
    Files <- FilesOf
    AddressText <- Addresses
    Id <- Ids
    Draft <- Drafts
    Leaving <- OnlyTwo
    Foreign <- ForeignTexts
    MaxText <- Longest
    MaxSend = 2
INVARIANTS
    TypeOK
    SessionsAreSeparate
    EqualSessionsUnderstand
    HeardAsSent
    KnownByOneAddress
    OnlyUnsafeIsUndefined
    
CHECK_DEADLOCK FALSE
