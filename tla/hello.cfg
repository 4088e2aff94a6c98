SPECIFICATION Spec
CONSTANTS
    s = s
    w = w
    Entity <- Pair
    Announcer <- OnlyS
    Watcher <- OnlyW
    OtherCount <- FewOrMany
    Lossy = TRUE
    Traffic = TRUE
    MaxLate = 1
    MaxRuns = 2
    MaxCount = 7
INVARIANTS
    TypeOK
    EntriesAreFresh
    StaleEndpointsAreRecent
PROPERTY
    SilenceBeforeLoss
