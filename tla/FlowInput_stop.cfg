CONSTANTS
    p1 = p1
    p2 = p2
    p3 = p3
    Producers = {p1}
    NumSlots = 1
    Target <- OneSlot
    MaxCacheNum <- MaxOne
    Mode <- Blocking
    FetchBlock <- AllFetchBlock
    MaxSends = 2
    Spurious = FALSE
    TornSizeRead = FALSE
SPECIFICATION FairSpec
CHECK_DEADLOCK FALSE
PROPERTY StopEnds
