CONSTANTS
    p1 = p1
    p2 = p2
    p3 = p3
    Producers = {p1, p3}
    NumSlots = 2
    Target <- TwoSlots
    MaxCacheNum <- MaxOne
    Mode <- BlockingDropCurrent
    FetchBlock <- FirstFetchBlocks
    MaxSends = 3
    Spurious = FALSE
    TornSizeRead = TRUE
SPECIFICATION FairSpec
CHECK_DEADLOCK FALSE
INVARIANT OneProducerBound
INVARIANT FetchAssert
PROPERTY Processed
PROPERTY SendReturns
