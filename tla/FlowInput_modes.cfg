CONSTANTS
    p1 = p1
    p2 = p2
    p3 = p3
    Producers = {p1, p2, p3}
    NumSlots = 2
    Target <- TwoSlots
    MaxCacheNum <- MaxOneTwo
    Mode <- BlockingDropFront
    FetchBlock <- AllFetchBlock
    MaxSends = 3
    Spurious = TRUE
    TornSizeRead = FALSE
SPECIFICATION Spec
CHECK_DEADLOCK FALSE
SYMMETRY Symmetry
INVARIANT TypeOK
INVARIANT QueueBound
INVARIANT InOrder
INVARIANT Lossless
INVARIANT NewestKept
INVARIANT WholeInputs
INVARIANT SafeToDestroy
PROPERTY Implements
