CONSTANTS
    d1 = d1
    d2 = d2
    Down <- TwoFlows
    NumFrames = 1
    LoopTime = 0
    MaxAttach = 1
SPECIFICATION FairSpec
CHECK_DEADLOCK FALSE
PROPERTY DestroyEnds
