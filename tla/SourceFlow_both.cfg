CONSTANTS
    d1 = d1
    d2 = d2
    Down <- TwoFlows
    NumFrames = 2
    LoopTime = 1
    MaxAttach = 3
SPECIFICATION FairSpec
CHECK_DEADLOCK FALSE
INVARIANT TypeOK
INVARIANT OneLateFrame
INVARIANT SleeperIsWoken
INVARIANT AllFrames
PROPERTY NoGap
PROPERTY ReaderStarts
PROPERTY StreamDestroyEnds
