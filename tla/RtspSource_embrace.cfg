CONSTANTS
    c1 = c1
    c2 = c2
    Clients <- OneClient
    MAX_CACHE_NUMBER = 3
    PipeSize = 2
    Gop = 2
    MaxFrames = 6
    MaxExtras = 1
    MaxSources = 1
    MaxStarts = 3
SPECIFICATION FairSpec
CHECK_DEADLOCK FALSE
PROPERTY PushReturns
