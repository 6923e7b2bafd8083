CONSTANTS
    c1 = c1
    c2 = c2
    Clients <- OneClient
    MAX_CACHE_NUMBER = 3
    PipeSize = 7
    Gop = 2
    MaxFrames = 6
    MaxExtras = 0
    MaxSources = 2
    MaxStarts = 3
SPECIFICATION FairSpec
CHECK_DEADLOCK FALSE
INVARIANT NoNullDereference
