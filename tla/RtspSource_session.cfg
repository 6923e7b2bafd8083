CONSTANTS
    c1 = c1
    c2 = c2
    Clients <- TwoClients
    MAX_CACHE_NUMBER = 3
    PipeSize = 8
    Gop = 2
    MaxFrames = 7
    MaxExtras = 1
    MaxSources = 2
    MaxStarts = 3
SPECIFICATION FairSpec
CHECK_DEADLOCK FALSE
INVARIANT TypeOK
INVARIANT Announced
INVARIANT ListBound
INVARIANT FirstSourceSafe
PROPERTY Decodable
