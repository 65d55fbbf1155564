CONSTANTS
    p1 = p1
    p2 = p2
    MaxNumber = 5
    ChangeAt <- MCChangeAt
    HeadersToKeep = 3
    MaxFreeHeadersPerBlock = 2
    FreeHeadersIntervals = {2, NoInterval}
    NoInterval = NoInterval
    NoHeader = NoHeader
    MaxForced = 1
    Paras = {p1, p2}
    HeadAt <- MCHeadAt
    HeadSize <- MCHeadSize
    HeadsToKeep = 2
SPECIFICATION Spec
INVARIANTS
    BestHeaderIsStored
