CONSTANTS
    o1 = o1
    o2 = o2
    o3 = o3
    Origins = {o1, o2, o3}
    NoOrigin = NoOrigin
    MessageWeights = {1, 3}
    HeapSize = 2
    MaxStale = 1
    MaxServiceWeight = 6
    Limits = {4, 8}
    BumpWeight = 1
    QueueWeight = 1
    PageWeight = 1
    ItemWeight = 1
    MaxMessages = 4
SYMMETRY Symmetry
SPECIFICATION Spec
INVARIANTS
    ExactlyOnceInQueueOrder
    RingIsSound
PROPERTIES
    TurnsComeRound
