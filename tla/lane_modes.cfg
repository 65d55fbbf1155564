CONSTANTS
    r1 = r1
    r2 = r2
    p1 = p1
    p2 = p2
    Relayers = {r1, r2}
    Payloads = {p1, p2}
    NoMessage = NoMessage
    MaxNonce = 2
    MaxUnrewardedRelayers = 2
    MaxUnconfirmedMessages = 2
    HeadersToKeep = 2
    CongestedThreshold = 1
    UncongestedThreshold = 0
SYMMETRY Symmetry
SPECIFICATION Spec
INVARIANTS
    IndInv
    NothingLost
    PrunedBelowOldest
    NoTraces
PROPERTIES
    ImplementsChannel
    ClosedBridgeStaysClosed
