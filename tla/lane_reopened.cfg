CONSTANTS
    r1 = r1
    p1 = p1
    Relayers = {r1}
    Payloads = {p1}
    NoMessage = NoMessage
    MaxNonce = 2
    MaxUnrewardedRelayers = 2
    MaxUnconfirmedMessages = 2
    HeadersToKeep = 2
    CongestedThreshold = 1
    UncongestedThreshold = 0
    MaxLifetimes = 2
SPECIFICATION CoordinatedSpec
INVARIANTS
    ReceivedByBridgedChain
CHECK_DEADLOCK FALSE
