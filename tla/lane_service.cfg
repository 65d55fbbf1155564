CONSTANTS
    r1 = r1
    r2 = r2
    p1 = p1
    p2 = p2
    Relayers = {r1, r2}
    Payloads = {p1, p2}
    NoMessage = NoMessage
    MaxNonce = 3
    MaxUnrewardedRelayers = 2
    MaxUnconfirmedMessages = 2
    HeadersToKeep = 2
    CongestedThreshold = 2
    UncongestedThreshold = 0
    MaxMessagesInSingleBatch = 2
SPECIFICATION FairSpec
INVARIANTS
    SelectedCallsAreUseful
    TypeOK
    NonceOrder
    ExactlyOnceInOrder
    RewardsExact
    ProofsNeverRejected
    UnrewardedEntriesCoverUnconfirmed
PROPERTIES
    EverySentIsConfirmed
    ImplementsFairChannel
