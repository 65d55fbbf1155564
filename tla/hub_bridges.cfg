CONSTANTS
    b1 = b1
    b2 = b2
    o1 = o1
    Payloads = {payload}
    NoMessage = NoMessage
    MaxNonce = 2
    BridgeIds = {b1, b2}
    Owners = {o1}
    OwnerOf <- MCOwnerOf
    Versions = {4}
    Deposits = {0, 2}
    Balance = 3
    Nobody = Nobody
    CongestedThreshold = 1
    UncongestedThreshold = 0
    MaxUnderWay = 1
    MaxReports = 1
    MaxFactor = 1
    MaxFailures = 1
SPECIFICATION HubSpec
INVARIANTS
    TryState
    DepositsBackBridges
    StateFollowsQueue
    RouterKnowsState
PROPERTIES
    FeeFollowsBridge
SYMMETRY BridgesAlike
