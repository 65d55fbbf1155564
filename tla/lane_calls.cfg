CONSTANTS
    Relayers = {r1, r2}
    Payloads = {p1}
    NoMessage = NoMessage
    MaxNonce = 6
    MaxSourceNonce = 3
    MaxUnrewardedRelayers = 2
    MaxUnconfirmedMessages = 4
SPECIFICATION CallsSpec
INVARIANTS
    TargetCallMatches
    SourceConfirmationMatches
    SourcePruningMatches
CHECK_DEADLOCK FALSE
