CONSTANTS
    Us = us
    Other = other
    Relayers = {us, other}
    None = None
    MaxMessages = 3
    MaxSourceBlocks = 3
    MaxFaults = 1
    MaxPool = 1
    MaxUnrewardedRelayers = 1
    MaxUnconfirmedMessages = 2
    MaxMessagesInSingleBatch = 1
SPECIFICATION RaceSpec
INVARIANTS
    StartsAtNextNonce
    WitnessedAtProvedBlock
PROPERTIES
    SelectionIsUseful
    NeverWaitsInVain
