CONSTANTS
    Relayers = {r1, r2}
    Registering = {r1}
    MaxUnrewardedRelayers = 2
    MaxUnconfirmedMessages = 3
    RequiredStakes = {1, 2}
    RequiredLease = 0
    Balance = 2
    Endowment = 1
    MaxBlock = 3
    MaxNonce = 3
    MaxPool = 2
SPECIFICATION Spec
INVARIANTS
    StakesAreReserved
    BoostedIsAtStake
    RewardedIffRoom
PROPERTIES
    OnlyMissingAccountStrandsStake
