SPECIFICATION Spec
CONSTANTS
    ann = ann
    bob = bob
    eve = eve
    a1 = a1
    a2 = a2
    a3 = a3
    s1 = s1
    s2 = s2
    NoAddress = NoAddress
    StakingAddress = StakingAddress
    NoSubgraph = NoSubgraph
    MaxBlock = 1
    MaxEpoch = 2
    CounterSize = 16
    Contracts = {}
    Accounts = {ann, bob, eve}
    Indexers = {ann, bob}
    Delegators = {bob, eve}
    AllocationIDs = {a1}
    Subgraphs = {s1}
    AllocationKeys <- AnnKeys
    InitialGRT <- EveryoneThree
    InitialParams <- TaxedParams
    InitialSlashers = {}
    InitialAssetHolders = {}
    StakeAmounts = {3}
    DelegateAmounts = {3}
    AllocateAmounts = {2}
    ShareAmounts = {2}
    FeeAmounts = {}
    RewardAmounts = {1}
    CutChoices = {0}
    CooldownChoices = {0}
    Operators = {}
    Destinations = {bob}
    SettingChoices <- NoChoices
    RatioChoices = {}
    RoleChoices = {}
    PauseChoices = {}
INVARIANTS
    TotalsAddUp
    PoolCoversShares
PROPERTIES
    SharePriceNeverDrops
    VaultsKept
\* The modelled chain ends with block MaxBlock.
CHECK_DEADLOCK FALSE
