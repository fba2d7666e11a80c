SPECIFICATION Spec
CONSTANTS
    ann = ann
    bob = bob
    eve = eve
    a1 = a1
    a2 = a2
    a3 = a3
    s1 = s1
    s2 = s2
    NoAddress = NoAddress
    StakingAddress = StakingAddress
    NoSubgraph = NoSubgraph
    MaxBlock = 1
    MaxEpoch = 3
    CounterSize = 16
    Contracts = {}
    Accounts = {ann, eve}
    Indexers = {ann}
    Delegators = {}
    AllocationIDs = {a1, a2}
    Subgraphs = {s1}
    AllocationKeys <- AllKeys
    InitialGRT <- AllocationGRT
    InitialParams <- WholeStakeParams
    InitialSlashers = {}
    InitialAssetHolders = {eve}
    StakeAmounts = {5}
    DelegateAmounts = {}
    AllocateAmounts = {1, 2}
    ShareAmounts = {}
    FeeAmounts = {2}
    RewardAmounts = {}
    CutChoices = {}
    CooldownChoices = {}
    Operators = {}
    Destinations = {}
    SettingChoices <- DisputeChoices
    RatioChoices <- AlphaTwo
    RoleChoices = {}
    PauseChoices = {"paused", "partialPaused"}
INVARIANTS
    TotalsAddUp
    RebatesSound
    ClaimsOpen
PROPERTIES
    AllocationLifecycle
    FinalFeesFrozen
    PauseRespected
SYMMETRY A1AndA2
\* The modelled chain ends with block MaxBlock.
CHECK_DEADLOCK FALSE
