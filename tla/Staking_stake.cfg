SPECIFICATION FairSpec
CONSTANTS
    ann = ann
    bob = bob
    eve = eve
    a1 = a1
    a2 = a2
    a3 = a3
    s1 = s1
    s2 = s2
    NoAddress = NoAddress
    StakingAddress = StakingAddress
    NoSubgraph = NoSubgraph
    MaxBlock = 4
    MaxEpoch = 1
    CounterSize = 16
    Contracts = {}
    Accounts = {ann, eve}
    Indexers = {ann}
    Delegators = {}
    AllocationIDs = {a1}
    Subgraphs = {s1}
    AllocationKeys <- AllKeys
    InitialGRT <- AnnOnly
    InitialParams <- BaseParams
    InitialSlashers = {eve}
    InitialAssetHolders = {}
    StakeAmounts = {1, 2, 3}
    DelegateAmounts = {}
    AllocateAmounts = {2}
    ShareAmounts = {}
    FeeAmounts = {}
    RewardAmounts = {}
    CutChoices = {}
    CooldownChoices = {}
    Operators = {eve}
    Destinations = {}
    SettingChoices <- StakeChoices
    RatioChoices = {}
    RoleChoices = {eve}
    PauseChoices = {}
INVARIANTS
    StakesSound
    IndexersCanLeave
PROPERTIES
    NoEarlyThaw
    ThawingEnds
\* The modelled chain ends with block MaxBlock.
CHECK_DEADLOCK FALSE
