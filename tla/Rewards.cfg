SPECIFICATION RewardsSpec
CONSTANTS
    ann = ann
    bob = bob
    eve = eve
    a1 = a1
    a2 = a2
    a3 = a3
    s1 = s1
    s2 = s2
    NoAddress = NoAddress
    StakingAddress = StakingAddress
    NoSubgraph = NoSubgraph
    MaxBlock = 2
    MaxEpoch = 1
    CounterSize = 16
    Contracts = {}
    Accounts = {ann, eve}
    Indexers = {ann}
    Delegators = {}
    AllocationIDs = {a1, a2}
    Subgraphs = {s1, s2}
    AllocationKeys <- AnnKeys
    InitialGRT <- TwoToStake
    InitialParams <- RewardedParams
    InitialSlashers = {}
    InitialAssetHolders = {eve}
    StakeAmounts = {2}
    DelegateAmounts = {}
    AllocateAmounts = {1}
    ShareAmounts = {}
    FeeAmounts = {1}
    RewardAmounts = {}
    CutChoices = {}
    CooldownChoices = {}
    Operators = {}
    Destinations = {}
    SettingChoices <- NoChoices
    RatioChoices = {}
    RoleChoices = {}
    PauseChoices = {}
    CurationAddress = CurationAddress
    Curators = {cat}
    SignalPerMinimumDeposit = 1
    InitialCuratorGRT <- CuratorsTwo
    InitialCurationParams <- LinearParams
    SignalDeposits = {1}
    SignalAmounts = {2}
    SlippageBounds = {0}
    CurationFeeAmounts = {}
    MaxCurationGRT = 0
    CurationSettingChoices <- SameTax
    TokenDecimals = 4
    InitialIssuanceRate = 8
    InitialOracle = eve
    IssuanceRates = {3, 4}
    OracleChoices = {eve}
    DenyChoices = {s1}
    CallBlocks = {1}
    cat = cat
INVARIANTS
    RewardsCovered
PROPERTIES
    RewardableWhileActive
    AccrualSound
SYMMETRY A1AndA2
\* The modelled chain ends with block MaxBlock.
CHECK_DEADLOCK FALSE
