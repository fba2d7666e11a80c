SPECIFICATION DisputeSpec
CONSTANTS
    ann = ann
    bob = bob
    eve = eve
    a1 = a1
    a2 = a2
    a3 = a3
    s1 = s1
    s2 = s2
    NoAddress = NoAddress
    StakingAddress = StakingAddress
    NoSubgraph = NoSubgraph
    MaxBlock = 1
    MaxEpoch = 0
    CounterSize = 16
    Contracts = {DisputeManagerAddress}
    Accounts = {ann, bob}
    Indexers = {ann, bob}
    Delegators = {}
    AllocationIDs = {a1, a2}
    Subgraphs = {s1}
    AllocationKeys <- OneKeyEach
    InitialGRT <- StakersOnly
    InitialParams <- ShortThawing
    InitialSlashers = {DisputeManagerAddress}
    InitialAssetHolders = {}
    StakeAmounts = {2}
    DelegateAmounts = {}
    AllocateAmounts = {1}
    ShareAmounts = {}
    FeeAmounts = {}
    RewardAmounts = {}
    CutChoices = {}
    CooldownChoices = {}
    Operators = {}
    Destinations = {}
    SettingChoices <- NoChoices
    RatioChoices = {}
    RoleChoices = {}
    PauseChoices = {"partialPaused"}
    Fishermen = {ann, bob}
    Requests = {q1}
    Responses = {r1, r2}
    InitialArbitrator = ann
    InitialDisputeParams <- SlashingParams
    DepositAmounts = {1}
    DisputeSettingChoices <- DisputeGovernance
    ArbitratorChoices = {ann}
    DisputeManagerAddress = DisputeManagerAddress
    q1 = q1
    r1 = r1
    r2 = r2
INVARIANTS
    DepositsHeld
    LinkedInPairs
    EveryDisputeCanEnd
PROPERTIES
    DisputesSettled
\* The modelled chain ends with block MaxBlock.
CHECK_DEADLOCK FALSE
