---------------------------- MODULE CommandTable ----------------------------
(***************************************************************************)
(* The contract commands of the command line, `protocol set`, `protocol    *)
(* get` and `protocol list`, as sequences of steps, and the functions that *)
(* the contracts they call have.                                           *)
(***************************************************************************)
EXTENDS Naturals, Sequences, TLC, SequencesExt

(* What the contracts offer: functions and their numbers of parameters.    *)

Functions(n, fns) == {<<fn, n>> : fn \in fns}
StakingInterface ==
  Functions(0, {"withdraw", "thawingPeriod", "channelDisputeEpochs", "maxAllocationEpochs",
                  "delegationRatio", "delegationParametersCooldown", "protocolPercentage",
                  "delegationUnbondingPeriod", "curationPercentage"})
  \union Functions(1, {"stake", "unstake", "slashers", "setThawingPeriod",
                  "setChannelDisputeEpochs", "setMaxAllocationEpochs", "setProtocolPercentage",
                  "setDelegationRatio", "setDelegationParametersCooldown",
                  "setDelegationUnbondingPeriod", "setCurationPercentage"})
  \union Functions(2, {"closeAllocation", "claim", "delegate", "undelegate",
                  "withdrawDelegated", "setOperator", "setSlasher"})
  \union {<<"setDelegationParameters", 3>>, <<"allocate", 5>>}
Interface ==
  [Staking |-> StakingInterface,
   Curation |->
     Functions(0, {"defaultReserveRatio", "minimumCurationDeposit", "curationTaxPercentage",
                     "bondingCurve"})
     \union Functions(1, {"setDefaultReserveRatio", "setMinimumCurationDeposit",
                            "setCurationTaxPercentage"})
     \union Functions(3, {"mint", "burn"}),
   DisputeManager |->
     Functions(0, {"arbitrator", "minimumDeposit", "fishermanRewardPercentage"})
     \union Functions(1, {"acceptDispute", "rejectDispute", "drawDispute", "setArbitrator",
                            "setMinimumDeposit", "setFishermanRewardPercentage"})
     \union Functions(2, {"createQueryDisputeConflict", "createIndexingDispute",
                            "setSlashingPercentage"}),
   EpochManager |-> {<<"epochLength", 0>>, <<"currentEpoch", 0>>, <<"setEpochLength", 1>>},
   RewardsManager |->
     Functions(0, {"issuanceRate", "subgraphAvailabilityOracle"})
     \union Functions(1, {"setIssuanceRate", "setSubgraphAvailabilityOracle"}),
   GNS |->
     Functions(0, {"bondingCurve", "ownerTaxPercentage"})
     \union Functions(1, {"deprecateSubgraph", "withdraw", "setOwnerTaxPercentage"})
     \union Functions(3, {"publishNewSubgraph", "publishNewVersion", "mintSignal", "burnSignal"})
     \union {<<"updateSubgraphMetadata", 2>>, <<"setDefaultName", 4>>},
   GraphToken |->
     Functions(0, {"governor", "totalSupply", "acceptOwnership"})
     \union Functions(1, {"burn", "transferOwnership", "addMinter", "removeMinter"})
     \union Functions(2, {"mint", "transfer", "approve", "allowance"}),
   Controller |->
     Functions(0, {"governor", "paused", "partialPaused", "pauseGuardian", "acceptOwnership"})
     \union Functions(1, {"getContractProxy", "transferOwnership", "setPaused",
                            "setPartialPaused", "setPauseGuardian"})
     \union {<<"setContractProxy", 2>>},
   GraphGovernance |-> Functions(4, {"createProposal", "updateProposal"}),
   ServiceRegistry |-> {<<"register", 2>>, <<"unregister", 0>>},
   GDAI |-> Functions(1, {"setGSR", "burn"}) \union Functions(2, {"mint", "transfer", "approve"}),
   GSRManager |-> Functions(1, {"setRate", "join"}),
   ITestRegistrar |-> {<<"register", 2>>},
   IENS |-> {<<"owner", 1>>},
   IEthereumDIDRegistry |-> {<<"setAttribute", 4>>}]

-----------------------------------------------------------------------------
(* What the commands do.                                                   *)

\* A step: a transaction, a view of a contract, or a file pinned to IPFS.
\* params says what sendTransaction gets: an array of n, nothing, or a string.
Step(kind, to, fn, n) ==
  [kind |-> kind, to |-> to, fn |-> fn, n |-> n, params |-> "array",
   spender |-> "", grants |-> 0, pulls |-> 0, gasLimit |-> FALSE, word |-> ""]
Tx(to, fn, n) == Step("tx", to, fn, n)
View(to, fn, n) == Step("view", to, fn, n)
Bare(to, fn) == [Tx(to, fn, 0) EXCEPT !.params = "none"]
Spread(to, fn) == [Tx(to, fn, 1) EXCEPT !.params = "text"]
Approve(spender, amount) ==
  [Tx("GraphToken", "approve", 2) EXCEPT !.spender = spender, !.grants = amount]
Pulling(to, fn, n, amount) == [Tx(to, fn, n) EXCEPT !.pulls = amount]
Pin == Step("pin", "IPFS", "add", 1)

StakingCommands(amount) ==
  [stake |-> <<Pulling("Staking", "stake", 1, amount)>>,
   unstake |-> <<Tx("Staking", "unstake", 1)>>,
   withdraw |-> <<Bare("Staking", "withdraw")>>,
   allocate |-> <<Tx("Staking", "allocate", 4)>>,
   closeAllocation |-> <<Tx("Staking", "close", 1)>>,
   collect |-> <<>>,
   claim |-> <<Tx("Staking", "claim", 2)>>,
   delegate |-> <<Pulling("Staking", "delegate", 2, amount)>>,
   undelegate |-> <<Tx("Staking", "undelegate", 2)>>,
   withdrawDelegated |-> <<Tx("Staking", "withdrawDelegated", 2)>>,
   setDelegationParameters |-> <<Tx("Staking", "setDelegationParameters", 3)>>,
   setOperator |-> <<Tx("Staking", "setOperator", 2)>>]

GNSCommands(amount) ==
  [setDefaultName |-> <<Tx("GNS", "setDefaultName", 4)>>,
   publishNewSubgraph |-> <<Pin, Pin, Tx("GNS", "publishNewSubgraph", 3)>>,
   publishNewVersion |-> <<Pin, Tx("GNS", "publishNewVersion", 3)>>,
   deprecate |-> <<Tx("GNS", "deprecateSubgraph", 1)>>,
   updateSubgraphMetadata |-> <<Pin, Tx("GNS", "updateSubgraphMetadata", 2)>>,
   mintSignal |-> <<Pulling("GNS", "mintSignal", 3, amount)>>,
   burnSignal |-> <<Tx("GNS", "burnSignal", 3)>>,
   withdraw |-> <<Tx("GNS", "withdraw", 1)>>]

\* The wallet of the process approves and stakes, not the indexer that gets
\* the tokens.
SetupIndexer(amount) ==
  <<Tx("GraphToken", "transfer", 2), Approve("Staking", amount),
    Pulling("Staking", "stake", 1, amount), Tx("Staking", "allocate", 4)>>
DisputeCommands(amount) ==
  [createQueryConflict |-> SetupIndexer(amount) \o SetupIndexer(amount)
                           \o <<Tx("DisputeManager", "createQueryDisputeConflict", 2)>>,
   createIndexing |-> SetupIndexer(amount)
                      \o <<Approve("DisputeManager", amount),
                           Pulling("DisputeManager", "createIndexingDispute", 2, amount)>>,
   accept |-> <<Spread("DisputeManager", "acceptDispute")>>,
   reject |-> <<Spread("DisputeManager", "rejectDispute")>>,
   draw |-> <<Spread("DisputeManager", "drawDispute")>>]

\* The mint is sent with a gas limit of its own, so it is not estimated.
CurationMintApprovingMore(amount) ==
  <<Approve("Curation", amount + 1),
    [Pulling("Curation", "mint", 3, amount) EXCEPT !.gasLimit = TRUE]>>
CurationMint(amount) ==
  <<Approve("Curation", amount),
    [Pulling("Curation", "mint", 3, amount) EXCEPT !.gasLimit = TRUE]>>
CurationCommands(amount) ==
  [mint |-> CurationMint(amount), burn |-> <<Tx("Curation", "burn", 3)>>]

\* graph-token approve leaves an allowance on purpose; its spender is not one
\* of the contracts here.
TokenCommands ==
  [mint |-> <<Tx("GraphToken", "mint", 2)>>, burn |-> <<Tx("GraphToken", "burn", 1)>>,
   transfer |-> <<Tx("GraphToken", "transfer", 2)>>,
   approve |-> <<Tx("GraphToken", "approve", 2)>>,
   allowance |-> <<View("GraphToken", "allowance", 2)>>]
TestnetCommands ==
  [setGSR |-> <<Tx("GDAI", "setGSR", 1)>>, setRate |-> <<Tx("GSRManager", "setRate", 1)>>,
   join |-> <<Tx("GSRManager", "join", 1)>>, mint |-> <<Tx("GDAI", "mint", 2)>>,
   burn |-> <<Tx("GDAI", "burn", 1)>>, transfer |-> <<Tx("GDAI", "transfer", 2)>>,
   approve |-> <<Tx("GDAI", "approve", 2)>>]
GovernanceCommands ==
  [createProposal |-> <<Tx("GraphGovernance", "createProposal", 4)>>,
   upgradeProposal |-> <<Tx("GraphGovernance", "upgradeProposal", 4)>>]
RegistryCommands ==
  [register |-> <<Tx("ServiceRegistry", "register", 2)>>,
   unregister |-> <<Bare("ServiceRegistry", "unregister")>>]
NameCommands ==
  [registerTestName |-> <<Tx("ITestRegistrar", "register", 2)>>,
   checkOwner |-> <<View("IENS", "owner", 1)>>]
SetAttribute ==
  [setAttribute |-> <<Pin, Tx("IEthereumDIDRegistry", "setAttribute", 4)>>]

\* The curation setting that the Staking contract keeps.
CurationPercentageMisplaced == {<<"Curation", "setCurationPercentage", 1>>}
CurationPercentage == {<<"Staking", "setCurationPercentage", 1>>}
\* settersList; setProtocolParam splits the parameters at commas, so that a
\* function without any still gets one.
SettersList ==
  LET Setters(to, fns) == {<<to, fn, 1>> : fn \in fns}
  IN Setters("Staking", {"setThawingPeriod", "setChannelDisputeEpochs", "setMaxAllocationEpochs",
       "setProtocolPercentage", "setDelegationRatio", "setDelegationParametersCooldown",
       "setDelegationUnbondingPeriod"}) \union CurationPercentage
     \union Setters("Curation", {"setDefaultReserveRatio", "setMinimumCurationDeposit",
       "setCurationTaxPercentage"})
     \union Setters("DisputeManager", {"setArbitrator", "setMinimumDeposit",
       "setFishermanRewardPercentage"})
     \union Setters("EpochManager", {"setEpochLength"})
     \union Setters("RewardsManager", {"setIssuanceRate", "setSubgraphAvailabilityOracle"})
     \union Setters("GNS", {"setOwnerTaxPercentage"})
     \union Setters("GraphToken", {"transferOwnership", "acceptOwnership", "addMinter",
       "removeMinter"})
     \union Setters("Controller", {"transferOwnership", "acceptOwnership", "setPaused",
       "setPartialPaused", "setPauseGuardian"})
     \union {<<"Staking", "setSlasher", 2>>, <<"DisputeManager", "setSlashingPercentage", 2>>,
             <<"GraphToken", "mint", 2>>, <<"Controller", "setContractProxy", 2>>}
\* A parameter that BigNumber cannot read stays a string, which the encoding of
\* a Boolean takes for true unless it is empty: only a zero switches off.
Words == {"0", "1", "true", "false"}
SwitchesOn(word) == word # "0"
SetCommand(setter, word) == <<[Tx(setter[1], setter[2], setter[3]) EXCEPT !.word = word]>>

\* gettersList, contract by contract as `protocol list` asks for them: without
\* parameters, but for two.
Getters(to, fns) == [i \in DOMAIN fns |-> <<to, fns[i], 0>>]
PlainGetters ==
  Getters("Controller", <<"governor", "paused", "partialPaused", "pauseGuardian">>)
  \o Getters("GraphToken", <<"governor", "totalSupply">>)
  \o Getters("EpochManager", <<"epochLength", "currentEpoch">>)
  \o Getters("Staking", <<"thawingPeriod", "channelDisputeEpochs", "maxAllocationEpochs",
       "delegationRatio", "delegationParametersCooldown", "delegationUnbondingPeriod",
       "protocolPercentage", "curationPercentage">>)
  \o Getters("Curation", <<"defaultReserveRatio", "minimumCurationDeposit",
       "curationTaxPercentage", "bondingCurve">>)
  \o Getters("DisputeManager", <<"arbitrator", "minimumDeposit", "fishermanRewardPercentage">>)
  \o Getters("RewardsManager", <<"issuanceRate", "subgraphAvailabilityOracle">>)
  \o Getters("GNS", <<"bondingCurve", "ownerTaxPercentage">>)
GettersList ==
  ToSet(PlainGetters)
  \union {<<"Staking", "slashers", 1>>, <<"Controller", "getContractProxy", 1>>}
GetCommand(getter) == <<View(getter[1], getter[2], getter[3])>>

\* listProtocolParams asks for every parameter that needs no argument.
ListCommand == [i \in DOMAIN PlainGetters |-> View(PlainGetters[i][1], PlainGetters[i][2], 0)]

\* Every command, by the file it is in and its name.
Command(group, table) ==
  {[group |-> group, name |-> n, steps |-> table[n]] : n \in DOMAIN table}
AllCommands(amount) ==
  Command("staking", StakingCommands(amount)) \union Command("gns", GNSCommands(amount))
  \union Command("disputes", DisputeCommands(amount))
  \union Command("curation", CurationCommands(amount))
  \union Command("token", TokenCommands) \union Command("testnet", TestnetCommands)
  \union Command("governance", GovernanceCommands)
  \union Command("registry", RegistryCommands) \union Command("names", NameCommands)
  \union Command("did", SetAttribute)
  \union {[group |-> "set", name |-> s[2], steps |-> SetCommand(s, "1")] : s \in SettersList}
  \union {[group |-> "set", name |-> "setPaused",
           steps |-> SetCommand(<<"Controller", "setPaused", 1>>, w)] : w \in Words}
  \union {[group |-> "get", name |-> g[2], steps |-> GetCommand(g)] : g \in GettersList}
  \union {[group |-> "protocol", name |-> "list", steps |-> ListCommand]}
=============================================================================
