------------------------------ MODULE Staking ------------------------------
(***************************************************************************)
(* contracts/staking/Staking.sol: indexers stake GRT and thaw it again,    *)
(* delegators add to an indexer's pool, indexers allocate their stake to   *)
(* subgraph deployments, query fees are collected for the allocations and  *)
(* paid out of per-epoch rebate pools, and slashers take stake away.       *)
(*                                                                         *)
(* A transaction is atomic: it is one step, and one that reverts is no     *)
(* step at all.  The contract's token accounting and the GRT balances it   *)
(* moves are one record, ledger.  The private functions of the contract    *)
(* are operators from ledger to ledger, so that the handlers that run      *)
(* several of them in one transaction compose them as the code does.       *)
(*                                                                         *)
(* The proof signature of an allocation key is a constant relation, the    *)
(* reward minted by the RewardsManager and whether the Curation contract   *)
(* knows a deployment are inputs.  The reward snapshot of an allocation    *)
(* (accRewardsPerAllocatedToken) plays no part here.                       *)
(***************************************************************************)
EXTENDS Managed, EpochClock, Stakes, Rebates, DelegationPools, FiniteSetsExt

CONSTANTS
    Accounts,            \* the addresses that send transactions
    NoAddress,           \* address(0)
    StakingAddress,      \* the contract's own address
    Contracts,           \* the protocol's other contracts that hold GRT
    Indexers,            \* the accounts whose stake is modelled
    Delegators,          \* the accounts whose delegations are modelled
    AllocationIDs,
    NoSubgraph,
    AllocationKeys       \* <<indexer, id>>: a valid proof for it exists

CONSTANTS
    InitialGRT,          \* GRT held by each account
    InitialParams,       \* the settings passed to initialize()
    InitialSlashers,
    InitialAssetHolders

\* The inputs tried for each kind of argument; each is a bound of the model.
CONSTANTS
    StakeAmounts,        \* _tokens of stakeTo, unstake and slash
    DelegateAmounts,     \* _tokens of delegate
    AllocateAmounts,     \* _tokens of allocate
    ShareAmounts,        \* _shares of undelegate
    FeeAmounts,          \* _tokens of collect
    RewardAmounts,       \* results of RewardsManager.takeRewards
    CutChoices,          \* _indexingRewardCut and _queryFeeCut, in PPM
    CooldownChoices,     \* _cooldownBlocks
    Operators,           \* accounts an indexer may name as operator
    Destinations,        \* addresses an indexer may name as rewards destination
    SettingChoices,      \* [setting -> values the governor may set]
    RatioChoices,        \* rebate ratios the governor may set
    RoleChoices,         \* accounts the governor may make slasher or asset holder
    PauseChoices         \* the pause switches in use

PositiveSettings   == {"minimumIndexerStake", "thawingPeriod",
                       "channelDisputeEpochs", "delegationUnbondingPeriod",
                       "alphaNumerator", "alphaDenominator"}
PercentageSettings == {"curationPercentage", "protocolPercentage",
                       "delegationTaxPercentage"}
OtherSettings      == {"maxAllocationEpochs", "delegationRatio",
                       "delegationParametersCooldown"}
Settings == PositiveSettings \cup PercentageSettings \cup OtherSettings

\* The settings the governor's setters, and initialize(), accept.
Params == {p \in [Settings -> Nat] :
              /\ \A x \in PositiveSettings : p[x] > 0
              /\ \A x \in PercentageSettings : p[x] <= MAX_PPM}

ASSUME AddressAssumption ==
    /\ Indexers \subseteq Accounts
    /\ Delegators \subseteq Accounts
    /\ NoAddress \notin Accounts
    /\ StakingAddress \notin Accounts
    /\ StakingAddress # NoAddress
    /\ Contracts \cap (Accounts \cup {NoAddress, StakingAddress}) = {}

\* An address has 160 bits: there are finitely many of them, and of allocation keys.
ASSUME FiniteAssumption == /\ IsFiniteSet(Accounts) /\ IsFiniteSet(Contracts)
                           /\ IsFiniteSet(AllocationIDs)

ASSUME SubgraphAssumption == NoSubgraph \notin Subgraphs

ASSUME InitialAssumption ==
    /\ InitialGRT \in [Accounts -> Nat]
    /\ InitialParams \in [Settings -> Nat]
    /\ \A x \in PositiveSettings : InitialParams[x] > 0
    /\ \A x \in PercentageSettings : InitialParams[x] <= MAX_PPM
    /\ InitialSlashers \subseteq Accounts \cup Contracts
    /\ InitialAssetHolders \subseteq Accounts

ASSUME InputAssumption ==
    /\ StakeAmounts \subseteq Nat
    /\ DelegateAmounts \subseteq Nat
    /\ AllocateAmounts \subseteq Nat
    /\ ShareAmounts \subseteq Nat
    /\ FeeAmounts \subseteq Nat
    /\ RewardAmounts \subseteq Nat
    /\ CutChoices \subseteq Nat
    /\ CooldownChoices \subseteq Nat
    /\ SettingChoices \in [Settings -> SUBSET Nat]
    /\ RatioChoices \subseteq Nat \X Nat
    /\ Operators \subseteq Accounts
    /\ RoleChoices \subseteq Accounts
    /\ Destinations \subseteq Accounts \cup {NoAddress}

VARIABLES
    ledger,              \* the token accounting, see Ledger
    operatorAuth,        \* indexer -> the accounts that act for it
    rewardsDestination,  \* indexer -> address, NoAddress: restake
    params,              \* the settings under governance
    slashers,
    assetHolders

access == <<operatorAuth, rewardsDestination>>
config == <<params, slashers, assetHolders>>
vars   == <<clock, ledger, access, config, pauses>>

-----------------------------------------------------------------------------
(* State *)

Allocation == [indexer              : Indexers \cup {NoAddress},
               subgraphDeploymentID : Subgraphs \cup {NoSubgraph},
               tokens               : Nat,
               createdAtEpoch       : Epochs,
               closedAtEpoch        : Epochs,
               collectedFees        : Nat,
               effectiveAllocation  : Nat]

NoAllocation == [indexer |-> NoAddress, subgraphDeploymentID |-> NoSubgraph,
                 tokens |-> 0, createdAtEpoch |-> 0, closedAtEpoch |-> 0,
                 collectedFees |-> 0, effectiveAllocation |-> 0]

Holders == Accounts \cup Contracts \cup {StakingAddress}

Ledger == [stakes              : [Indexers -> Stake],
           delegationPools     : [Indexers -> DelegationPool],
           delegations         : [Indexers -> [Delegators -> Delegation]],
           allocations         : [AllocationIDs -> Allocation],
           subgraphAllocations : [Subgraphs -> Nat],
           rebates             : [Epochs -> Pool],
           grt                 : [Holders -> Nat]]

Init ==
    /\ ClockInit
    /\ ledger = [stakes              |-> [i \in Indexers |-> EmptyStake],
                 delegationPools     |-> [i \in Indexers |-> EmptyDelegationPool],
                 delegations         |-> [i \in Indexers |->
                                            [d \in Delegators |-> EmptyDelegation]],
                 allocations         |-> [a \in AllocationIDs |-> NoAllocation],
                 subgraphAllocations |-> [s \in Subgraphs |-> 0],
                 rebates             |-> [e \in Epochs |-> NoPool],
                 grt                 |-> [h \in Holders |->
                                            IF h \in Accounts THEN InitialGRT[h] ELSE 0]]
    /\ operatorAuth = [i \in Indexers |-> {}]
    /\ rewardsDestination = [i \in Indexers |-> NoAddress]
    /\ params = InitialParams
    /\ slashers = InitialSlashers
    /\ assetHolders = InitialAssetHolders
    /\ paused = FALSE
    /\ partialPaused = FALSE

IsAuth(sender, indexer) == sender = indexer \/ sender \in operatorAuth[indexer]

-----------------------------------------------------------------------------
(* GRT *)

Transfer(l, from, to, tokens) ==
    LET debited == [l.grt EXCEPT ![from] = @ - tokens]
    IN  [l EXCEPT !.grt = [debited EXCEPT ![to] = @ + tokens]]

Pull(l, from, tokens) == Transfer(l, from, StakingAddress, tokens)
Push(l, to, tokens)   == Transfer(l, StakingAddress, to, tokens)

\* Tokens minted to the contract by the RewardsManager.
Minted(l, tokens) == [l EXCEPT !.grt[StakingAddress] = @ + tokens]

\* Tokens burned, or pushed to the Curation contract: they leave the model.
Gone(l, tokens) == [l EXCEPT !.grt[StakingAddress] = @ - tokens]

\* The end of a transaction that works on the ledger alone.  A transfer or a
\* burn of more than the balance reverts.
Commit(l) == /\ \A h \in Holders : l.grt[h] >= 0
             /\ ledger' = l
             /\ UNCHANGED <<clock, access, config, pauses>>
-----------------------------------------------------------------------------
(* Private functions, as operators on the ledger *)

\* _stake: the first deposit of an indexer also opens its delegation pool, with
\* the whole of the rewards going to the indexer.
Staked(l, indexer, tokens) ==
    [l EXCEPT !.stakes[indexer] = Deposit(@, tokens),
              !.delegationPools[indexer] =
                 IF @.updatedAtBlock = 0
                 THEN [@ EXCEPT !.indexingRewardCut = MAX_PPM,
                                !.queryFeeCut       = MAX_PPM,
                                !.cooldownBlocks    = params["delegationParametersCooldown"],
                                !.updatedAtBlock    = block]
                 ELSE @]

\* _withdraw; a stake that would fall below zero reverts.
CanWithdraw(s) == /\ TokensWithdrawable(s, block) > 0
                  /\ SecureStakeDefined(s)

Withdrawn(l, indexer) ==
    Push([l EXCEPT !.stakes[indexer] = WithdrawTokens(@, block)],
         indexer, TokensWithdrawable(l.stakes[indexer], block))

\* _sendRewards, of tokens the contract already holds.
RewardsSent(l, amount, indexer, restake) ==
    IF amount = 0 THEN l
    ELSE IF restake THEN Staked(l, indexer, amount)
    ELSE Push(l, IF rewardsDestination[indexer] = NoAddress
                 THEN indexer ELSE rewardsDestination[indexer], amount)

\* Faulty variant: the indexer gets the delegators' part as well.
RewardsPaidTwice(l, indexer, cut, tokens, restake) ==
    LET toDelegators == DelegationRewards(l.delegationPools[indexer], cut, tokens)
    IN  RewardsSent([l EXCEPT !.delegationPools[indexer] = PoolReward(@, toDelegators)],
                    tokens, indexer, restake)

\* _collectDelegationQueryRewards and _collectDelegationIndexingRewards, and
\* the indexer's part sent on.
RewardsSplit(l, indexer, cut, tokens, restake) ==
    LET toDelegators == DelegationRewards(l.delegationPools[indexer], cut, tokens)
    IN  RewardsSent([l EXCEPT !.delegationPools[indexer] = PoolReward(@, toDelegators)],
                    tokens - toDelegators, indexer, restake)

\* _delegate
CanDelegate(l, indexer, tokens) ==
    /\ tokens > 0
    /\ l.stakes[indexer].tokensStaked > 0
    /\ LET tax == Portion(params["delegationTaxPercentage"], tokens)
       IN  SharesFor(l.delegationPools[indexer], tokens - tax) > 0

Delegated(l, delegator, indexer, tokens) ==
    LET tax  == Portion(params["delegationTaxPercentage"], tokens)
        pool == l.delegationPools[indexer]
    IN  Gone([l EXCEPT !.delegationPools[indexer] = PoolEnter(@, tokens - tax),
                       !.delegations[indexer][delegator].shares =
                           @ + SharesFor(pool, tokens - tax)],
             tax)

WithdrawableDelegated(delegation) ==
    IF delegation.tokensLockedUntil > 0 /\ epoch >= delegation.tokensLockedUntil
    THEN delegation.tokensLocked
    ELSE 0

\* _withdrawDelegated, paying the delegator unless the tokens go to another pool.
Unlocked(l, delegator, indexer) ==
    [l EXCEPT !.delegations[indexer][delegator] = DelegationUnlock(@)]

DelegationPaid(l, delegator, indexer) ==
    Push(Unlocked(l, delegator, indexer), delegator,
         WithdrawableDelegated(l.delegations[indexer][delegator]))

-----------------------------------------------------------------------------
(* Allocations *)

AllocationState(alloc) ==
    IF alloc.indexer = NoAddress THEN "Null"
    ELSE IF alloc.tokens = 0 THEN "Claimed"
    ELSE IF alloc.closedAtEpoch = 0 THEN "Active"
    ELSE IF EpochsSince(alloc.closedAtEpoch) >= params["channelDisputeEpochs"]
    THEN "Finalized" ELSE "Closed"

StateOf(l, id) == AllocationState(l.allocations[id])

\* getIndexerCapacity: the free stake, with the delegated tokens counted up to
\* delegationRatio times the secure stake.
IndexerCapacity(l, indexer) ==
    LET s   == l.stakes[indexer]
        cap == TokensSecureStake(s) * params["delegationRatio"]
    IN  TokensAvailableWithDelegation(
            s, MathMin(l.delegationPools[indexer].tokens, cap))

\* _allocate
CanAllocate(l, sender, indexer, tokens, id) ==
    /\ IsAuth(sender, indexer)
    /\ tokens > 0
    /\ StateOf(l, id) = "Null"
    /\ <<indexer, id>> \in AllocationKeys
    /\ SecureStakeDefined(l.stakes[indexer])
    /\ IndexerCapacity(l, indexer) >= tokens

Allocated(l, indexer, subgraph, tokens, id) ==
    [l EXCEPT !.allocations[id] = [indexer              |-> indexer,
                                   subgraphDeploymentID |-> subgraph,
                                   tokens               |-> tokens,
                                   createdAtEpoch       |-> epoch,
                                   closedAtEpoch        |-> 0,
                                   collectedFees        |-> 0,
                                   effectiveAllocation  |-> 0],
              !.stakes[indexer] = StakeAllocate(@, tokens),
              !.subgraphAllocations[subgraph] = @ + tokens]

IsDelegator(l, indexer, account) ==
    account \in Delegators /\ l.delegations[indexer][account].shares > 0

\* _closeAllocation.  Its last two conditions are checked subtractions.
CanClose(l, sender, id) ==
    LET alloc  == l.allocations[id]
        epochs == DiffOrZero(epoch, alloc.createdAtEpoch)
    IN  /\ StateOf(l, id) = "Active"
        /\ epochs > 0
        /\ \/ IsAuth(sender, alloc.indexer)
           \/ /\ epochs > params["maxAllocationEpochs"]
              /\ IsDelegator(l, alloc.indexer, sender)
        /\ alloc.tokens <= l.stakes[alloc.indexer].tokensAllocated
        /\ alloc.tokens <= l.subgraphAllocations[alloc.subgraphDeploymentID]

EffectiveAllocation(tokens, epochs) ==
    LET maxEpochs == params["maxAllocationEpochs"]
    IN  tokens * IF maxEpochs > 0 THEN MathMin(epochs, maxEpochs) ELSE epochs

\* The rewards takeRewards may return: none without a proof of indexing by the
\* indexer or its operator, for a denied deployment or without a manager.
RewardsFor(l, sender, id) ==
    IF IsAuth(sender, l.allocations[id].indexer) THEN {0} \cup RewardAmounts ELSE {0}

Closed(l, id, rewards) ==
    LET alloc     == l.allocations[id]
        indexer   == alloc.indexer
        effective == EffectiveAllocation(alloc.tokens,
                                         DiffOrZero(epoch, alloc.createdAtEpoch))
        recorded  == [l EXCEPT
                        !.allocations[id] = [@ EXCEPT !.closedAtEpoch = epoch,
                                                      !.effectiveAllocation = effective],
                        !.rebates[epoch] =
                            AddToPool(IF PoolExists(@) THEN @
                                      ELSE InitPool(@, params["alphaNumerator"],
                                                       params["alphaDenominator"]),
                                      alloc.collectedFees, effective)]
        rewarded  == RewardsSplit(Minted(recorded, rewards), indexer,
                                  l.delegationPools[indexer].indexingRewardCut, rewards,
                                  rewardsDestination[indexer] = NoAddress)
    IN  [rewarded EXCEPT
            !.stakes[indexer] = StakeUnallocate(@, alloc.tokens),
            !.subgraphAllocations[alloc.subgraphDeploymentID] = @ - alloc.tokens]

\* _claim.  When the last allocation of the pool has claimed, what is left of the
\* pool is burned and the pool deleted.
CanClaim(l, id) == /\ StateOf(l, id) = "Finalized"
                   /\ CanRedeem(l.rebates[l.allocations[id].closedAtEpoch])

RebatesFor(l, id) ==
    LET alloc == l.allocations[id]
    IN  Redeemable(l.rebates[alloc.closedAtEpoch],
                   alloc.collectedFees, alloc.effectiveAllocation)

\* Faulty variant: nothing of the allocation is kept.
PurgedWhole(alloc) == NoAllocation

\* A claimed allocation keeps its indexer, so that its identifier is not reused,
\* and its deployment.
Purged(alloc) == [NoAllocation EXCEPT !.indexer = alloc.indexer,
                                      !.subgraphDeploymentID = alloc.subgraphDeploymentID]

Claimed(l, sender, id, rebate, restake) ==
    LET alloc   == l.allocations[id]
        indexer == alloc.indexer
        pool    == Redeem(l.rebates[alloc.closedAtEpoch], rebate)
        last    == pool.unclaimedAllocationsCount = 0
        purged  == [l EXCEPT
                      !.allocations[id] = Purged(alloc),
                      !.rebates[alloc.closedAtEpoch] = IF last THEN NoPool ELSE pool]
        burned  == IF last THEN Gone(purged, UnclaimedFees(pool)) ELSE purged
    IN  RewardsSplit(burned, indexer, l.delegationPools[indexer].queryFeeCut, rebate,
                     restake /\ IsAuth(sender, indexer))
-----------------------------------------------------------------------------
(* Indexer stake *)

StakeTo(sender, indexer, tokens) ==
    /\ NotPartialPaused
    /\ tokens > 0
    /\ SecureStakeDefined(ledger.stakes[indexer])
    /\ TokensSecureStake(ledger.stakes[indexer]) + tokens >= params["minimumIndexerStake"]
    /\ Commit(Staked(Pull(ledger, sender, tokens), indexer, tokens))

LeavesEnough(newStake) == newStake = 0 \/ newStake >= params["minimumIndexerStake"]

\* Locks at most the free stake; what remains is nothing or at least the
\* minimum.  Tokens that have thawed are paid out before the lock moves.
Unstake(indexer, tokens) ==
    LET s        == ledger.stakes[indexer]
        toLock   == MathMin(TokensAvailable(s), tokens)
        newStake == TokensSecureStake(s) - toLock
        paid     == IF TokensWithdrawable(s, block) > 0
                    THEN Withdrawn(ledger, indexer) ELSE ledger
    IN  /\ NotPartialPaused
        /\ s.tokensStaked > 0
        /\ toLock > 0
        /\ SecureStakeDefined(s)
        /\ LeavesEnough(newStake)
        /\ Commit([paid EXCEPT
              !.stakes[indexer] = LockTokens(@, toLock, params["thawingPeriod"], block)])

Withdraw(indexer) ==
    /\ NotPaused
    /\ CanWithdraw(ledger.stakes[indexer])
    /\ Commit(Withdrawn(ledger, indexer))

\* Faulty variant: the thawing queue is left alone.
NothingUnlocked(s, tokens) == s

\* A slash that reaches beyond the free stake takes locked tokens out of the
\* thawing queue first.
UnlockedForSlash(s, tokens) ==
    LET beyond == tokens - TokensAvailable(s)
    IN  IF beyond > 0 /\ s.tokensLocked > 0
        THEN UnlockTokens(s, MathMin(beyond, s.tokensLocked))
        ELSE s

CanSlash(l, slasher, indexer, tokens, reward) ==
    /\ slasher \in slashers
    /\ NotPartialPaused
    /\ tokens > 0
    /\ tokens >= reward
    /\ l.stakes[indexer].tokensStaked > 0
    /\ tokens <= l.stakes[indexer].tokensStaked

\* The slashed tokens leave the stake; the reward goes to the beneficiary and
\* the rest is burned.
Slashed(l, indexer, tokens, reward, beneficiary) ==
    LET taken == [l EXCEPT !.stakes[indexer] =
                     Release(UnlockedForSlash(@, tokens), tokens)]
    IN  Push(Gone(taken, tokens - reward), beneficiary, reward)

Slash(slasher, indexer, tokens, reward, beneficiary) ==
    /\ CanSlash(ledger, slasher, indexer, tokens, reward)
    /\ Commit(Slashed(ledger, indexer, tokens, reward, beneficiary))

SetOperator(indexer, operator, allowed) ==
    /\ operator # indexer
    /\ operatorAuth' = [operatorAuth EXCEPT
                          ![indexer] = IF allowed THEN @ \cup {operator} ELSE @ \ {operator}]
    /\ UNCHANGED <<clock, ledger, rewardsDestination, config, pauses>>

SetRewardsDestination(indexer, destination) ==
    /\ rewardsDestination' = [rewardsDestination EXCEPT ![indexer] = destination]
    /\ UNCHANGED <<clock, ledger, operatorAuth, config, pauses>>

-----------------------------------------------------------------------------
(* Delegation *)

SetDelegationParameters(indexer, indexingRewardCut, queryFeeCut, cooldownBlocks) ==
    LET pool == ledger.delegationPools[indexer]
    IN  /\ queryFeeCut <= MAX_PPM
        /\ indexingRewardCut <= MAX_PPM
        /\ cooldownBlocks >= params["delegationParametersCooldown"]
        /\ \/ pool.updatedAtBlock = 0
           \/ pool.updatedAtBlock + pool.cooldownBlocks <= block
        /\ Commit([ledger EXCEPT !.delegationPools[indexer] =
              [@ EXCEPT !.indexingRewardCut = indexingRewardCut,
                        !.queryFeeCut       = queryFeeCut,
                        !.cooldownBlocks    = cooldownBlocks,
                        !.updatedAtBlock    = block]])

Delegate(delegator, indexer, tokens) ==
    /\ NotPartialPaused
    /\ CanDelegate(ledger, indexer, tokens)
    /\ Commit(Delegated(Pull(ledger, delegator, tokens), delegator, indexer, tokens))

\* Tokens that have thawed are paid out first; the shares' tokens are locked and
\* the period starts again for all the locked tokens.
Undelegate(delegator, indexer, shares) ==
    LET delegation == ledger.delegations[indexer][delegator]
        paid       == IF WithdrawableDelegated(delegation) > 0
                      THEN DelegationPaid(ledger, delegator, indexer) ELSE ledger
        pool       == ledger.delegationPools[indexer]
        unbonding  == params["delegationUnbondingPeriod"]
    IN  /\ NotPartialPaused
        /\ shares > 0
        /\ delegation.shares >= shares
        /\ pool.shares >= shares
        /\ Commit([paid EXCEPT
              !.delegationPools[indexer] = PoolLeave(@, shares),
              !.delegations[indexer][delegator] =
                 DelegationLeave(@, shares, TokensFor(pool, shares), epoch + unbonding)])

WithdrawDelegated(delegator, indexer, toIndexer) ==
    LET tokens == WithdrawableDelegated(ledger.delegations[indexer][delegator])
    IN  /\ NotPaused
        /\ tokens > 0
        /\ IF toIndexer = NoAddress
           THEN Commit(DelegationPaid(ledger, delegator, indexer))
           ELSE /\ CanDelegate(ledger, toIndexer, tokens)
                /\ Commit(Delegated(Unlocked(ledger, delegator, indexer),
                                    delegator, toIndexer, tokens))

-----------------------------------------------------------------------------
(* Allocations, query fees and rebates *)

Allocate(sender, indexer, subgraph, tokens, id) ==
    /\ NotPaused
    /\ CanAllocate(ledger, sender, indexer, tokens, id)
    /\ Commit(Allocated(ledger, indexer, subgraph, tokens, id))

CloseAllocation(sender, id) ==
    /\ NotPaused
    /\ CanClose(ledger, sender, id)
    /\ \E rewards \in RewardsFor(ledger, sender, id) : Commit(Closed(ledger, id, rewards))

\* closeAllocationMany with two requests: both close or neither does.
CloseAllocationMany(sender, id1, id2) ==
    /\ NotPaused
    /\ CanClose(ledger, sender, id1)
    /\ \E rewards1 \in RewardsFor(ledger, sender, id1) :
          LET first == Closed(ledger, id1, rewards1)
          IN  /\ CanClose(first, sender, id2)
              /\ \E rewards2 \in RewardsFor(first, sender, id2) :
                    Commit(Closed(first, id2, rewards2))

CloseAndAllocate(sender, closing, indexer, subgraph, tokens, id) ==
    /\ NotPaused
    /\ CanClose(ledger, sender, closing)
    /\ \E rewards \in RewardsFor(ledger, sender, closing) :
          LET freed == Closed(ledger, closing, rewards)
          IN  /\ CanAllocate(freed, sender, indexer, tokens, id)
              /\ Commit(Allocated(freed, indexer, subgraph, tokens, id))

\* Faulty variant: the state of the allocation does not matter.
SameProtocolPercentage(state) == params["protocolPercentage"]

\* Fees that arrive after the allocation is finalized or claimed are all tax.
UsedProtocolPercentage(state) ==
    IF state \in {"Active", "Closed"} THEN params["protocolPercentage"] ELSE MAX_PPM

ProtocolTax(tokens, id) == Portion(UsedProtocolPercentage(StateOf(ledger, id)), tokens)

\* _collectCurationFees
CurationFees(tokens, id, curated) ==
    IF curated THEN Portion(params["curationPercentage"], tokens - ProtocolTax(tokens, id))
    ELSE 0

\* An asset holder pays query fees for an allocation.  What
\* the protocol tax leaves is shared with the curators if the deployment is
\* curated, and the rest is the allocation's, in the rebate pool once it is
\* closed.  Never paused.
Collect(holder, tokens, id, curated) ==
    LET state    == StateOf(ledger, id)
        alloc    == ledger.allocations[id]
        tax      == ProtocolTax(tokens, id)
        curation == CurationFees(tokens, id, curated)
        fees     == tokens - tax - curation
        paid     == Gone(Pull(ledger, holder, tokens), tax + curation)
        added    == [paid EXCEPT !.allocations[id].collectedFees = @ + fees]
    IN  /\ holder \in assetHolders
        /\ state # "Null"
        /\ tokens > 0
        /\ Commit(IF state = "Closed"
                  THEN [added EXCEPT !.rebates[alloc.closedAtEpoch].fees = @ + fees]
                  ELSE added)

Claim(sender, id, restake) ==
    /\ NotPaused
    /\ CanClaim(ledger, id)
    /\ \E rebate \in RebatesFor(ledger, id) :
          Commit(Claimed(ledger, sender, id, rebate, restake))

\* claimMany with two allocations.
ClaimMany(sender, id1, id2, restake) ==
    /\ NotPaused
    /\ CanClaim(ledger, id1)
    /\ \E rebate1 \in RebatesFor(ledger, id1) :
          LET first == Claimed(ledger, sender, id1, rebate1, restake)
          IN  /\ CanClaim(first, id2)
              /\ \E rebate2 \in RebatesFor(first, id2) :
                    Commit(Claimed(first, sender, id2, rebate2, restake))

-----------------------------------------------------------------------------
(* Governance and the guardian's switches *)

Accepts(setting, value) == /\ setting \in PositiveSettings => value > 0
                           /\ setting \in PercentageSettings => value <= MAX_PPM

SetParameter(setting, value) ==
    /\ setting \notin {"alphaNumerator", "alphaDenominator"}
    /\ Accepts(setting, value)
    /\ params' = [params EXCEPT ![setting] = value]
    /\ UNCHANGED <<clock, ledger, access, slashers, assetHolders, pauses>>

SetRebateRatio(numerator, denominator) ==
    /\ numerator > 0 /\ denominator > 0
    /\ params' = [params EXCEPT !["alphaNumerator"] = numerator,
                                !["alphaDenominator"] = denominator]
    /\ UNCHANGED <<clock, ledger, access, slashers, assetHolders, pauses>>

SetSlasher(slasher, allowed) ==
    /\ slashers' = IF allowed THEN slashers \cup {slasher} ELSE slashers \ {slasher}
    /\ UNCHANGED <<clock, ledger, access, params, assetHolders, pauses>>

SetAssetHolder(holder, allowed) ==
    /\ assetHolders' = IF allowed THEN assetHolders \cup {holder}
                                  ELSE assetHolders \ {holder}
    /\ UNCHANGED <<clock, ledger, access, params, slashers, pauses>>

SetPaused(toPause) ==
    /\ paused' = toPause
    /\ UNCHANGED <<clock, ledger, access, config, partialPaused>>

SetPartialPaused(toPause) ==
    /\ partialPaused' = toPause
    /\ UNCHANGED <<clock, ledger, access, config, paused>>

NextBlock == Tick /\ UNCHANGED <<ledger, access, config, pauses>>

\* The governor shortens the epochs: EpochManager.setEpochLength.
SkipEpochs == Skip /\ UNCHANGED <<ledger, access, config, pauses>>

-----------------------------------------------------------------------------
(* Next-state relation *)

IndexerSteps ==
    \E i \in Indexers :
        \/ \E sender \in Accounts, tokens \in StakeAmounts : StakeTo(sender, i, tokens)
        \/ \E tokens \in StakeAmounts : Unstake(i, tokens)
        \/ Withdraw(i)
        \/ \E operator \in Operators, allowed \in BOOLEAN : SetOperator(i, operator, allowed)
        \/ \E to \in Destinations : SetRewardsDestination(i, to)
        \/ \E r, q \in CutChoices, c \in CooldownChoices : SetDelegationParameters(i, r, q, c)

SlasherSteps ==
    \E slasher, to \in Accounts, i \in Indexers, tokens, reward \in StakeAmounts \cup {0} :
        Slash(slasher, i, tokens, reward, to)

DelegatorSteps ==
    \E d \in Delegators, i \in Indexers :
        \/ \E tokens \in DelegateAmounts : Delegate(d, i, tokens)
        \/ \E shares \in ShareAmounts : Undelegate(d, i, shares)
        \/ \E to \in Indexers \cup {NoAddress} : WithdrawDelegated(d, i, to)

AllocationSteps ==
    \E sender \in Accounts, id \in AllocationIDs :
        \/ \E i \in Indexers, s \in Subgraphs, tokens \in AllocateAmounts :
               Allocate(sender, i, s, tokens, id)
        \/ CloseAllocation(sender, id)
        \/ \E id2 \in AllocationIDs : CloseAllocationMany(sender, id, id2)
        \/ \E i \in Indexers, s \in Subgraphs, tokens \in AllocateAmounts,
              id2 \in AllocationIDs : CloseAndAllocate(sender, id, i, s, tokens, id2)
        \/ \E tokens \in FeeAmounts, curated \in BOOLEAN : Collect(sender, tokens, id, curated)

ClaimSteps ==
    \E sender \in Accounts, id \in AllocationIDs, restake \in BOOLEAN :
        \/ Claim(sender, id, restake)
        \/ \E id2 \in AllocationIDs : ClaimMany(sender, id, id2, restake)

GovernorSteps ==
    \/ SkipEpochs
    \/ \E x \in Settings : \E v \in SettingChoices[x] : SetParameter(x, v)
    \/ \E r \in RatioChoices : SetRebateRatio(r[1], r[2])
    \/ \E a \in RoleChoices, allowed \in BOOLEAN :
           SetSlasher(a, allowed) \/ SetAssetHolder(a, allowed)
    \/ \E toPause \in BOOLEAN :
           \/ "paused" \in PauseChoices /\ SetPaused(toPause)
           \/ "partialPaused" \in PauseChoices /\ SetPartialPaused(toPause)

Next == \/ NextBlock
        \/ IndexerSteps
        \/ SlasherSteps
        \/ DelegatorSteps
        \/ AllocationSteps
        \/ ClaimSteps
        \/ GovernorSteps

Spec == Init /\ [][Next]_vars
=============================================================================
