--------------------------- MODULE RewardsManager ---------------------------
(***************************************************************************)
(* contracts/rewards/RewardsManager.sol composed with the two contracts it *)
(* stands between.  GRT is issued by the block in proportion to the total  *)
(* supply, accrues to the signalled tokens, and so to the deployments, and *)
(* within a deployment to the allocated tokens.  Nothing is written when a *)
(* block passes: three accumulators are brought up to date by hooks that   *)
(* the curation contract calls when signal changes and the staking         *)
(* contract when an allocation opens or closes.                            *)
(*                                                                         *)
(* The rewards of a close, an input of Staking.tla, are computed here, and *)
(* the curation fees of a collect() reach the pools of Curation.tla.       *)
(* Curators hold their GRT apart from the accounts of the staking ledger.  *)
(***************************************************************************)
EXTENDS Staking, Curation

CONSTANTS
    TokenDecimals,          \* TOKEN_DECIMALS, the fixed-point unit: 10^18 in the code
    InitialIssuanceRate,    \* the rate passed to initialize()
    InitialOracle,          \* the subgraph availability oracle
    IssuanceRates,          \* rates the governor may set
    OracleChoices,          \* accounts the governor may make oracle
    DenyChoices,            \* deployments the oracle may deny
    CallBlocks              \* bound: the blocks in which outsiders call the hooks
                            \* and the governor and the oracle act

ASSUME RewardsAssumption ==
    /\ TokenDecimals \in Nat \ {0}
    /\ InitialIssuanceRate \in Nat
    /\ InitialIssuanceRate >= TokenDecimals
    /\ InitialOracle \in Accounts
    /\ IssuanceRates \subseteq Nat
    /\ OracleChoices \subseteq Accounts
    /\ DenyChoices \subseteq Subgraphs
    /\ CallBlocks \subseteq Blocks

VARIABLES
    rewards,                      \* the accumulators, see RewardsState
    denylist,                     \* deployment -> block of the denial, or 0
    subgraphAvailabilityOracle

rewardsVars  == <<rewards, denylist, subgraphAvailabilityOracle>>
protocolVars == <<vars, curationVars, rewardsVars>>

-----------------------------------------------------------------------------
(* State *)

\* IRewardsManager.Subgraph
SubgraphRewards == [accRewardsForSubgraph         : Nat,
                    accRewardsForSubgraphSnapshot : Nat,
                    accRewardsPerSignalSnapshot   : Nat,
                    accRewardsPerAllocatedToken   : Nat]

NoSubgraphRewards == [accRewardsForSubgraph |-> 0, accRewardsForSubgraphSnapshot |-> 0,
                      accRewardsPerSignalSnapshot |-> 0, accRewardsPerAllocatedToken |-> 0]

\* atOpening is Allocation.accRewardsPerAllocatedToken, kept by the staking
\* contract; assigned adds up the RewardsAssigned events of a deployment.
RewardsState == [issuanceRate                        : Nat,
                 accRewardsPerSignal                 : Nat,
                 accRewardsPerSignalLastBlockUpdated : 0 .. MaxBlock,
                 subgraphs                           : [Subgraphs -> SubgraphRewards],
                 atOpening                           : [AllocationIDs -> Nat],
                 assigned                            : [Subgraphs -> Nat]]

\* initialize() sets the issuance rate, which takes the first checkpoint.
RewardsInit ==
    /\ Init
    /\ CurationInit
    /\ rewards = [issuanceRate                        |-> InitialIssuanceRate,
                  accRewardsPerSignal                 |-> 0,
                  accRewardsPerSignalLastBlockUpdated |-> block,
                  subgraphs                           |-> [s \in Subgraphs |-> NoSubgraphRewards],
                  atOpening                           |-> [id \in AllocationIDs |-> 0],
                  assigned                            |-> [s \in Subgraphs |-> 0]]
    /\ denylist = [s \in Subgraphs |-> 0]
    /\ subgraphAvailabilityOracle = InitialOracle

-----------------------------------------------------------------------------
(* Issuance *)

FixedMul(x, y) == (x * y + TokenDecimals \div 2) \div TokenDecimals

\* The loop of _pow: the power by squaring, each product rounded to the unit.
PowLoop[n \in Nat] ==
    [x \in Nat |-> [z \in Nat |->
        IF n = 0 THEN z
        ELSE LET xx == FixedMul(x, x)
             IN  PowLoop[n \div 2][xx][IF n % 2 = 1 THEN FixedMul(z, xx) ELSE z]]]

Pow(x, n) == PowLoop[n \div 2][x][IF n % 2 = 1 THEN x ELSE TokenDecimals]

\* graphToken.totalSupply() and graphToken.balanceOf(curation)
TotalSupply(l, c) == SumFunction(l.grt) + SumFunction(c.grt)
SignalledTokens(c) == c.grt[CurationAddress]

\* GRT issued since the last checkpoint, on the supply of this moment.
Issued(r, l, c) ==
    LET p == TotalSupply(l, c)
    IN  (p * Pow(r.issuanceRate, block - r.accRewardsPerSignalLastBlockUpdated))
            \div TokenDecimals - p

\* Faulty variant: the share of the deployment's own pool is left out.
NewRewardsPerSignalUnshared(r, l, c) == Issued(r, l, c) * TokenDecimals

NewRewardsPerSignal(r, l, c) ==
    IF \/ block = r.accRewardsPerSignalLastBlockUpdated
       \/ r.issuanceRate <= TokenDecimals
       \/ SignalledTokens(c) = 0
    THEN 0
    ELSE (Issued(r, l, c) * TokenDecimals) \div SignalledTokens(c)

AccRewardsPerSignal(r, l, c) == r.accRewardsPerSignal + NewRewardsPerSignal(r, l, c)

AccRewardsForSubgraph(r, l, c, s) ==
    LET sub == r.subgraphs[s]
        new == AccRewardsPerSignal(r, l, c) - sub.accRewardsPerSignalSnapshot
    IN  sub.accRewardsForSubgraph + (new * c.pools[s].tokens) \div TokenDecimals

\* What the deployment accrued since the last hook of the staking contract.
\* The code subtracts with a check: below zero every hook reverts.
NewRewardsForSubgraph(r, l, c, s) ==
    AccRewardsForSubgraph(r, l, c, s) - r.subgraphs[s].accRewardsForSubgraphSnapshot

\* With nothing allocated the accumulator starts again from zero.
AccRewardsPerAllocatedToken(r, l, c, s) ==
    LET allocated == l.subgraphAllocations[s]
    IN  IF allocated = 0 THEN 0
        ELSE r.subgraphs[s].accRewardsPerAllocatedToken
                + (NewRewardsForSubgraph(r, l, c, s) * TokenDecimals) \div allocated

-----------------------------------------------------------------------------
(* Hooks *)

\* updateAccRewardsPerSignal
Checkpointed(r, l, c) ==
    [r EXCEPT !.accRewardsPerSignal = AccRewardsPerSignal(r, l, c),
              !.accRewardsPerSignalLastBlockUpdated = block]

\* onSubgraphSignalUpdate
SignalUpdated(r, l, c, s) ==
    LET now == Checkpointed(r, l, c)
    IN  [now EXCEPT
            !.subgraphs[s].accRewardsForSubgraph = AccRewardsForSubgraph(now, l, c, s),
            !.subgraphs[s].accRewardsPerSignalSnapshot = now.accRewardsPerSignal]

\* Faulty variant: the snapshot is forgotten.
AllocationUpdatedNoSnapshot(r, l, c, s) ==
    [r EXCEPT !.subgraphs[s].accRewardsPerAllocatedToken =
                  AccRewardsPerAllocatedToken(r, l, c, s)]

\* onSubgraphAllocationUpdate: the accumulators above it are read up to date but
\* not written.
CanUpdateAllocation(r, l, c, s) == NewRewardsForSubgraph(r, l, c, s) >= 0

AllocationUpdated(r, l, c, s) ==
    [r EXCEPT !.subgraphs[s] =
        [@ EXCEPT !.accRewardsPerAllocatedToken = AccRewardsPerAllocatedToken(r, l, c, s),
                  !.accRewardsForSubgraphSnapshot = AccRewardsForSubgraph(r, l, c, s)]]

\* A transaction that changes nothing but the accumulators.
Update(r) == /\ rewards' = r
             /\ UNCHANGED <<vars, curationVars, denylist, subgraphAvailabilityOracle>>

\* Anyone may call the hooks.
UpdateAccRewardsPerSignal == Update(Checkpointed(rewards, ledger, curationLedger))

OnSubgraphSignalUpdate(s) == Update(SignalUpdated(rewards, ledger, curationLedger, s))

OnSubgraphAllocationUpdate(s) ==
    /\ CanUpdateAllocation(rewards, ledger, curationLedger, s)
    /\ Update(AllocationUpdated(rewards, ledger, curationLedger, s))

-----------------------------------------------------------------------------
(* Curation with its hook *)

\* Both update the deployment first and move the tokens then.
SignalMint(curator, s, tokensIn, signalOutMin) ==
    /\ Mint(curator, s, tokensIn, signalOutMin)
    /\ rewards' = SignalUpdated(rewards, ledger, curationLedger, s)
    /\ UNCHANGED <<vars, denylist, subgraphAvailabilityOracle>>

SignalBurn(curator, s, signalIn, tokensOutMin) ==
    /\ Burn(curator, s, signalIn, tokensOutMin)
    /\ rewards' = SignalUpdated(rewards, ledger, curationLedger, s)
    /\ UNCHANGED <<vars, denylist, subgraphAvailabilityOracle>>

-----------------------------------------------------------------------------
(* Staking with its hooks *)

DeploymentOf(l, id) == l.allocations[id].subgraphDeploymentID

\* Faulty variant: the new allocation starts from the accumulator as it was stored.
OpenedStale(r, l, s, id) ==
    [AllocationUpdated(r, l, curationLedger, s) EXCEPT
        !.atOpening[id] = r.subgraphs[s].accRewardsPerAllocatedToken]

\* _allocate: the new allocation starts from the updated accumulator.
CanOpen(r, l, s) == CanUpdateAllocation(r, l, curationLedger, s)

Opened(r, l, s, id) ==
    LET updated == AllocationUpdated(r, l, curationLedger, s)
    IN  [updated EXCEPT
            !.atOpening[id] = updated.subgraphs[s].accRewardsPerAllocatedToken]

IsDenied(s) == denylist[s] > 0

\* What the allocation has gained since it was opened, before _calcRewards
\* multiplies it; below zero the checked subtraction reverts.
NewAccrued(r, l, id) ==
    AccRewardsPerAllocatedToken(r, l, curationLedger, DeploymentOf(l, id)) - r.atOpening[id]

CalcRewards(r, l, id) == (NewAccrued(r, l, id) * l.allocations[id].tokens) \div TokenDecimals

\* Rewards are taken by the indexer or its operator with a proof of indexing;
\* other closes only update the accumulator.
TakesRewards(l, sender, id, poi) == poi /\ IsAuth(sender, l.allocations[id].indexer)

\* takeRewards, with nothing for a denied deployment.
RewardsTaken(r, l, sender, id, poi) ==
    IF TakesRewards(l, sender, id, poi) /\ ~IsDenied(DeploymentOf(l, id))
    THEN CalcRewards(r, l, id) ELSE 0

CanTake(r, l, sender, id, poi) ==
    /\ CanUpdateAllocation(r, l, curationLedger, DeploymentOf(l, id))
    /\ TakesRewards(l, sender, id, poi) /\ ~IsDenied(DeploymentOf(l, id))
          => NewAccrued(r, l, id) >= 0

Taken(r, l, sender, id, poi) ==
    LET s == DeploymentOf(l, id)
    IN  [AllocationUpdated(r, l, curationLedger, s) EXCEPT
            !.assigned[s] = @ + RewardsTaken(r, l, sender, id, poi)]

RewardsUnmoved == UNCHANGED <<curationVars, denylist, subgraphAvailabilityOracle>>

RewardedAllocate(sender, indexer, s, tokens, id) ==
    /\ Allocate(sender, indexer, s, tokens, id)
    /\ CanOpen(rewards, ledger, s)
    /\ rewards' = Opened(rewards, ledger, s, id)
    /\ RewardsUnmoved

RewardedClose(sender, id, poi) ==
    /\ NotPaused
    /\ CanClose(ledger, sender, id)
    /\ CanTake(rewards, ledger, sender, id, poi)
    /\ Commit(Closed(ledger, id, RewardsTaken(rewards, ledger, sender, id, poi)))
    /\ rewards' = Taken(rewards, ledger, sender, id, poi)
    /\ RewardsUnmoved

\* closeAllocationMany with two requests: the second sees what the first minted.
RewardedCloseMany(sender, id1, poi1, id2, poi2) ==
    /\ NotPaused
    /\ CanClose(ledger, sender, id1)
    /\ CanTake(rewards, ledger, sender, id1, poi1)
    /\ LET l == Closed(ledger, id1, RewardsTaken(rewards, ledger, sender, id1, poi1))
           r == Taken(rewards, ledger, sender, id1, poi1)
       IN  /\ CanClose(l, sender, id2)
           /\ CanTake(r, l, sender, id2, poi2)
           /\ Commit(Closed(l, id2, RewardsTaken(r, l, sender, id2, poi2)))
           /\ rewards' = Taken(r, l, sender, id2, poi2)
    /\ RewardsUnmoved

RewardedCloseAndAllocate(sender, closing, poi, indexer, s, tokens, id) ==
    /\ NotPaused
    /\ CanClose(ledger, sender, closing)
    /\ CanTake(rewards, ledger, sender, closing, poi)
    /\ LET l == Closed(ledger, closing, RewardsTaken(rewards, ledger, sender, closing, poi))
           r == Taken(rewards, ledger, sender, closing, poi)
       IN  /\ CanAllocate(l, sender, indexer, tokens, id)
           /\ CanOpen(r, l, s)
           /\ Commit(Allocated(l, indexer, s, tokens, id))
           /\ rewards' = Opened(r, l, s, id)
    /\ RewardsUnmoved

\* The curators' part of the fees goes to their pool, without any hook.
CuratedCollect(holder, tokens, id) ==
    LET s    == DeploymentOf(ledger, id)
        fees == CurationFees(tokens, id, IsCurated(s))
    IN  /\ StateOf(ledger, id) # "Null"
        /\ Collect(holder, tokens, id, IsCurated(s))
        /\ CommitCuration(IF fees > 0 THEN FeesCollected(s, fees) ELSE curationLedger)
        /\ UNCHANGED rewardsVars

-----------------------------------------------------------------------------
(* Governance and the oracle *)

\* The blocks so far are paid at the old rate.
SetIssuanceRate(rate) ==
    /\ rate >= TokenDecimals
    /\ Update([Checkpointed(rewards, ledger, curationLedger) EXCEPT !.issuanceRate = rate])

SetSubgraphAvailabilityOracle(account) ==
    /\ subgraphAvailabilityOracle' = account
    /\ UNCHANGED <<vars, curationVars, rewards, denylist>>

SinceBlock(deny) == IF deny THEN block ELSE 0

SetDenied(sender, s, deny) ==
    /\ sender = subgraphAvailabilityOracle
    /\ denylist' = [denylist EXCEPT ![s] = SinceBlock(deny)]
    /\ UNCHANGED <<vars, curationVars, rewards, subgraphAvailabilityOracle>>

\* setDeniedMany with two deployments; the last word on a deployment counts.
SetDeniedMany(sender, s1, deny1, s2, deny2) ==
    /\ sender = subgraphAvailabilityOracle
    /\ denylist' = [[denylist EXCEPT ![s1] = SinceBlock(deny1)] EXCEPT ![s2] = SinceBlock(deny2)]
    /\ UNCHANGED <<vars, curationVars, rewards, subgraphAvailabilityOracle>>

-----------------------------------------------------------------------------
(* Next-state relation *)

\* The steps of the staking contract that call no hook.
UnrewardedSteps ==
    /\ \/ NextBlock
       \/ IndexerSteps
       \/ SlasherSteps
       \/ DelegatorSteps
       \/ ClaimSteps
       \/ GovernorSteps
    /\ UNCHANGED <<curationVars, rewardsVars>>

RewardedSteps ==
    \E sender \in Accounts, id \in AllocationIDs :
        \/ \E i \in Indexers, s \in Subgraphs, tokens \in AllocateAmounts :
               RewardedAllocate(sender, i, s, tokens, id)
        \/ \E poi \in BOOLEAN : RewardedClose(sender, id, poi)
        \/ \E poi1, poi2 \in BOOLEAN, id2 \in AllocationIDs :
               RewardedCloseMany(sender, id, poi1, id2, poi2)
        \/ \E poi \in BOOLEAN, i \in Indexers, s \in Subgraphs, tokens \in AllocateAmounts,
              id2 \in AllocationIDs : RewardedCloseAndAllocate(sender, id, poi, i, s, tokens, id2)
        \/ \E tokens \in FeeAmounts : CuratedCollect(sender, tokens, id)

SignalSteps ==
    \/ \E c \in Curators, s \in Subgraphs, m \in SlippageBounds :
          \/ \E t \in SignalDeposits : SignalMint(c, s, t, m)
          \/ \E n \in SignalAmounts : SignalBurn(c, s, n, m)
    \/ /\ TransferSteps \/ SettingSteps
       /\ UNCHANGED <<vars, rewardsVars>>

HookSteps ==
    \/ UpdateAccRewardsPerSignal
    \/ \E s \in Subgraphs : OnSubgraphSignalUpdate(s) \/ OnSubgraphAllocationUpdate(s)

RewardsGovernorSteps ==
    \/ \E rate \in IssuanceRates : SetIssuanceRate(rate)
    \/ \E account \in OracleChoices : SetSubgraphAvailabilityOracle(account)
    \/ \E sender \in Accounts, s \in DenyChoices, deny \in BOOLEAN :
          \/ SetDenied(sender, s, deny)
          \/ \E t \in DenyChoices, deny2 \in BOOLEAN : SetDeniedMany(sender, s, deny, t, deny2)

RewardsNext == \/ UnrewardedSteps
               \/ RewardedSteps
               \/ SignalSteps
               \/ block \in CallBlocks /\ (HookSteps \/ RewardsGovernorSteps)

RewardsSpec == RewardsInit /\ [][RewardsNext]_protocolVars
=============================================================================
