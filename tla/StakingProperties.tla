------------------------- MODULE StakingProperties -------------------------
(***************************************************************************)
(* What Staking.tla promises: the accounts that must agree with each other *)
(* in every state, what no transaction may do, and that nobody's way out   *)
(* of the contract is blocked by a subtraction that reverts.               *)
(***************************************************************************)
EXTENDS Staking

\* The variables range over what their declarations say.
TypeOK ==
    /\ ClockTypeOK
    /\ ledger \in Ledger
    /\ operatorAuth \in [Indexers -> SUBSET Operators]
    /\ rewardsDestination \in [Indexers -> Destinations \cup {NoAddress}]
    /\ params \in Params
    /\ slashers \subseteq Accounts \cup Contracts
    /\ assetHolders \subseteq Accounts
    /\ paused \in BOOLEAN
    /\ partialPaused \in BOOLEAN

-----------------------------------------------------------------------------
(* Accounts that agree *)

\* No more tokens are locked than staked, even after a slash: the checked
\* subtraction of tokensSecureStake (Stakes.sol:138) and the release in
\* withdrawTokens never revert, so a slashed indexer can still stake and leave.
LockedWithinStake ==
    \A i \in Indexers : SecureStakeDefined(ledger.stakes[i])

\* There is a thawing deadline exactly while tokens are locked.  A leftover
\* deadline would be harmless to tokensWithdrawable, but locked tokens without
\* one could never be withdrawn (Stakes.sol:191).
LockHasDeadline ==
    \A i \in Indexers :
        ledger.stakes[i].tokensLocked = 0 <=> ledger.stakes[i].tokensLockedUntil = 0

\* A slash, which may reach into the thawing queue, leaves both as they must be:
\* no more locked than staked, and a deadline for what is locked.
StakesSound == LockedWithinStake /\ LockHasDeadline

AllocationsIn(states) == {id \in AllocationIDs : StateOf(ledger, id) \in states}

AllocatedTokens(ids) == SumFunction([id \in ids |-> ledger.allocations[id].tokens])

\* The running totals of _allocate and _closeAllocation, per indexer and per
\* deployment, are the sums over the active allocations: the two checked
\* subtractions of a close never revert and rewards are shared over the right total.
AllocatedAddsUp ==
    LET active == AllocationsIn({"Active"})
        Of(i)  == {id \in active : ledger.allocations[id].indexer = i}
        On(s)  == {id \in active : ledger.allocations[id].subgraphDeploymentID = s}
    IN  /\ \A i \in Indexers :
              ledger.stakes[i].tokensAllocated = AllocatedTokens(Of(i))
        /\ \A s \in Subgraphs : ledger.subgraphAllocations[s] = AllocatedTokens(On(s))

\* The shares of a pool are the shares of its delegators.
SharesAddUp ==
    \A i \in Indexers :
        ledger.delegationPools[i].shares =
            SumFunction([d \in Delegators |-> ledger.delegations[i][d].shares])

\* A share is worth a token at least, so the division by the pool's shares is
\* defined whenever someone holds shares and shares always pay something.
PoolCoversShares ==
    \A i \in Indexers :
        LET pool == ledger.delegationPools[i]
        IN  /\ pool.shares <= pool.tokens
            /\ pool.shares = 0 => pool.tokens = 0

AwaitingClaim(e) == {id \in AllocationsIn({"Closed", "Finalized"}) :
                        ledger.allocations[id].closedAtEpoch = e}

\* A rebate pool exists, and counts, exactly while allocations closed in its
\* epoch have still to claim: the unchecked counter never wraps, no pool is
\* deleted under a claim and none outlives the last one.
RebateCountExact ==
    \A e \in Epochs :
        /\ ledger.rebates[e].unclaimedAllocationsCount = Cardinality(AwaitingClaim(e))
        /\ PoolExists(ledger.rebates[e]) <=> AwaitingClaim(e) # {}

\* What the allocations still to claim put into their pool is in its totals:
\* the ratios handed to the Cobb-Douglas function are at most 1, as
\* Cobbs.sol:31-32 requires of its caller, and no more is claimed than was
\* collected.
RebateTotalsCover ==
    \A e \in Epochs :
        LET pool   == ledger.rebates[e]
            fees   == [id \in AwaitingClaim(e) |-> ledger.allocations[id].collectedFees]
            stakes == [id \in AwaitingClaim(e) |-> ledger.allocations[id].effectiveAllocation]
        IN  /\ SumFunction(fees) <= pool.fees
            /\ SumFunction(stakes) <= pool.effectiveAllocatedStake
            /\ pool.claimedRewards <= pool.fees

\* The unclaimed allocations of an epoch and its rebate pool agree, in number and
\* in totals.
RebatesSound == RebateCountExact /\ RebateTotalsCover

\* What the contract owes: stakes, delegation pools, undelegated tokens, the
\* fees of active allocations and the unclaimed fees of the rebate pools.
Liabilities ==
      SumFunction([i \in Indexers |-> ledger.stakes[i].tokensStaked
                                      + ledger.delegationPools[i].tokens])
    + SumFunction([p \in Indexers \X Delegators |->
                      ledger.delegations[p[1]][p[2]].tokensLocked])
    + SumFunction([id \in AllocationsIn({"Active"}) |->
                      ledger.allocations[id].collectedFees])
    + SumFunction([e \in Epochs |-> UnclaimedFees(ledger.rebates[e])])

\* The contract holds exactly what it owes: no sequence of deposits, slashes,
\* taxes, rewards and rebates leaves it short or strands tokens in it.  GRT sent
\* to the contract by a plain transfer would be beyond this, and stay there.
Solvent == ledger.grt[StakingAddress] = Liabilities

\* Every running total is the sum of its parts, over any sequence of transactions.
TotalsAddUp == Solvent /\ SharesAddUp /\ AllocatedAddsUp

-----------------------------------------------------------------------------
(* What no transaction may do *)

SlashStep(i) == \E slasher, to \in Accounts, tokens, reward \in StakeAmounts \cup {0} :
                    Slash(slasher, i, tokens, reward, to)

\* Thawing is never cut short: while tokens stay locked their deadline moves
\* before the old one only if a full new period ends before it, and a new
\* request never thaws in the block it is made (Stakes.sol:68-87 averages).
NoEarlyThaw ==
    [][\A i \in Indexers :
          LET s == ledger.stakes[i]
              t == ledger'.stakes[i]
          IN  /\ s.tokensLocked > 0 /\ t.tokensLocked > 0 =>
                    t.tokensLockedUntil >= MathMin(s.tokensLockedUntil,
                                                   block + params["thawingPeriod"])
              /\ t.tokensLocked > s.tokensLocked => t.tokensLockedUntil > block]_vars

\* Only a slash or a new minimum leaves an indexer with some stake below the
\* minimum (the checks of stakeTo and unstake, Staking.sol:697 and 728).
MinimumStakeKept ==
    [][\A i \in Indexers :
          LET Secure(l) == TokensSecureStake(l.stakes[i])
              minimum   == params["minimumIndexerStake"]
          IN  (Secure(ledger) >= minimum /\ Secure(ledger') \in 1 .. (minimum - 1))
                  => SlashStep(i)]_vars

\* Entering, leaving, rewards and slashes never make a remaining share of a
\* delegation pool worth less: rounding always favours those who stay.
SharePriceNeverDrops ==
    [][\A i \in Indexers :
          LET p == ledger.delegationPools[i]
              q == ledger'.delegationPools[i]
          IN  p.shares > 0 /\ q.shares > 0 =>
                  p.tokens * q.shares <= q.tokens * p.shares]_vars

\* The pools as the delegators see them.
DelegatorView ==
    [i \in Indexers |->
        [tokens  |-> ledger.delegationPools[i].tokens,
         shares  |-> ledger.delegationPools[i].shares,
         shareOf |-> [d \in Delegators |-> ledger.delegations[i][d].shares]]]

Vault == INSTANCE DelegationVault WITH vault <- DelegatorView

\* The contract implements the delegators' promise of DelegationVault.tla: pool
\* tokens move only when someone enters, leaves or earns rewards, each at a fair
\* price, whatever slashes, taxes, closings and settings come in between.
VaultsKept == Vault!Spec

\* The states an allocation may go to next.  A finalized allocation is closed
\* again only when the governor lengthens the dispute period.
Successors(state) ==
    CASE state = "Null"      -> {"Null", "Active"}
      [] state = "Active"    -> {"Active", "Closed"}
      [] state = "Closed"    -> {"Closed", "Finalized"}
      [] state = "Finalized" -> {"Finalized", "Claimed"}
                                \cup IF params' # params THEN {"Closed"} ELSE {}
      [] state = "Claimed"   -> {"Claimed"}

\* An allocation goes through its states in order, its identifier is never used
\* again and it never changes hands (Staking.sol:1124-1125 and 1257-1260).
AllocationLifecycle ==
    [][\A id \in AllocationIDs :
          LET a == ledger.allocations[id]
              b == ledger'.allocations[id]
          IN  /\ StateOf(ledger, id)' \in Successors(StateOf(ledger, id))
              /\ a.indexer # NoAddress =>
                    /\ b.indexer = a.indexer
                    /\ b.subgraphDeploymentID = a.subgraphDeploymentID]_vars

\* Once an allocation is final its fees, and those of the pool it shares, stay
\* as they are: the order in which the claims come changes no one's share.
FinalFeesFrozen ==
    [][\A id \in AllocationIDs :
          LET e == ledger.allocations[id].closedAtEpoch
          IN  StateOf(ledger, id) = "Finalized" /\ StateOf(ledger, id)' = "Finalized" =>
                 /\ ledger'.allocations[id].collectedFees = ledger.allocations[id].collectedFees
                 /\ ledger'.rebates[e].fees = ledger.rebates[e].fees]_vars

\* The switches of the guardian stop what they should: paused, no account is
\* paid any GRT and no allocation opens, closes or is claimed; partially paused,
\* no GRT enters a stake or a pool from an account and none starts to leave.
PauseRespected ==
    [][/\ paused =>
            /\ \A h \in Accounts : ledger'.grt[h] <= ledger.grt[h]
            /\ \A id \in AllocationIDs :
                  LET Opened(l) == l.allocations[id].indexer
                      Closing(l) == l.allocations[id].closedAtEpoch
                  IN  Opened(ledger') = Opened(ledger) /\ Closing(ledger') = Closing(ledger)
       /\ paused \/ partialPaused =>
            /\ \A i \in Indexers :
                  ledger'.stakes[i].tokensLocked <= ledger.stakes[i].tokensLocked
            /\ \A i \in Indexers, d \in Delegators :
                  ledger'.delegations[i][d].shares >= ledger.delegations[i][d].shares
            /\ \A h \in Accounts \ assetHolders : ledger'.grt[h] >= ledger.grt[h]]_vars

-----------------------------------------------------------------------------
(* Exits that stay open *)

\* Unless the protocol is paused no indexer is locked in, slashed or not: thawed
\* stake can be withdrawn, an allocation that is an epoch old closed, whatever is
\* left of the stake behind it, and with nothing allocated all free stake unstaked.
\* Each could be stopped by a checked subtraction or a transfer (Stakes.sol:58, 106
\* and 138, Staking.sol:1221).
IndexersCanLeave ==
    /\ NotPaused =>
         /\ \A i \in Indexers :
               TokensWithdrawable(ledger.stakes[i], block) > 0 => ENABLED Withdraw(i)
         /\ \A id \in AllocationsIn({"Active"}) :
               LET alloc == ledger.allocations[id]
               IN  epoch > alloc.createdAtEpoch =>
                       ENABLED CloseAllocation(alloc.indexer, id)
    /\ NotPartialPaused =>
         \A i \in Indexers :
             LET free == TokensAvailable(ledger.stakes[i])
             IN  free > 0 /\ ledger.stakes[i].tokensAllocated = 0 =>
                     ENABLED Unstake(i, free)

\* A final allocation can be claimed by anyone, in whatever order the others of
\* its pool are, although rebates may ask for more than the pool has: unless an
\* alpha above 1 (setRebateRatio, Staking.sol:364) meets a fee ratio above the stake
\* ratio, for which Cobbs.sol:86-88 may divide by zero.
ClaimsOpen ==
    NotPaused =>
        \A id \in AllocationsIn({"Finalized"}), sender \in Accounts :
            LET alloc == ledger.allocations[id]
                pool  == ledger.rebates[alloc.closedAtEpoch]
            IN  PowerIsSafe(pool, alloc.collectedFees, alloc.effectiveAllocation) =>
                    ENABLED Claim(sender, id, FALSE)

-----------------------------------------------------------------------------
(* Thawing ends *)

\* Blocks keep coming and an indexer who can withdraw in the end does.
FairSpec == /\ Spec
            /\ WF_vars(NextBlock)
            /\ \A i \in Indexers : WF_vars(Withdraw(i))

\* Locked tokens that thaw within the modelled blocks leave the thawing queue,
\* unless the indexer moves the deadline beyond them by unstaking more.
ThawingEnds ==
    \A i \in Indexers :
        LET s == ledger.stakes[i]
        IN  (s.tokensLocked > 0 /\ s.tokensLockedUntil <= MaxBlock)
               ~> (s.tokensLocked = 0 \/ s.tokensLockedUntil > MaxBlock)
=============================================================================
