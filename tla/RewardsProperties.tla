------------------------- MODULE RewardsProperties --------------------------
(***************************************************************************)
(* What the rewards promise to indexers and to the holders of GRT.  The    *)
(* accumulators are read between two checkpoints as if the supply and the  *)
(* signalled tokens had always been what they are now.  So the promises    *)
(* about what accrues have one exception, Repriced: the staking contract   *)
(* changed one of them without a checkpoint.  That what is paid is covered *)
(* by what accrued has none.  The code has a further exception: holders,   *)
(* minters and the dispute manager, which burns rejected deposits, change  *)
(* the supply without a checkpoint too, and are not in this model.         *)
(***************************************************************************)
EXTENDS RewardsManager

Accrued(s) == AccRewardsForSubgraph(rewards, ledger, curationLedger, s)

\* The staking contract, which takes no checkpoint, changed the supply or the
\* signalled tokens in a block after the last one, or the pool of the deployment
\* since its own.
Repriced(s) ==
    /\ ledger' # ledger
    /\ \/ /\ rewards'.accRewardsPerSignalLastBlockUpdated < block
          /\ \/ TotalSupply(ledger', curationLedger') # TotalSupply(ledger, curationLedger)
             \/ SignalledTokens(curationLedger') # SignalledTokens(curationLedger)
       \/ /\ curationLedger'.pools[s].tokens # curationLedger.pools[s].tokens
          /\ rewards'.subgraphs[s].accRewardsPerSignalSnapshot < rewards'.accRewardsPerSignal

\* Within a block no deployment gains or loses rewards by these contracts, but
\* where they reprice: whoever signals, burns,
\* allocates, closes, denies or sets a new rate, in whatever order, shares the
\* blocks to come and leaves the past as it was.
AccrualNeedsTime ==
    [][block' = block => \A s \in Subgraphs : Accrued(s)' = Accrued(s) \/ Repriced(s)
      ]_protocolVars

\* What a block may give beyond what it issues: the accumulator per signal is
\* truncated, and so is the share of each deployment, and it may catch up on both.
CaughtUp == Cardinality(Subgraphs) + SignalledTokens(curationLedger) \div TokenDecimals

\* A block gives the deployments no more than it issues, but for the truncated
\* fractions of earlier blocks.
AccrualWithinIssuance ==
    [][block' # block =>
          SumFunction([s \in Subgraphs |-> Accrued(s)' - Accrued(s)])
             <= Issued(rewards, ledger, curationLedger)' - Issued(rewards, ledger, curationLedger)
                + CaughtUp]_protocolVars

\* What a deployment accrued grows with the blocks, by what they issue, and
\* among the operations of the three contracts by nothing else.
AccrualSound == AccrualNeedsTime /\ AccrualWithinIssuance

Active(l) == {id \in AllocationIDs : StateOf(l, id) = "Active"}

\* The two checked subtractions that a close with a proof of indexing makes.
Rewardable(id) == /\ CanUpdateAllocation(rewards, ledger, curationLedger, DeploymentOf(ledger, id))
                  /\ NewAccrued(rewards, ledger, id) >= 0

\* An allocation is opened in a state in which it can be rewarded and stays so:
\* other allocations that come and go, and an accumulator that starts again from
\* zero, never make its close revert.
RewardableWhileActive ==
    [][\A id \in Active(ledger') :
          (id \in Active(ledger) => Rewardable(id))
              => Rewardable(id)' \/ Repriced(DeploymentOf(ledger', id))]_protocolVars

OpenOn(l, s) == {id \in Active(l) : DeploymentOf(l, id) = s}

\* What an open allocation would be paid now.
Pending(id) == DiffOrZero(CalcRewards(rewards, ledger, id), 0)

\* What the open allocations of a deployment would be paid and what its closed
\* ones were is covered by what the deployment accrued.
Backed(s) == rewards.assigned[s] + SumFunction([id \in OpenOn(ledger, s) |-> Pending(id)])
                 <= Accrued(s)

\* No rewards are paid twice, to two allocations or for a time before an
\* allocation was opened: whenever a close can be paid, all of them can.
RewardsCovered ==
    \A s \in Subgraphs : CanUpdateAllocation(rewards, ledger, curationLedger, s) => Backed(s)
=============================================================================
