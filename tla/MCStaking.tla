----------------------------- MODULE MCStaking -----------------------------
(***************************************************************************)
(* Instances of Staking.tla for TLC.  Each configuration opens one part of *)
(* the contract and keeps the inputs of the others empty.                  *)
(***************************************************************************)
EXTENDS StakingProperties, TLC

CONSTANTS ann, bob, eve,      \* accounts
          a1, a2, a3,         \* allocation IDs
          s1, s2              \* subgraph deployments

\* Allocation keys that belong to the same indexers are interchangeable.
A1AndA2 == Permutations({a1, a2})

Half == 500000

\* Settings as initialize() might be given them, scaled down.
BaseParams ==
    [x \in Settings |->
        CASE x = "minimumIndexerStake"       -> 2
          [] x = "thawingPeriod"             -> 2
          [] x = "channelDisputeEpochs"      -> 1
          [] x = "delegationUnbondingPeriod" -> 1
          [] x = "maxAllocationEpochs"       -> 1
          [] x = "delegationRatio"           -> 1
          [] x \in {"alphaNumerator"}        -> 1
          [] x \in {"alphaDenominator"}      -> 2
          [] OTHER                           -> 0]

TaxedParams == [BaseParams EXCEPT !["delegationTaxPercentage"] = Half,
                                  !["minimumIndexerStake"] = 1]

FeeParams == [BaseParams EXCEPT !["curationPercentage"] = Half]

\* The whole stake is the minimum, so that it is unstaked whole or not at all.
WholeStakeParams == [FeeParams EXCEPT !["minimumIndexerStake"] = 5]

NoChoices == [x \in Settings |-> {}]

\* alpha = 2, which setRebateRatio does not refuse.
AlphaTwo == {<<2, 1>>}

DisputeChoices == [NoChoices EXCEPT !["channelDisputeEpochs"] = {1, 2}]

\* Values the setters accept, and one that each kind of setter refuses.
StakeChoices == [NoChoices EXCEPT !["thawingPeriod"] = {0, 1, 3},
                                  !["delegationTaxPercentage"] = {MAX_PPM + 1}]

AnnOnly       == [x \in Accounts |-> IF x = ann THEN 5 ELSE 0]
AllocationGRT == [x \in Accounts |-> IF x = ann THEN 5 ELSE 4]
EveryoneThree == [x \in Accounts |-> 3]

\* Every indexer modelled can prove ownership of every allocation key.
AllKeys == Indexers \X AllocationIDs
AnnKeys == {ann} \X AllocationIDs
=============================================================================
