-------------------------- MODULE DisputeProperties -------------------------
(***************************************************************************)
(* What the dispute manager promises to fishermen, indexers and the        *)
(* arbitrator, on top of a staking contract that goes on working.          *)
(***************************************************************************)
EXTENDS DisputeManager, StakingProperties

\* The variables range over what their declarations say.
DisputeTypeOK ==
    /\ TypeOK
    /\ disputes \in [DisputeIDs -> Dispute \cup {NoDispute}]
    /\ disputeParams \in DisputeParams
    /\ arbitrator \in Accounts

OpenDisputes == {d \in DisputeIDs : IsDisputeCreated(d)}

\* The deposits of the open disputes are exactly what the contract holds: none
\* is lost with a related dispute, paid out twice or left behind.
DepositsHeld ==
    ledger.grt[DisputeManagerAddress] =
        SumFunction([d \in OpenDisputes |-> disputes[d].deposit])

\* Conflicting disputes come in pairs that point at each other, opened by one
\* fisherman without a deposit: deleting the related dispute of a resolved one
\* (DisputeManager.sol:656-663) never deletes anyone else's dispute or deposit.
LinkedInPairs ==
    \A d \in OpenDisputes :
        LET related == disputes[d].relatedDisputeID
        IN  IsDisputeInConflict(d) =>
                /\ related \in OpenDisputes \ {d}
                /\ disputes[related].relatedDisputeID = d
                /\ disputes[related].fisherman = disputes[d].fisherman
                /\ disputes[d].deposit = 0

\* Whatever happened to the indexer since, and paused or not, the arbitrator can
\* end every dispute with a draw; and it can accept one exactly when there is
\* something to slash, slashing is not paused and the contract is still a slasher.
EveryDisputeCanEnd ==
    \A d \in OpenDisputes :
        /\ ENABLED DrawDispute(arbitrator, d)
        /\ ENABLED AcceptDispute(arbitrator, d)
              <=> /\ SlashAmount(d) > 0
                  /\ NotPartialPaused
                  /\ DisputeManagerAddress \in slashers

\* An open dispute stays what it was until it is resolved: its indexer, its
\* fisherman and its deposit are those it was opened with.
DisputesStand ==
    [][\A d \in OpenDisputes :
          disputes'[d] \in {disputes[d], NoDispute}]_allVars

\* A stake shrinks in two ways only: thawed tokens are withdrawn, or a dispute
\* against this indexer is resolved, at most one in a transaction, and then by
\* the percentage set for the kind of dispute.
SlashedByDispute ==
    [][\A i \in Indexers :
          LET s == ledger.stakes[i]
              t == ledger'.stakes[i]
          IN  t.tokensStaked < s.tokensStaked =>
                 \/ s.tokensStaked - t.tokensStaked = TokensWithdrawable(s, block)
                 \/ \E d \in OpenDisputes :
                       /\ disputes[d].indexer = i
                       /\ disputes'[d] = NoDispute
                       /\ s.tokensStaked - t.tokensStaked = SlashAmount(d)
                       /\ \A j \in Indexers \ {i} : ledger'.stakes[j] = ledger.stakes[j]]_allVars

\* A dispute that leaves takes only its related dispute with it, and its deposit
\* goes back to its fisherman unless it was rejected: then the fisherman gets
\* nothing and the deposit is burned.
DepositsSettled ==
    [][\A d \in OpenDisputes :
          disputes'[d] = NoDispute =>
              LET fisherman == disputes[d].fisherman
                  deposit   == disputes[d].deposit
                  related   == disputes[d].relatedDisputeID
              IN  /\ \A other \in OpenDisputes \ {d, related} :
                        disputes'[other] = disputes[other]
                  /\ \/ ledger'.grt[fisherman] >= ledger.grt[fisherman] + deposit
                     \/ /\ ~IsDisputeInConflict(d)
                        /\ ledger' = Burned(ledger, d)]_allVars

\* What a resolution takes: the disputes it names, their deposits, and the stake
\* of the disputed indexer.
DisputesSettled == DisputesStand /\ DepositsSettled /\ SlashedByDispute
=============================================================================
