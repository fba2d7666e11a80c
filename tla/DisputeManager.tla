--------------------------- MODULE DisputeManager ---------------------------
(***************************************************************************)
(* contracts/disputes/DisputeManager.sol composed with the staking         *)
(* contract it slashes: fishermen dispute the attestations and the         *)
(* allocations of indexers against a deposit, and an arbitrator accepts,   *)
(* rejects or draws each dispute.  Nothing here waits for the pauses of    *)
(* the protocol, except that an accepted dispute slashes.                  *)
(*                                                                         *)
(* A dispute ID is a hash of what identifies the dispute; here it is the   *)
(* tuple that is hashed.  An attestation is its receipt and the allocation *)
(* key that its signature recovers to.                                     *)
(***************************************************************************)
EXTENDS Staking

CONSTANTS
    DisputeManagerAddress,
    Fishermen,               \* the accounts whose disputes are modelled
    Requests,                \* requestCIDs
    Responses,               \* responseCIDs
    InitialArbitrator,
    InitialDisputeParams,    \* the settings passed to initialize()
    DepositAmounts,          \* _deposit of a new dispute
    DisputeSettingChoices,   \* [setting -> values the governor may set]
    ArbitratorChoices        \* accounts the governor may make arbitrator

DisputePercentages == {"fishermanRewardPercentage", "qrySlashingPercentage",
                       "idxSlashingPercentage"}
DisputeSettings    == {"minimumDeposit"} \cup DisputePercentages

\* The settings the governor's setters, and initialize(), accept.
DisputeParams == {p \in [DisputeSettings -> Nat] :
                     /\ p["minimumDeposit"] > 0
                     /\ \A x \in DisputePercentages : p[x] <= MAX_PPM}

ASSUME DisputeAssumption ==
    /\ DisputeManagerAddress \in Contracts
    /\ InitialSlashers = {DisputeManagerAddress}
    /\ Fishermen \subseteq Accounts
    /\ InitialArbitrator \in Accounts
    /\ InitialDisputeParams \in DisputeParams
    /\ DepositAmounts \subseteq Nat
    /\ DisputeSettingChoices \in [DisputeSettings -> SUBSET Nat]
    /\ ArbitratorChoices \subseteq Accounts

VARIABLES
    disputes,                \* dispute ID -> Dispute
    disputeParams,           \* the settings under governance
    arbitrator

disputeConfig == <<disputeParams, arbitrator>>
disputeVars   == <<disputes, disputeConfig>>
allVars       == <<vars, disputeVars>>

-----------------------------------------------------------------------------
(* Disputes *)

Attestation == [requestCID           : Requests,
                responseCID          : Responses,
                subgraphDeploymentID : Subgraphs,
                allocationID         : AllocationIDs]

QueryDisputeID(a, indexer, fisherman) ==
    <<a.requestCID, a.responseCID, a.subgraphDeploymentID, indexer, fisherman>>
IndexingDisputeID(id) == <<id>>

NoDisputeID == <<>>
DisputeIDs  == (Requests \X Responses \X Subgraphs \X Indexers \X Fishermen)
               \cup {IndexingDisputeID(id) : id \in AllocationIDs}

Dispute == [indexer          : Indexers,
            fisherman        : Fishermen,
            deposit          : Nat,
            relatedDisputeID : DisputeIDs \cup {NoDisputeID},
            disputeType      : {"IndexingDispute", "QueryDispute"}]

NoDispute == [indexer |-> NoAddress, fisherman |-> NoAddress, deposit |-> 0,
              relatedDisputeID |-> NoDisputeID, disputeType |-> "Null"]

DisputeInit ==
    /\ Init
    /\ disputes = [d \in DisputeIDs |-> NoDispute]
    /\ disputeParams = InitialDisputeParams
    /\ arbitrator = InitialArbitrator

IsDisputeCreated(d)    == disputes[d].fisherman # NoAddress
IsDisputeInConflict(d) == disputes[d].relatedDisputeID # NoDisputeID

AreConflictingAttestations(a1, a2) ==
    /\ a1.requestCID = a2.requestCID
    /\ a1.subgraphDeploymentID = a2.subgraphDeploymentID
    /\ a1.responseCID # a2.responseCID

AttestationIndexer(a) == ledger.allocations[a.allocationID].indexer

\* The allocation exists and is for the deployment the attestation names.
\* A claimed allocation still does.
IndexerFound(a) ==
    /\ AttestationIndexer(a) # NoAddress
    /\ ledger.allocations[a.allocationID].subgraphDeploymentID = a.subgraphDeploymentID

IndexerStakedTokens(i) == ledger.stakes[i].tokensStaked

\* _createQueryDisputeWithAttestation
AttestationID(a, fisherman) == QueryDisputeID(a, AttestationIndexer(a), fisherman)

\* Faulty variant: an open dispute is no obstacle.
CanDisputeAgain(a, fisherman) ==
    /\ IndexerFound(a)
    /\ IndexerStakedTokens(AttestationIndexer(a)) > 0

CanDispute(a, fisherman) ==
    /\ IndexerFound(a)
    /\ IndexerStakedTokens(AttestationIndexer(a)) > 0
    /\ ~IsDisputeCreated(AttestationID(a, fisherman))

QueryDispute(a, fisherman, deposit, related) ==
    [indexer |-> AttestationIndexer(a), fisherman |-> fisherman, deposit |-> deposit,
     relatedDisputeID |-> related, disputeType |-> "QueryDispute"]

\* _pullSubmitterDeposit
CanDeposit(deposit) == deposit >= disputeParams["minimumDeposit"]

Deposited(l, fisherman, deposit) == Transfer(l, fisherman, DisputeManagerAddress, deposit)

\* _slashIndexer: the percentages are those of the day of the decision.
SlashingPercentage(d) ==
    IF disputes[d].disputeType = "QueryDispute"
    THEN disputeParams["qrySlashingPercentage"]
    ELSE disputeParams["idxSlashingPercentage"]

SlashAmount(d) == Portion(SlashingPercentage(d), IndexerStakedTokens(disputes[d].indexer))
FishermanReward(d) == Portion(disputeParams["fishermanRewardPercentage"], SlashAmount(d))

\* Faulty variants: the deposit is forgotten, the reward is paid with it.
DepositForgotten(l, d) == l
RewardedWithDeposit(l, d) ==
    Transfer(l, DisputeManagerAddress, disputes[d].fisherman,
             disputes[d].deposit + FishermanReward(d))

\* The deposit of a resolved dispute, returned or burned.
Returned(l, d) == Transfer(l, DisputeManagerAddress, disputes[d].fisherman, disputes[d].deposit)
Burned(l, d)   == [l EXCEPT !.grt[DisputeManagerAddress] = @ - disputes[d].deposit]

\* Faulty variant: a resolved dispute stays.
WithoutNone(ids) == disputes

\* _resolveDispute and _resolveDisputeInConflict: the related dispute goes too.
Without(ids) == [d \in DisputeIDs |-> IF d \in ids THEN NoDispute ELSE disputes[d]]

-----------------------------------------------------------------------------
(* Fishermen *)

CreateQueryDispute(fisherman, deposit, a) ==
    /\ CanDeposit(deposit)
    /\ CanDispute(a, fisherman)
    /\ Commit(Deposited(ledger, fisherman, deposit))
    /\ disputes' = [disputes EXCEPT ![AttestationID(a, fisherman)] =
                       QueryDispute(a, fisherman, deposit, NoDisputeID)]
    /\ UNCHANGED disputeConfig

\* No deposit: one of the two is taken to be right.
CreateQueryDisputeConflict(fisherman, a1, a2) ==
    LET d1 == AttestationID(a1, fisherman)
        d2 == AttestationID(a2, fisherman)
    IN  /\ AreConflictingAttestations(a1, a2)
        /\ CanDispute(a1, fisherman)
        /\ CanDispute(a2, fisherman)
        /\ disputes' = [disputes EXCEPT ![d1] = QueryDispute(a1, fisherman, 0, d2),
                                        ![d2] = QueryDispute(a2, fisherman, 0, d1)]
        /\ UNCHANGED <<vars, disputeConfig>>

CreateIndexingDispute(fisherman, deposit, id) ==
    LET indexer == ledger.allocations[id].indexer
    IN  /\ CanDeposit(deposit)
        /\ ~IsDisputeCreated(IndexingDisputeID(id))
        /\ indexer # NoAddress
        /\ IndexerStakedTokens(indexer) > 0
        /\ Commit(Deposited(ledger, fisherman, deposit))
        /\ disputes' = [disputes EXCEPT ![IndexingDisputeID(id)] =
                           [indexer |-> indexer, fisherman |-> fisherman,
                            deposit |-> deposit, relatedDisputeID |-> NoDisputeID,
                            disputeType |-> "IndexingDispute"]]
        /\ UNCHANGED disputeConfig

-----------------------------------------------------------------------------
(* The arbitrator *)

AcceptDispute(sender, d) ==
    LET indexer == disputes[d].indexer
        tokens  == SlashAmount(d)
        reward  == FishermanReward(d)
    IN  /\ sender = arbitrator
        /\ IsDisputeCreated(d)
        /\ CanSlash(ledger, DisputeManagerAddress, indexer, tokens, reward)
        /\ Commit(Returned(Slashed(ledger, indexer, tokens, reward, disputes[d].fisherman), d))
        /\ disputes' = Without({d, disputes[d].relatedDisputeID})
        /\ UNCHANGED disputeConfig

RejectDispute(sender, d) ==
    /\ sender = arbitrator
    /\ IsDisputeCreated(d)
    /\ ~IsDisputeInConflict(d)
    /\ Commit(Burned(ledger, d))
    /\ disputes' = Without({d})
    /\ UNCHANGED disputeConfig

DrawDispute(sender, d) ==
    /\ sender = arbitrator
    /\ IsDisputeCreated(d)
    /\ Commit(Returned(ledger, d))
    /\ disputes' = Without({d, disputes[d].relatedDisputeID})
    /\ UNCHANGED disputeConfig

-----------------------------------------------------------------------------
(* Governance *)

SetArbitrator(account) ==
    /\ arbitrator' = account
    /\ UNCHANGED <<vars, disputes, disputeParams>>

SetMinimumDeposit(deposit) ==
    /\ deposit > 0
    /\ disputeParams' = [disputeParams EXCEPT !["minimumDeposit"] = deposit]
    /\ UNCHANGED <<vars, disputes, arbitrator>>

SetFishermanRewardPercentage(percentage) ==
    /\ percentage <= MAX_PPM
    /\ disputeParams' = [disputeParams EXCEPT !["fishermanRewardPercentage"] = percentage]
    /\ UNCHANGED <<vars, disputes, arbitrator>>

SetSlashingPercentage(qryPercentage, idxPercentage) ==
    /\ qryPercentage <= MAX_PPM
    /\ idxPercentage <= MAX_PPM
    /\ disputeParams' = [disputeParams EXCEPT !["qrySlashingPercentage"] = qryPercentage,
                                              !["idxSlashingPercentage"] = idxPercentage]
    /\ UNCHANGED <<vars, disputes, arbitrator>>

-----------------------------------------------------------------------------
(* Next-state relation *)

FishermanSteps ==
    \E fisherman \in Fishermen :
        \/ \E deposit \in DepositAmounts, a \in Attestation :
               CreateQueryDispute(fisherman, deposit, a)
        \/ \E a1, a2 \in Attestation : CreateQueryDisputeConflict(fisherman, a1, a2)
        \/ \E deposit \in DepositAmounts, id \in AllocationIDs :
               CreateIndexingDispute(fisherman, deposit, id)

ArbitratorSteps ==
    \E sender \in Accounts, d \in DisputeIDs :
        \/ AcceptDispute(sender, d)
        \/ RejectDispute(sender, d)
        \/ DrawDispute(sender, d)

DisputeGovernorSteps ==
    \/ \E account \in ArbitratorChoices : SetArbitrator(account)
    \/ \E deposit \in DisputeSettingChoices["minimumDeposit"] : SetMinimumDeposit(deposit)
    \/ \E p \in DisputeSettingChoices["fishermanRewardPercentage"] :
           SetFishermanRewardPercentage(p)
    \/ \E q \in DisputeSettingChoices["qrySlashingPercentage"],
          x \in DisputeSettingChoices["idxSlashingPercentage"] : SetSlashingPercentage(q, x)

\* A step of the staking contract leaves the disputes alone.
StakingSteps == Next /\ UNCHANGED disputeVars

DisputeNext == \/ StakingSteps
               \/ FishermanSteps
               \/ ArbitratorSteps
               \/ DisputeGovernorSteps

DisputeSpec == DisputeInit /\ [][DisputeNext]_allVars
=============================================================================
