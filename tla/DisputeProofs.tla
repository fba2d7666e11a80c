--------------------------- MODULE DisputeProofs ---------------------------
(***************************************************************************)
(* What holds of the dispute manager composed with the staking contract,   *)
(* for any accounts, stakes, attestations and percentages.                 *)
(*                                                                         *)
(* The invariant of the staking contract survives the composition: the     *)
(* dispute manager reaches its ledger by a slash and by transfers only.    *)
(* With it, the links between conflicting disputes are an invariant by     *)
(* themselves: each of a pair names the other, so both leave together.     *)
(* From the links follows that the deposits add up, since a dispute that   *)
(* leaves with the resolved one has no deposit; and from what is shown of  *)
(* every step of the staking contract, that no stake falls unexplained.    *)
(***************************************************************************)
EXTENDS DisputeProperties, StakingProofs, Sequences

\* DepositsHeld, over a function that does not shrink with the set of disputes.
DepositOf == [d \in DisputeIDs |-> disputes[d].deposit]
DepositsBooked ==
    /\ IsFiniteSet(OpenDisputes)
    /\ ledger.grt[DisputeManagerAddress] = SumFunctionOnSet(DepositOf, OpenDisputes)

\* Types, the staking contract's invariant, the links and the deposits.
DInv == /\ IInv
        /\ DisputeTypeOK
        /\ LinkedInPairs
        /\ DepositsBooked

\* DisputesStand, DepositsSettled and SlashedByDispute of one step; a stake also
\* falls when a slasher other than the dispute manager slashes it.
Standing == \A d \in OpenDisputes : disputes'[d] \in {disputes[d], NoDispute}

Settled(d) ==
    disputes'[d] = NoDispute =>
        /\ \A other \in OpenDisputes \ {d, disputes[d].relatedDisputeID} :
              disputes'[other] = disputes[other]
        /\ \/ ledger'.grt[disputes[d].fisherman]
                  >= ledger.grt[disputes[d].fisherman] + disputes[d].deposit
           \/ /\ ~IsDisputeInConflict(d)
              /\ ledger' = Burned(ledger, d)
Settling == \A d \in OpenDisputes : Settled(d)

Fallen(i) == ledger.stakes[i].tokensStaked - ledger'.stakes[i].tokensStaked

SlashedBy(d, i) == /\ disputes[d].indexer = i
                   /\ disputes'[d] = NoDispute
                   /\ Fallen(i) = SlashAmount(d)
                   /\ \A j \in Indexers \ {i} : ledger'.stakes[j] = ledger.stakes[j]

StakeExplained(i) ==
    \/ ledger'.stakes[i].tokensStaked >= ledger.stakes[i].tokensStaked
    \/ Fallen(i) = TokensWithdrawable(ledger.stakes[i], block)
    \/ \E d \in OpenDisputes : SlashedBy(d, i)
    \/ SlashStep(i)
StakesExplained == \A i \in Indexers : StakeExplained(i)

\* What is shown of every step.
GoodDisputeStep == DInv' /\ Standing /\ Settling /\ StakesExplained

\* The dispute manager and the fishermen hold tokens, each their own.
LEMMA DisputeContext ==
    /\ DisputeManagerAddress \in Holders
    /\ Fishermen \subseteq Accounts
    /\ Accounts \subseteq Holders
    /\ NoAddress \notin Accounts
    /\ DisputeManagerAddress \notin Accounts
BY DisputeAssumption, AddressAssumption DEF Holders

\* An open dispute has an indexer, a fisherman and a deposit.
LEMMA OpenDisputeGood ==
    ASSUME DInv, NEW d \in OpenDisputes
    PROVE  /\ disputes[d].indexer \in Indexers
           /\ disputes[d].fisherman \in Fishermen
           /\ disputes[d].deposit \in Nat
<1>1. d \in DisputeIDs /\ disputes[d] # NoDispute
  BY DEF OpenDisputes, IsDisputeCreated, NoDispute
<1>2. disputes[d] \in Dispute
  BY <1>1 DEF DInv, DisputeTypeOK
<1>. QED
  BY <1>2 DEF Dispute

\* The percentages are at most 100%, so that a slash takes no more than the stake
\* and the reward no more than the slash.
LEMMA SlashAmountNat ==
    ASSUME DInv, NEW d \in OpenDisputes
    PROVE  SlashAmount(d) \in Nat /\ FishermanReward(d) \in Nat
<1>1. SlashingPercentage(d) \in 0 .. MAX_PPM
      /\ disputeParams["fishermanRewardPercentage"] \in 0 .. MAX_PPM
  BY MaxPPM DEF DInv, DisputeTypeOK, DisputeParams, DisputeSettings, DisputePercentages,
     SlashingPercentage
<1>2. IndexerStakedTokens(disputes[d].indexer) \in Nat
  BY OpenDisputeGood DEF IndexerStakedTokens, DInv, IInv, Good, OpenLedger, Stake
<1>3. SlashAmount(d) \in Nat
  BY <1>1, <1>2, PortionBounds DEF SlashAmount
<1>. QED
  BY <1>1, <1>3, PortionBounds DEF FishermanReward

\* The empty link is no dispute: an ID hashes one or five values.
LEMMA NoIDOutside == NoDisputeID \notin DisputeIDs
<1>1. \A x \in Requests \X Responses \X Subgraphs \X Indexers \X Fishermen : Len(x) = 5
  OBVIOUS
<1>2. \A id \in AllocationIDs : Len(IndexingDisputeID(id)) = 1
  BY DEF IndexingDisputeID
<1>3. Len(NoDisputeID) = 0
  BY DEF NoDisputeID
<1>. QED
  BY <1>1, <1>2, <1>3 DEF DisputeIDs

\* A deposit is a number.
LEMMA DepositsNat ==
    ASSUME NEW f, f \in [DisputeIDs -> Dispute \cup {NoDispute}]
    PROVE  \A d \in DisputeIDs : f[d].deposit \in Nat
BY DEF Dispute, NoDispute

\* A stake is a number.
LEMMA StakesNat ==
    ASSUME NEW l, Good(l)
    PROVE  \A i \in Indexers : l.stakes[i].tokensStaked \in Nat
BY DEF Good, OpenLedger, Stake

-----------------------------------------------------------------------------
(* The ledger *)

\* A deposit moves from the fisherman to the dispute manager.
LEMMA DepositedGood ==
    ASSUME NEW l, Good(l), NEW fisherman \in Fishermen, NEW deposit \in Int
    PROVE  LET m == Deposited(l, fisherman, deposit)
           IN  /\ Good(m) /\ m.stakes = l.stakes
               /\ m.grt[DisputeManagerAddress] = l.grt[DisputeManagerAddress] + deposit
<1>1. Good(Deposited(l, fisherman, deposit))
  BY TransferGood, DisputeContext DEF Deposited
<1>2. /\ l.grt \in [Holders -> Int] /\ fisherman \in Holders
      /\ DisputeManagerAddress \in Holders /\ fisherman # DisputeManagerAddress
  BY DisputeContext DEF Good, OpenLedger
<1>3. l = [stakes |-> l.stakes, delegationPools |-> l.delegationPools,
           delegations |-> l.delegations, allocations |-> l.allocations,
           subgraphAllocations |-> l.subgraphAllocations, rebates |-> l.rebates,
           grt |-> l.grt]
  BY DEF Good, OpenLedger
<1>. QED
  BY <1>1, <1>2, <1>3 DEF Deposited, Transfer

\* A deposit that is returned or burned leaves the dispute manager.
LEMMA ReturnedGood ==
    ASSUME DInv, NEW l, Good(l), NEW d \in OpenDisputes
    PROVE  /\ Good(Returned(l, d)) /\ Good(Burned(l, d))
           /\ Returned(l, d).stakes = l.stakes /\ Burned(l, d).stakes = l.stakes
           /\ Returned(l, d).grt[DisputeManagerAddress]
                 = l.grt[DisputeManagerAddress] - disputes[d].deposit
           /\ Burned(l, d).grt[DisputeManagerAddress]
                 = l.grt[DisputeManagerAddress] - disputes[d].deposit
           /\ Returned(l, d).grt[disputes[d].fisherman]
                 = l.grt[disputes[d].fisherman] + disputes[d].deposit
<1>2. disputes[d].fisherman \in Holders /\ disputes[d].deposit \in Int
  BY OpenDisputeGood, DisputeContext
<1>3. Good(Returned(l, d))
  BY <1>2, DisputeContext, TransferGood DEF Returned
<1>4. Good(Burned(l, d))
  <2>. DEFINE g == [l.grt EXCEPT ![DisputeManagerAddress] = @ - disputes[d].deposit]
  <2>1. g \in [Holders -> Int]
    BY <1>2, DisputeContext DEF Good, OpenLedger
  <2>2. Burned(l, d) = [l EXCEPT !.grt = g]
    BY DEF Burned
  <2>. HIDE DEF g
  <2>. QED
    BY <2>1, <2>2, PartsGood
<1>5. /\ l.grt \in [Holders -> Int] /\ DisputeManagerAddress \in Holders
      /\ disputes[d].fisherman # DisputeManagerAddress
  BY OpenDisputeGood, DisputeContext DEF Good, OpenLedger
<1>6. l = [stakes |-> l.stakes, delegationPools |-> l.delegationPools,
           delegations |-> l.delegations, allocations |-> l.allocations,
           subgraphAllocations |-> l.subgraphAllocations, rebates |-> l.rebates,
           grt |-> l.grt]
  BY DEF Good, OpenLedger
<1>. QED
  BY <1>2, <1>3, <1>4, <1>5, <1>6 DEF Returned, Burned, Transfer

-----------------------------------------------------------------------------
(* Disputes that open and disputes that are resolved *)

\* Links survive when new disputes open under IDs that were free.
LEMMA OpenedLinked ==
    ASSUME DInv, NEW ids \in SUBSET DisputeIDs,
           \A d \in ids : ~IsDisputeCreated(d),
           disputes' \in [DisputeIDs -> Dispute \cup {NoDispute}],
           \A d \in DisputeIDs \ ids : disputes'[d] = disputes[d],
           \A d \in ids :
               LET related == disputes'[d].relatedDisputeID
               IN  related # NoDisputeID =>
                      /\ related \in ids \ {d}
                      /\ disputes'[related].relatedDisputeID = d
                      /\ disputes'[related].fisherman = disputes'[d].fisherman
                      /\ disputes'[related].fisherman # NoAddress
                      /\ disputes'[d].deposit = 0
    PROVE  /\ LinkedInPairs'
           /\ \A d \in OpenDisputes : disputes'[d] = disputes[d]
<1>1. \A d \in OpenDisputes : d \notin ids /\ disputes'[d] = disputes[d] /\ d \in OpenDisputes'
  BY DEF OpenDisputes, IsDisputeCreated
<1>2. SUFFICES ASSUME NEW d \in OpenDisputes', IsDisputeInConflict(d)'
               PROVE  LET related == disputes'[d].relatedDisputeID
                      IN  /\ related \in OpenDisputes' \ {d}
                          /\ disputes'[related].relatedDisputeID = d
                          /\ disputes'[related].fisherman = disputes'[d].fisherman
                          /\ disputes'[d].deposit = 0
  BY <1>1 DEF LinkedInPairs
<1>. DEFINE related == disputes'[d].relatedDisputeID
<1>3. d \in DisputeIDs /\ related # NoDisputeID
  BY <1>2 DEF OpenDisputes, IsDisputeInConflict
<1>4. CASE d \in ids
  BY <1>3, <1>4 DEF OpenDisputes, IsDisputeCreated
<1>5. CASE d \notin ids
  <2>1. disputes'[d] = disputes[d] /\ d \in OpenDisputes /\ IsDisputeInConflict(d)
    BY <1>2, <1>3, <1>5 DEF OpenDisputes, IsDisputeCreated, IsDisputeInConflict
  <2>2. /\ related \in OpenDisputes \ {d}
        /\ disputes[related].relatedDisputeID = d
        /\ disputes[related].fisherman = disputes[d].fisherman
        /\ disputes[d].deposit = 0
    BY <2>1 DEF DInv, LinkedInPairs
  <2>. QED
    BY <1>1, <2>1, <2>2
<1>. QED
  BY <1>4, <1>5

\* The deposits add up when new disputes open, and at most one of them has a
\* deposit.
LEMMA OpenedBooked ==
    ASSUME DInv, NEW ids \in SUBSET DisputeIDs, IsFiniteSet(ids), NEW y \in ids,
           \A d \in ids : ~IsDisputeCreated(d),
           disputes' \in [DisputeIDs -> Dispute \cup {NoDispute}],
           \A d \in DisputeIDs \ ids : disputes'[d] = disputes[d],
           \A d \in ids : disputes'[d].fisherman # NoAddress,
           \A d \in ids \ {y} : disputes'[d].deposit = 0
    PROVE  /\ IsFiniteSet(OpenDisputes')
           /\ SumFunctionOnSet(DepositOf', OpenDisputes')
                 = SumFunctionOnSet(DepositOf, OpenDisputes) + disputes'[y].deposit
<1>. DEFINE S == OpenDisputes
            T == OpenDisputes'
            f == DepositOf
            h == DepositOf'
<1>1. T = S \cup ids /\ S \cap ids = {} /\ S \subseteq DisputeIDs
  BY DEF OpenDisputes, IsDisputeCreated
<1>2. disputes \in [DisputeIDs -> Dispute \cup {NoDispute}] /\ IsFiniteSet(S)
  BY DEF DInv, DisputeTypeOK, DepositsBooked
<1>3. \A d \in DisputeIDs : /\ f[d] = disputes[d].deposit /\ f[d] \in Int
                             /\ h[d] = disputes'[d].deposit /\ h[d] \in Int
  BY <1>2, DepositsNat DEF DepositOf
<1>. HIDE DEF S, T, f, h
<1>4. IsFiniteSet(T)
  BY <1>1, <1>2, FS_Union
<1>5. SumFunctionOnSet(h, T) = h[y] + SumFunctionOnSet(h, T \ {y})
  <2>1. y \in T /\ \A x \in T : h[x] \in Int
    BY <1>1, <1>3
  <2>. QED
    BY <1>4, <2>1, SumTakesOut
<1>6. SumFunctionOnSet(f, S) = SumFunctionOnSet(h, T \ {y})
  <2>. DEFINE U == T \ {y}
  <2>1. IsFiniteSet(U)
    BY <1>4, FS_RemoveElement
  <2>2. /\ S \in SUBSET U
        /\ \A x \in S : f[x] \in Int
        /\ \A x \in U : h[x] = IF x \in S THEN f[x] ELSE 0
    BY <1>1, <1>3
  <2>. HIDE DEF U
  <2>3. SumFunctionOnSet(f, S) = SumFunctionOnSet(h, U)
    BY <2>1, <2>2, SumOverPart
  <2>. QED
    BY <2>3 DEF U
<1>7. SumFunctionOnSet(f, S) \in Int
  BY <1>1, <1>2, <1>3, SumIsInt
<1>8. h[y] = disputes'[y].deposit /\ h[y] \in Int
  BY <1>3
<1>9. SumFunctionOnSet(h, T) = SumFunctionOnSet(f, S) + disputes'[y].deposit
  BY <1>5, <1>6, <1>7, <1>8
<1>. QED
  BY <1>4, <1>9 DEF S, T, f, h

\* Stakes that do not change need no explanation.
LEMMA SameStakesExplained ==
    ASSUME DInv, ledger'.stakes = ledger.stakes
    PROVE  StakesExplained
<1>1. \A i \in Indexers : ledger.stakes[i].tokensStaked \in Nat
  BY StakesNat DEF DInv, IInv
<1>. QED
  BY <1>1 DEF StakesExplained, StakeExplained

\* A step that leaves the open disputes and the stakes alone settles nothing.
LEMMA NothingSettled ==
    ASSUME DInv, \A d \in OpenDisputes : disputes'[d] = disputes[d],
           ledger'.stakes = ledger.stakes
    PROVE  Standing /\ Settling /\ StakesExplained
<1>1. \A d \in OpenDisputes : disputes[d] # NoDispute
  BY DEF OpenDisputes, IsDisputeCreated, NoDispute
<1>2. Standing /\ Settling
  BY <1>1 DEF Standing, Settling, Settled
<1>. QED
  BY <1>2, SameStakesExplained

\* What is shown of a step in which disputes open.
LEMMA OpenedGood ==
    ASSUME DInv, NEW ids \in SUBSET DisputeIDs, IsFiniteSet(ids), NEW y \in ids,
           \A d \in ids : ~IsDisputeCreated(d),
           disputes' \in [DisputeIDs -> Dispute \cup {NoDispute}],
           \A d \in DisputeIDs \ ids : disputes'[d] = disputes[d],
           \A d \in ids : disputes'[d].fisherman # NoAddress,
           \A d \in ids \ {y} : disputes'[d].deposit = 0,
           \A d \in ids :
               LET related == disputes'[d].relatedDisputeID
               IN  related # NoDisputeID =>
                      /\ related \in ids \ {d}
                      /\ disputes'[related].relatedDisputeID = d
                      /\ disputes'[related].fisherman = disputes'[d].fisherman
                      /\ disputes'[related].fisherman # NoAddress
                      /\ disputes'[d].deposit = 0,
           ledger'.stakes = ledger.stakes,
           ledger'.grt[DisputeManagerAddress]
               = ledger.grt[DisputeManagerAddress] + disputes'[y].deposit
    PROVE  LinkedInPairs' /\ DepositsBooked' /\ Standing /\ Settling /\ StakesExplained
<1>1. LinkedInPairs' /\ \A d \in OpenDisputes : disputes'[d] = disputes[d]
  BY OpenedLinked
<1>2. DepositsBooked'
  <2>1. ledger.grt[DisputeManagerAddress] = SumFunctionOnSet(DepositOf, OpenDisputes)
    BY DEF DInv, DepositsBooked
  <2>. QED
    BY <2>1, OpenedBooked DEF DepositsBooked
<1>. QED
  BY <1>1, <1>2, NothingSettled

\* Links survive when a dispute leaves with the one it is linked to.
LEMMA ResolvedLinked ==
    ASSUME DInv, NEW d \in OpenDisputes, NEW ids,
           ids = {d, disputes[d].relatedDisputeID}
              \/ (ids = {d} /\ ~IsDisputeInConflict(d)),
           disputes' = Without(ids)
    PROVE  /\ disputes' \in [DisputeIDs -> Dispute \cup {NoDispute}]
           /\ LinkedInPairs'
           /\ \A e \in OpenDisputes : disputes'[e] \in {disputes[e], NoDispute}
<1>1. disputes \in [DisputeIDs -> Dispute \cup {NoDispute}]
  BY DEF DInv, DisputeTypeOK
<1>2. \A e \in DisputeIDs : disputes'[e] = IF e \in ids THEN NoDispute ELSE disputes[e]
  BY DEF Without
<1>3. disputes' \in [DisputeIDs -> Dispute \cup {NoDispute}]
  BY <1>1 DEF Without
<1>4. \A e \in OpenDisputes' : /\ e \in OpenDisputes /\ e \notin ids
                               /\ disputes'[e] = disputes[e]
  BY <1>2 DEF OpenDisputes, IsDisputeCreated, NoDispute
<1>5. SUFFICES ASSUME NEW e \in OpenDisputes', IsDisputeInConflict(e)'
               PROVE  LET related == disputes'[e].relatedDisputeID
                      IN  /\ related \in OpenDisputes' \ {e}
                          /\ disputes'[related].relatedDisputeID = e
                          /\ disputes'[related].fisherman = disputes'[e].fisherman
                          /\ disputes'[e].deposit = 0
  <2>1. \A e \in OpenDisputes : disputes'[e] \in {disputes[e], NoDispute}
    BY <1>2 DEF OpenDisputes
  <2>. QED
    BY <1>3, <1>5, <2>1 DEF LinkedInPairs
<1>. DEFINE r == disputes[e].relatedDisputeID
<1>6. e \in OpenDisputes /\ e \notin ids /\ disputes'[e] = disputes[e] /\ IsDisputeInConflict(e)
  BY <1>4, <1>5 DEF IsDisputeInConflict
<1>7. /\ r \in OpenDisputes \ {e}
      /\ disputes[r].relatedDisputeID = e
      /\ disputes[r].fisherman = disputes[e].fisherman
      /\ disputes[e].deposit = 0
  BY <1>6 DEF DInv, LinkedInPairs
<1>8. r \notin ids
  <2>1. CASE r = d
    <3>1. disputes[d].relatedDisputeID = e /\ e \in DisputeIDs
      BY <1>6, <1>7, <2>1 DEF OpenDisputes
    <3>2. IsDisputeInConflict(d)
      BY <3>1, NoIDOutside DEF IsDisputeInConflict
    <3>. QED
      BY <1>6, <3>1, <3>2
  <2>2. CASE IsDisputeInConflict(d) /\ r = disputes[d].relatedDisputeID
    <3>1. disputes[r].relatedDisputeID = d
      BY <2>2 DEF DInv, LinkedInPairs
    <3>. QED
      BY <1>6, <1>7, <3>1
  <2>3. CASE ~IsDisputeInConflict(d) /\ r = disputes[d].relatedDisputeID
    BY <1>6, <2>3 DEF IsDisputeInConflict
  <2>. QED
    BY <2>1, <2>2, <2>3
<1>9. r \in DisputeIDs /\ disputes'[r] = disputes[r]
  BY <1>2, <1>7, <1>8 DEF OpenDisputes
<1>10. r \in OpenDisputes'
  BY <1>7, <1>9 DEF OpenDisputes, IsDisputeCreated
<1>. QED
  BY <1>6, <1>7, <1>9, <1>10

\* The dispute a resolved one is linked to has no deposit, the same fisherman and
\* names it back.
LEMMA RelatedGood ==
    ASSUME DInv, NEW d \in OpenDisputes, NEW e \in OpenDisputes,
           e = disputes[d].relatedDisputeID
    PROVE  /\ IsDisputeInConflict(d) /\ e # d
           /\ disputes[e].deposit = 0
           /\ disputes[e].fisherman = disputes[d].fisherman
           /\ disputes[e].relatedDisputeID = d
<1>1. IsDisputeInConflict(d)
  BY NoIDOutside DEF OpenDisputes, IsDisputeInConflict
<1>2. /\ e # d /\ disputes[e].relatedDisputeID = d
      /\ disputes[e].fisherman = disputes[d].fisherman
  BY <1>1 DEF DInv, LinkedInPairs
<1>3. IsDisputeInConflict(e)
  BY <1>2, NoIDOutside DEF OpenDisputes, IsDisputeInConflict
<1>. QED
  BY <1>1, <1>2, <1>3 DEF DInv, LinkedInPairs

\* The deposits add up when a dispute leaves: the related one had none.
LEMMA ResolvedBooked ==
    ASSUME DInv, NEW d \in OpenDisputes, NEW ids,
           ids = {d, disputes[d].relatedDisputeID} \/ ids = {d},
           disputes' = Without(ids)
    PROVE  /\ IsFiniteSet(OpenDisputes')
           /\ SumFunctionOnSet(DepositOf', OpenDisputes')
                 = SumFunctionOnSet(DepositOf, OpenDisputes) - disputes[d].deposit
<1>. DEFINE S == OpenDisputes
            T == OpenDisputes'
            U == S \ {d}
            f == DepositOf
            h == DepositOf'
<1>1. \A e \in DisputeIDs : disputes'[e] = IF e \in ids THEN NoDispute ELSE disputes[e]
  BY DEF Without
<1>2. T = S \ ids /\ d \in ids /\ d \in S /\ S \subseteq DisputeIDs
  BY <1>1 DEF OpenDisputes, IsDisputeCreated, NoDispute
<1>3. disputes \in [DisputeIDs -> Dispute \cup {NoDispute}] /\ IsFiniteSet(S)
  BY DEF DInv, DisputeTypeOK, DepositsBooked
<1>4. \A e \in DisputeIDs : /\ f[e] = disputes[e].deposit /\ f[e] \in Int
                             /\ h[e] = disputes'[e].deposit
  BY <1>3, DepositsNat DEF DepositOf
<1>5. \A e \in U : e \in ids => disputes[e].deposit = 0
  BY RelatedGood
<1>. HIDE DEF S, T, U, f, h
<1>6. \A e \in T : h[e] = f[e] /\ f[e] \in Int
  BY <1>1, <1>2, <1>4
<1>7. T \in SUBSET U /\ \A e \in U : f[e] = IF e \in T THEN h[e] ELSE 0
  BY <1>2, <1>4, <1>5, <1>6 DEF U
<1>8. IsFiniteSet(U) /\ IsFiniteSet(T)
  <2>1. IsFiniteSet(U)
    BY <1>3, FS_RemoveElement DEF U
  <2>. QED
    BY <1>7, <2>1, FS_Subset
<1>9. SumFunctionOnSet(h, T) = SumFunctionOnSet(f, U)
  BY <1>6, <1>7, <1>8, SumOverPart
<1>10. SumFunctionOnSet(f, S) = f[d] + SumFunctionOnSet(f, U)
  <2>1. \A e \in S : f[e] \in Int
    BY <1>2, <1>4
  <2>. QED
    BY <1>2, <1>3, <2>1, SumTakesOut DEF U
<1>11. SumFunctionOnSet(f, U) \in Int
  <2>1. \A e \in U : f[e] \in Int
    BY <1>2, <1>4 DEF U
  <2>. QED
    BY <1>8, <2>1, SumIsInt
<1>12. f[d] = disputes[d].deposit /\ f[d] \in Int
  BY <1>2, <1>4
<1>13. SumFunctionOnSet(h, T) = SumFunctionOnSet(f, S) - disputes[d].deposit
  BY <1>9, <1>10, <1>11, <1>12
<1>. QED
  BY <1>8, <1>13 DEF S, T, f, h

\* Nobody else's dispute leaves, and the fisherman of the two gets the deposit.
LEMMA ResolvedSettled ==
    ASSUME DInv, NEW d \in OpenDisputes, NEW ids,
           ids = {d, disputes[d].relatedDisputeID}
              \/ (ids = {d} /\ ~IsDisputeInConflict(d)),
           disputes' = Without(ids), Good(ledger'),
           \/ ledger'.grt[disputes[d].fisherman]
                 >= ledger.grt[disputes[d].fisherman] + disputes[d].deposit
           \/ ~IsDisputeInConflict(d) /\ ledger' = Burned(ledger, d)
    PROVE  Settling
<1>1. \A e \in DisputeIDs : disputes'[e] = IF e \in ids THEN NoDispute ELSE disputes[e]
  BY DEF Without
<1>2. SUFFICES ASSUME NEW e \in OpenDisputes, disputes'[e] = NoDispute
               PROVE  Settled(e)
  BY DEF Settling, Settled
<1>3. e \in ids /\ d \in ids
  BY <1>1, <1>2 DEF OpenDisputes, IsDisputeCreated, NoDispute
<1>4. CASE e = d
  <2>1. \A other \in OpenDisputes \ {d, disputes[d].relatedDisputeID} :
           disputes'[other] = disputes[other]
    BY <1>1 DEF OpenDisputes
  <2>. QED
    BY <1>4, <2>1 DEF Settled
<1>5. CASE e # d
  <2>1. e = disputes[d].relatedDisputeID /\ ids = {d, e}
    BY <1>3, <1>5
  <2>2. /\ IsDisputeInConflict(d) /\ disputes[e].deposit = 0
        /\ disputes[e].fisherman = disputes[d].fisherman
        /\ disputes[e].relatedDisputeID = d
    BY <2>1, RelatedGood
  <2>3. \A other \in OpenDisputes \ {e, d} : disputes'[other] = disputes[other]
    BY <1>1, <2>1 DEF OpenDisputes
  <2>4. ledger'.grt[disputes[d].fisherman]
          >= ledger.grt[disputes[d].fisherman] + disputes[d].deposit
    BY <2>2
  <2>5. /\ ledger.grt[disputes[d].fisherman] \in Int /\ disputes[d].deposit \in Nat
        /\ ledger'.grt[disputes[d].fisherman] \in Int
    <3>1. disputes[d].fisherman \in Holders /\ disputes[d].deposit \in Nat
      BY OpenDisputeGood, DisputeContext
    <3>. QED
      BY <3>1 DEF DInv, IInv, Good, OpenLedger
  <2>6. ledger'.grt[disputes[e].fisherman]
          >= ledger.grt[disputes[e].fisherman] + disputes[e].deposit
    BY <2>2, <2>4, <2>5
  <2>. QED
    BY <2>2, <2>3, <2>6 DEF Settled
<1>. QED
  BY <1>4, <1>5

\* What is shown of a step in which a dispute leaves.
LEMMA ResolvedGood ==
    ASSUME DInv, NEW d \in OpenDisputes, NEW ids,
           ids = {d, disputes[d].relatedDisputeID}
              \/ (ids = {d} /\ ~IsDisputeInConflict(d)),
           disputes' = Without(ids), Good(ledger'),
           ledger'.grt[DisputeManagerAddress]
               = ledger.grt[DisputeManagerAddress] - disputes[d].deposit,
           \/ ledger'.grt[disputes[d].fisherman]
                 >= ledger.grt[disputes[d].fisherman] + disputes[d].deposit
           \/ ~IsDisputeInConflict(d) /\ ledger' = Burned(ledger, d)
    PROVE  /\ disputes' \in [DisputeIDs -> Dispute \cup {NoDispute}]
           /\ LinkedInPairs' /\ DepositsBooked' /\ Standing /\ Settling
<1>1. /\ disputes' \in [DisputeIDs -> Dispute \cup {NoDispute}]
      /\ LinkedInPairs' /\ Standing
  BY ResolvedLinked DEF Standing
<1>2. DepositsBooked'
  <2>1. ledger.grt[DisputeManagerAddress] = SumFunctionOnSet(DepositOf, OpenDisputes)
    BY DEF DInv, DepositsBooked
  <2>. QED
    BY <2>1, ResolvedBooked DEF DepositsBooked
<1>. QED
  BY <1>1, <1>2, ResolvedSettled

-----------------------------------------------------------------------------
(* The handlers *)

\* A step that commits a good ledger and sets the disputes.
LEMMA CommittedDisputes ==
    ASSUME DInv, NEW l, Good(l), Commit(l), UNCHANGED disputeConfig,
           disputes' \in [DisputeIDs -> Dispute \cup {NoDispute}], LinkedInPairs',
           DepositsBooked', Standing, Settling, StakesExplained
    PROVE  GoodDisputeStep
<1>1. IInv'
  BY CommitGood DEF DInv
<1>2. disputeParams' \in DisputeParams /\ arbitrator' \in Accounts
  BY DEF disputeConfig, DInv, DisputeTypeOK
<1>. QED
  BY <1>1, <1>2 DEF GoodDisputeStep, DInv, DisputeTypeOK, IInv

\* What the checks of a new query dispute say of its ID and of the dispute.
LEMMA QueryDisputeGood ==
    ASSUME DInv, NEW a \in Attestation, NEW fisherman \in Fishermen, CanDispute(a, fisherman),
           NEW deposit \in Nat, NEW related \in DisputeIDs \cup {NoDisputeID}
    PROVE  /\ AttestationID(a, fisherman) \in DisputeIDs
           /\ ~IsDisputeCreated(AttestationID(a, fisherman))
           /\ QueryDispute(a, fisherman, deposit, related) \in Dispute
<1>1. AttestationIndexer(a) \in Indexers
  <2>1. ledger.allocations \in [AllocationIDs -> Allocation] /\ a.allocationID \in AllocationIDs
    BY DEF DInv, IInv, Good, OpenLedger, Attestation
  <2>. QED
    BY <2>1 DEF CanDispute, IndexerFound, AttestationIndexer, Allocation
<1>2. AttestationID(a, fisherman) \in DisputeIDs
  BY <1>1 DEF AttestationID, QueryDisputeID, DisputeIDs, Attestation
<1>3. QueryDispute(a, fisherman, deposit, related) \in Dispute
  BY <1>1 DEF QueryDispute, Dispute
<1>. QED
  BY <1>2, <1>3 DEF CanDispute

\* One dispute opens, linked to no other, for a deposit.
LEMMA OneOpenedGood ==
    ASSUME DInv, NEW id \in DisputeIDs, ~IsDisputeCreated(id),
           disputes' \in [DisputeIDs -> Dispute \cup {NoDispute}],
           \A d \in DisputeIDs \ {id} : disputes'[d] = disputes[d],
           disputes'[id].fisherman \in Fishermen,
           disputes'[id].relatedDisputeID = NoDisputeID,
           ledger'.stakes = ledger.stakes,
           ledger'.grt[DisputeManagerAddress]
               = ledger.grt[DisputeManagerAddress] + disputes'[id].deposit
    PROVE  LinkedInPairs' /\ DepositsBooked' /\ Standing /\ Settling /\ StakesExplained
<1>. DEFINE ids == {id}
<1>1. /\ ids \in SUBSET DisputeIDs /\ IsFiniteSet(ids) /\ id \in ids
      /\ \A d \in ids : ~IsDisputeCreated(d)
  BY FS_Singleton
<1>2. disputes'[id].fisherman # NoAddress
  BY DisputeContext
<1>3. /\ \A d \in DisputeIDs \ ids : disputes'[d] = disputes[d]
      /\ \A d \in ids : /\ disputes'[d].fisherman # NoAddress
                         /\ disputes'[d].relatedDisputeID = NoDisputeID
      /\ \A d \in ids \ {id} : disputes'[d].deposit = 0
  BY <1>2
<1>. HIDE DEF ids
<1>. QED
  BY <1>1, <1>3, OpenedGood

\* A deposit is pulled and one dispute opens.
LEMMA CreateQueryDisputeStep ==
    ASSUME DInv, NEW fisherman \in Fishermen, NEW deposit \in Nat, NEW a \in Attestation,
           CreateQueryDispute(fisherman, deposit, a)
    PROVE  GoodDisputeStep
<1>. DEFINE id == AttestationID(a, fisherman)
            x  == QueryDispute(a, fisherman, deposit, NoDisputeID)
            l  == Deposited(ledger, fisherman, deposit)
<1>1. /\ CanDispute(a, fisherman) /\ Commit(l) /\ UNCHANGED disputeConfig
      /\ disputes' = [disputes EXCEPT ![id] = x]
  BY DEF CreateQueryDispute
<1>2. id \in DisputeIDs /\ ~IsDisputeCreated(id) /\ x \in Dispute
  BY <1>1, QueryDisputeGood
<1>3. /\ Good(l) /\ l.stakes = ledger.stakes
      /\ l.grt[DisputeManagerAddress] = ledger.grt[DisputeManagerAddress] + deposit
  BY DepositedGood DEF DInv, IInv
<1>4. x.relatedDisputeID = NoDisputeID /\ x.fisherman = fisherman /\ x.deposit = deposit
  BY DEF QueryDispute
<1>. HIDE DEF id, x, l
<1>5. disputes \in [DisputeIDs -> Dispute \cup {NoDispute}]
  BY DEF DInv, DisputeTypeOK
<1>6. /\ disputes' \in [DisputeIDs -> Dispute \cup {NoDispute}]
      /\ \A d \in DisputeIDs \ {id} : disputes'[d] = disputes[d]
      /\ disputes'[id] = x
  BY <1>1, <1>2, <1>5
<1>7. LinkedInPairs' /\ DepositsBooked' /\ Standing /\ Settling /\ StakesExplained
  BY <1>1, <1>2, <1>3, <1>4, <1>6, OneOpenedGood DEF Commit
<1>. QED
  BY <1>1, <1>3, <1>6, <1>7, CommittedDisputes

\* So for an allocation: the dispute is against its indexer.
LEMMA CreateIndexingDisputeStep ==
    ASSUME DInv, NEW fisherman \in Fishermen, NEW deposit \in Nat, NEW a \in AllocationIDs,
           CreateIndexingDispute(fisherman, deposit, a)
    PROVE  GoodDisputeStep
<1>. DEFINE id == IndexingDisputeID(a)
            i  == ledger.allocations[a].indexer
            x  == [indexer |-> i, fisherman |-> fisherman, deposit |-> deposit,
                   relatedDisputeID |-> NoDisputeID, disputeType |-> "IndexingDispute"]
            l  == Deposited(ledger, fisherman, deposit)
<1>1. /\ ~IsDisputeCreated(id) /\ i # NoAddress /\ Commit(l) /\ UNCHANGED disputeConfig
      /\ disputes' = [disputes EXCEPT ![id] = x]
  BY DEF CreateIndexingDispute
<1>2. i \in Indexers
  BY <1>1 DEF DInv, IInv, Good, OpenLedger, Allocation
<1>3. x \in Dispute /\ id \in DisputeIDs
  BY <1>2 DEF Dispute, DisputeIDs
<1>4. /\ Good(l) /\ l.stakes = ledger.stakes
      /\ l.grt[DisputeManagerAddress] = ledger.grt[DisputeManagerAddress] + deposit
  BY DepositedGood DEF DInv, IInv
<1>5. x.relatedDisputeID = NoDisputeID /\ x.fisherman = fisherman /\ x.deposit = deposit
  OBVIOUS
<1>. HIDE DEF id, x, l
<1>6. disputes \in [DisputeIDs -> Dispute \cup {NoDispute}]
  BY DEF DInv, DisputeTypeOK
<1>7. /\ disputes' \in [DisputeIDs -> Dispute \cup {NoDispute}]
      /\ \A d \in DisputeIDs \ {id} : disputes'[d] = disputes[d]
      /\ disputes'[id] = x
  BY <1>1, <1>3, <1>6
<1>8. LinkedInPairs' /\ DepositsBooked' /\ Standing /\ Settling /\ StakesExplained
  BY <1>1, <1>3, <1>4, <1>5, <1>7, OneOpenedGood DEF Commit
<1>. QED
  BY <1>1, <1>4, <1>7, <1>8, CommittedDisputes

\* The two disputes of a conflict have different IDs, because their attestations
\* have different responses, and neither was open.
LEMMA CreateQueryDisputeConflictStep ==
    ASSUME DInv, NEW fisherman \in Fishermen, NEW a1 \in Attestation, NEW a2 \in Attestation,
           CreateQueryDisputeConflict(fisherman, a1, a2)
    PROVE  GoodDisputeStep
<1>. DEFINE d1 == AttestationID(a1, fisherman)
            d2 == AttestationID(a2, fisherman)
            x1 == QueryDispute(a1, fisherman, 0, d2)
            x2 == QueryDispute(a2, fisherman, 0, d1)
<1>1. /\ AreConflictingAttestations(a1, a2)
      /\ CanDispute(a1, fisherman) /\ CanDispute(a2, fisherman)
      /\ disputes' = [disputes EXCEPT ![d1] = x1, ![d2] = x2]
      /\ UNCHANGED <<vars, disputeConfig>>
  BY DEF CreateQueryDisputeConflict
<1>2. /\ d1 \in DisputeIDs /\ d2 \in DisputeIDs
      /\ ~IsDisputeCreated(d1) /\ ~IsDisputeCreated(d2)
  BY <1>1, QueryDisputeGood
<1>3. x1 \in Dispute /\ x2 \in Dispute
  BY <1>1, <1>2, QueryDisputeGood
<1>4. d1 # d2
  <2>1. d1[2] = a1.responseCID /\ d2[2] = a2.responseCID
    BY DEF AttestationID, QueryDisputeID
  <2>. QED
    BY <1>1, <2>1 DEF AreConflictingAttestations
<1>5. /\ x1.relatedDisputeID = d2 /\ x2.relatedDisputeID = d1
      /\ x1.fisherman = fisherman /\ x2.fisherman = fisherman
      /\ x1.deposit = 0 /\ x2.deposit = 0
  BY DEF QueryDispute
<1>. HIDE DEF d1, d2, x1, x2
<1>6. disputes \in [DisputeIDs -> Dispute \cup {NoDispute}]
  BY DEF DInv, DisputeTypeOK
<1>7. /\ disputes' \in [DisputeIDs -> Dispute \cup {NoDispute}]
      /\ \A d \in DisputeIDs \ {d1, d2} : disputes'[d] = disputes[d]
      /\ disputes'[d1] = x1 /\ disputes'[d2] = x2
  BY <1>1, <1>2, <1>3, <1>4, <1>6
<1>8. LinkedInPairs' /\ DepositsBooked' /\ Standing /\ Settling /\ StakesExplained
  <2>. DEFINE ids == {d1, d2}
  <2>1. /\ ids \in SUBSET DisputeIDs /\ IsFiniteSet(ids) /\ d1 \in ids
        /\ \A d \in ids : ~IsDisputeCreated(d)
    <3>1. IsFiniteSet({d1} \cup {d2}) /\ ids = {d1} \cup {d2}
      BY FS_Singleton, FS_AddElement
    <3>. QED
      BY <1>2, <3>1
  <2>2. \A d \in ids :
            LET related == disputes'[d].relatedDisputeID
            IN  /\ related \in ids \ {d}
                /\ disputes'[related].relatedDisputeID = d
                /\ disputes'[related].fisherman = disputes'[d].fisherman
                /\ disputes'[related].fisherman # NoAddress
                /\ disputes'[d].fisherman # NoAddress
                /\ disputes'[d].deposit = 0
    BY <1>4, <1>5, <1>7, DisputeContext
  <2>3. \A d \in DisputeIDs \ ids : disputes'[d] = disputes[d]
    BY <1>7
  <2>. HIDE DEF ids
  <2>4. /\ ledger'.stakes = ledger.stakes
        /\ ledger'.grt[DisputeManagerAddress]
              = ledger.grt[DisputeManagerAddress] + disputes'[d1].deposit
    <3>1. ledger' = ledger /\ disputes'[d1].deposit = 0
      BY <1>1, <1>5, <1>7 DEF vars
    <3>2. ledger.grt[DisputeManagerAddress] \in Int
      BY DisputeContext DEF DInv, IInv, Good, OpenLedger
    <3>. QED
      BY <3>1, <3>2
  <2>. QED
    BY <1>7, <2>1, <2>2, <2>3, <2>4, OpenedGood
<1>9. IInv'
  BY <1>1, StutterStep DEF DInv, GoodStep
<1>. QED
  BY <1>1, <1>7, <1>8, <1>9 DEF GoodDisputeStep, DInv, DisputeTypeOK, IInv, disputeConfig

\* Slashed, paid and resolved together with the related dispute.
LEMMA AcceptDisputeStep ==
    ASSUME DInv, NEW sender, NEW d \in DisputeIDs, AcceptDispute(sender, d)
    PROVE  GoodDisputeStep
<1>. DEFINE i      == disputes[d].indexer
            to     == disputes[d].fisherman
            tokens == SlashAmount(d)
            reward == FishermanReward(d)
            slashed == Slashed(ledger, i, tokens, reward, to)
            m      == Returned(slashed, d)
            ids    == {d, disputes[d].relatedDisputeID}
<1>1. /\ IsDisputeCreated(d) /\ CanSlash(ledger, DisputeManagerAddress, i, tokens, reward)
      /\ Commit(m) /\ disputes' = Without(ids) /\ UNCHANGED disputeConfig
  BY DEF AcceptDispute
<1>2. d \in OpenDisputes
  BY <1>1 DEF OpenDisputes
<1>3. i \in Indexers /\ to \in Accounts
  BY <1>2, OpenDisputeGood, DisputeContext
<1>4. tokens \in Nat /\ reward \in Nat
  BY <1>2, SlashAmountNat
<1>5. /\ Good(slashed) /\ NobodyPays(ledger, slashed)
      /\ slashed.stakes[i].tokensStaked = ledger.stakes[i].tokensStaked - tokens
      /\ \A j \in Indexers \ {i} : slashed.stakes[j] = ledger.stakes[j]
  BY <1>1, <1>3, <1>4, SlashedGood DEF DInv
<1>. HIDE DEF slashed
<1>6. /\ Good(m) /\ m.stakes = slashed.stakes
      /\ m.grt[DisputeManagerAddress]
            = slashed.grt[DisputeManagerAddress] - disputes[d].deposit
      /\ m.grt[to] = slashed.grt[to] + disputes[d].deposit
  BY <1>2, <1>5, ReturnedGood
<1>. HIDE DEF m
<1>7. /\ m.grt[DisputeManagerAddress] = ledger.grt[DisputeManagerAddress] - disputes[d].deposit
      /\ m.grt[to] >= ledger.grt[to] + disputes[d].deposit
  <2>1. /\ to \in Holders /\ ledger.grt \in [Holders -> Int] /\ slashed.grt \in [Holders -> Int]
        /\ disputes[d].deposit \in Nat
    BY <1>2, <1>3, <1>5, OpenDisputeGood, DisputeContext DEF DInv, IInv, Good, OpenLedger
  <2>2. /\ slashed.grt[DisputeManagerAddress] = ledger.grt[DisputeManagerAddress]
        /\ slashed.grt[to] >= ledger.grt[to]
    BY <1>3, <1>5, DisputeAssumption DEF NobodyPays, ContractsKept
  <2>3. \A x, y, z \in Int : x >= y => x + z >= y + z
    OBVIOUS
  <2>. QED
    BY <1>6, <2>1, <2>2, <2>3
<1>8. /\ disputes' \in [DisputeIDs -> Dispute \cup {NoDispute}]
      /\ LinkedInPairs' /\ DepositsBooked' /\ Standing /\ Settling
  <2>1. /\ disputes' = Without(ids) /\ ledger' = m
        /\ ids = {d, disputes[d].relatedDisputeID}
    BY <1>1 DEF Commit
  <2>. HIDE DEF ids
  <2>. QED
    BY <1>2, <1>6, <1>7, <2>1, ResolvedGood
<1>9. StakesExplained
  <2>1. SUFFICES ASSUME NEW j \in Indexers PROVE StakeExplained(j)
    BY DEF StakesExplained
  <2>2. /\ ledger'.stakes = slashed.stakes /\ disputes'[d] = NoDispute
        /\ ledger.stakes[j].tokensStaked \in Nat
    BY <1>1, <1>2, <1>6, StakesNat DEF Commit, Without, OpenDisputes, DInv, IInv
  <2>3. CASE j = i
    <3>1. Fallen(j) = tokens
      BY <1>4, <1>5, <2>2, <2>3 DEF Fallen
    <3>2. SlashedBy(d, j)
      BY <1>5, <2>2, <2>3, <3>1 DEF SlashedBy
    <3>. QED
      BY <1>2, <3>2 DEF StakeExplained
  <2>4. CASE j # i
    BY <1>5, <2>2, <2>4 DEF StakeExplained
  <2>. QED
    BY <2>3, <2>4
<1>. QED
  BY <1>1, <1>6, <1>8, <1>9, CommittedDisputes

\* The deposit is burned; a dispute in conflict is not rejected by itself.
LEMMA RejectDisputeStep ==
    ASSUME DInv, NEW sender, NEW d \in DisputeIDs, RejectDispute(sender, d)
    PROVE  GoodDisputeStep
<1>. DEFINE m == Burned(ledger, d)
            ids == {d}
<1>1. /\ IsDisputeCreated(d) /\ ~IsDisputeInConflict(d) /\ Commit(m)
      /\ disputes' = Without(ids) /\ UNCHANGED disputeConfig
  BY DEF RejectDispute
<1>2. d \in OpenDisputes
  BY <1>1 DEF OpenDisputes
<1>3. /\ Good(m) /\ m.stakes = ledger.stakes
      /\ m.grt[DisputeManagerAddress] = ledger.grt[DisputeManagerAddress] - disputes[d].deposit
  BY <1>2, ReturnedGood DEF DInv, IInv
<1>4. /\ disputes' \in [DisputeIDs -> Dispute \cup {NoDispute}]
      /\ LinkedInPairs' /\ DepositsBooked' /\ Standing /\ Settling
  <2>1. /\ disputes' = Without(ids) /\ ledger' = m /\ ids = {d}
        /\ ledger' = Burned(ledger, d)
    BY <1>1 DEF Commit
  <2>. HIDE DEF m, ids
  <2>. QED
    BY <1>1, <1>2, <1>3, <2>1, ResolvedGood
<1>5. StakesExplained
  BY <1>1, <1>3, SameStakesExplained DEF Commit
<1>. HIDE DEF m
<1>. QED
  BY <1>1, <1>3, <1>4, <1>5, CommittedDisputes

\* The deposit goes back to its fisherman.
LEMMA DrawDisputeStep ==
    ASSUME DInv, NEW sender, NEW d \in DisputeIDs, DrawDispute(sender, d)
    PROVE  GoodDisputeStep
<1>. DEFINE m == Returned(ledger, d)
            ids == {d, disputes[d].relatedDisputeID}
<1>1. /\ IsDisputeCreated(d) /\ Commit(m)
      /\ disputes' = Without(ids) /\ UNCHANGED disputeConfig
  BY DEF DrawDispute
<1>2. d \in OpenDisputes
  BY <1>1 DEF OpenDisputes
<1>3. /\ Good(m) /\ m.stakes = ledger.stakes
      /\ m.grt[DisputeManagerAddress] = ledger.grt[DisputeManagerAddress] - disputes[d].deposit
      /\ m.grt[disputes[d].fisherman]
            = ledger.grt[disputes[d].fisherman] + disputes[d].deposit
  BY <1>2, ReturnedGood DEF DInv, IInv
<1>. HIDE DEF m
<1>4. m.grt[disputes[d].fisherman] >= ledger.grt[disputes[d].fisherman] + disputes[d].deposit
  <2>1. disputes[d].fisherman \in Holders
    BY <1>2, OpenDisputeGood, DisputeContext
  <2>2. m.grt[disputes[d].fisherman] \in Int
    BY <1>3, <2>1 DEF Good, OpenLedger
  <2>. QED
    BY <1>3, <2>2
<1>5. /\ disputes' \in [DisputeIDs -> Dispute \cup {NoDispute}]
      /\ LinkedInPairs' /\ DepositsBooked' /\ Standing /\ Settling
  <2>1. /\ disputes' = Without(ids) /\ ledger' = m
        /\ ids = {d, disputes[d].relatedDisputeID}
    BY <1>1 DEF Commit
  <2>. HIDE DEF ids
  <2>. QED
    BY <1>2, <1>3, <1>4, <2>1, ResolvedGood
<1>6. StakesExplained
  BY <1>1, <1>3, SameStakesExplained DEF Commit
<1>. QED
  BY <1>1, <1>3, <1>5, <1>6, CommittedDisputes

\* The governor's setters, and the steps of the staking contract, leave the
\* disputes as they are.
LEMMA SameDisputesStep ==
    ASSUME DInv, IInv', disputes' = disputes,
           disputeParams' \in DisputeParams, arbitrator' \in Accounts,
           ledger'.grt[DisputeManagerAddress] = ledger.grt[DisputeManagerAddress],
           StakesExplained
    PROVE  GoodDisputeStep
<1>1. LinkedInPairs'
  BY DEF DInv, LinkedInPairs, OpenDisputes, IsDisputeCreated, IsDisputeInConflict
<1>2. DepositsBooked'
  <2>1. OpenDisputes' = OpenDisputes /\ DepositOf' = DepositOf
    BY DEF OpenDisputes, IsDisputeCreated, DepositOf
  <2>. QED
    BY <2>1 DEF DInv, DepositsBooked
<1>3. Standing /\ Settling
  BY DEF Standing, Settling, Settled, OpenDisputes, IsDisputeCreated, NoDispute
<1>. QED
  BY <1>1, <1>2, <1>3 DEF GoodDisputeStep, DInv, DisputeTypeOK, IInv

\* The steps that leave the ledger alone too.
LEMMA SameLedgerStep ==
    ASSUME DInv, UNCHANGED vars, disputes' = disputes,
           disputeParams' \in DisputeParams, arbitrator' \in Accounts
    PROVE  GoodDisputeStep
<1>1. IInv' /\ ledger' = ledger
  BY StutterStep DEF DInv, GoodStep, vars
<1>. QED
  BY <1>1, SameStakesExplained, SameDisputesStep

\* The governor's setters keep the settings in range.
LEMMA DisputeGovernorStep ==
    ASSUME DInv, DisputeGovernorSteps
    PROVE  GoodDisputeStep
<1>1. disputeParams \in DisputeParams /\ arbitrator \in Accounts
  BY DEF DInv, DisputeTypeOK
<1>2. CASE \E account \in ArbitratorChoices : SetArbitrator(account)
  <2>1. UNCHANGED <<vars, disputes, disputeParams>> /\ arbitrator' \in Accounts
    BY <1>2, DisputeAssumption DEF SetArbitrator
  <2>. QED
    BY <1>1, <2>1, SameLedgerStep
<1>3. CASE \E deposit \in DisputeSettingChoices["minimumDeposit"] : SetMinimumDeposit(deposit)
  <2>1. DisputeSettingChoices["minimumDeposit"] \subseteq Nat
    BY DisputeAssumption DEF DisputeSettings
  <2>2. UNCHANGED <<vars, disputes, arbitrator>> /\ disputeParams' \in DisputeParams
    BY <1>1, <1>3, <2>1 DEF SetMinimumDeposit, DisputeParams, DisputeSettings, DisputePercentages
  <2>. QED
    BY <1>1, <2>2, SameLedgerStep
<1>4. CASE \E p \in DisputeSettingChoices["fishermanRewardPercentage"] :
              SetFishermanRewardPercentage(p)
  <2>1. DisputeSettingChoices["fishermanRewardPercentage"] \subseteq Nat
    BY DisputeAssumption DEF DisputeSettings, DisputePercentages
  <2>2. UNCHANGED <<vars, disputes, arbitrator>> /\ disputeParams' \in DisputeParams
    BY <1>1, <1>4, <2>1
    DEF SetFishermanRewardPercentage, DisputeParams, DisputeSettings, DisputePercentages
  <2>. QED
    BY <1>1, <2>2, SameLedgerStep
<1>5. CASE \E q \in DisputeSettingChoices["qrySlashingPercentage"],
              x \in DisputeSettingChoices["idxSlashingPercentage"] : SetSlashingPercentage(q, x)
  <2>1. /\ DisputeSettingChoices["qrySlashingPercentage"] \subseteq Nat
        /\ DisputeSettingChoices["idxSlashingPercentage"] \subseteq Nat
    BY DisputeAssumption DEF DisputeSettings, DisputePercentages
  <2>2. UNCHANGED <<vars, disputes, arbitrator>> /\ disputeParams' \in DisputeParams
    BY <1>1, <1>5, <2>1
    DEF SetSlashingPercentage, DisputeParams, DisputeSettings, DisputePercentages
  <2>. QED
    BY <1>1, <2>2, SameLedgerStep
<1>. QED
  BY <1>2, <1>3, <1>4, <1>5 DEF DisputeGovernorSteps

(* Slashers *)

\* The governor has named no slasher but the dispute manager.
LoneSlasher == slashers = {DisputeManagerAddress}

\* Only the governor names slashers, and only out of RoleChoices.
LEMMA SlashersKept ==
    ASSUME RoleChoices = {}, [DisputeNext]_allVars
    PROVE  slashers' = slashers
<1>1. CASE UNCHANGED config
  BY <1>1 DEF config
<1>2. CASE Next
  <2>1. (\E l : Commit(l)) => slashers' = slashers
    BY DEF Commit, config
  <2>2. CASE GovernorSteps \/ NextBlock
    BY <2>2 DEF GovernorSteps, SkipEpochs, SetParameter, SetRebateRatio, SetPaused,
       SetPartialPaused, NextBlock, config
  <2>3. CASE IndexerSteps
    <3>1. \A i \in Indexers, tokens \in StakeAmounts : Unstake(i, tokens) => \E l : Commit(l)
      BY Zenon DEF Unstake
    <3>. QED
      BY <2>1, <2>3, <3>1 DEF IndexerSteps, StakeTo, Withdraw, SetOperator,
         SetRewardsDestination, SetDelegationParameters, config
  <2>4. CASE SlasherSteps \/ ClaimSteps
    BY <2>1, <2>4 DEF SlasherSteps, Slash, ClaimSteps, Claim, ClaimMany
  <2>5. CASE DelegatorSteps
    <3>1. \A d \in Delegators, i \in Indexers, shares \in ShareAmounts :
             Undelegate(d, i, shares) => slashers' = slashers
      BY DEF Undelegate, Commit, config
    <3>. QED
      BY <2>1, <2>5, <3>1 DEF DelegatorSteps, Delegate, WithdrawDelegated
  <2>6. CASE AllocationSteps
    <3>1. \A sender \in Accounts, tokens \in FeeAmounts, id \in AllocationIDs,
             curated \in BOOLEAN : Collect(sender, tokens, id, curated) => slashers' = slashers
      BY DEF Collect, Commit, config
    <3>. QED
      BY <2>1, <2>6, <3>1 DEF AllocationSteps, Allocate, CloseAllocation,
         CloseAllocationMany, CloseAndAllocate
  <2>. QED
    BY <1>2, <2>2, <2>3, <2>4, <2>5, <2>6 DEF Next
<1>3. CASE FishermanSteps
  BY <1>3 DEF FishermanSteps, CreateQueryDispute, CreateQueryDisputeConflict,
     CreateIndexingDispute, Commit, vars, config
<1>4. CASE ArbitratorSteps
  BY <1>4 DEF ArbitratorSteps, AcceptDispute, RejectDispute, DrawDispute, Commit, config
<1>5. CASE DisputeGovernorSteps
  BY <1>5 DEF DisputeGovernorSteps, SetArbitrator, SetMinimumDeposit,
     SetFishermanRewardPercentage, SetSlashingPercentage, vars, config
<1>. QED
  BY <1>1, <1>2, <1>3, <1>4, <1>5 DEF DisputeNext, StakingSteps, allVars, vars

-----------------------------------------------------------------------------
(* The specification *)

\* Every step of the composition.
LEMMA DisputeNextStep ==
    ASSUME DInv, [DisputeNext]_allVars
    PROVE  GoodDisputeStep
<1>1. disputeParams \in DisputeParams /\ arbitrator \in Accounts
  BY DEF DInv, DisputeTypeOK
<1>2. CASE StakingSteps
  <2>1. Next /\ UNCHANGED disputeVars
    BY <1>2 DEF StakingSteps
  <2>2. /\ IInv' /\ Sound(ledger')
        /\ \A i \in Indexers : SecureKept(ledger, ledger', i) \/ SlashStep(i)
    BY <2>1, NextStep DEF DInv, GoodStep
  <2>3. ledger'.grt[DisputeManagerAddress] = ledger.grt[DisputeManagerAddress]
    BY <2>2, DisputeAssumption DEF Sound, ContractsKept
  <2>4. StakesExplained
    BY <2>2 DEF StakesExplained, StakeExplained, SecureKept, Fallen
  <2>. QED
    BY <1>1, <2>1, <2>2, <2>3, <2>4, SameDisputesStep DEF disputeVars, disputeConfig
<1>3. CASE FishermanSteps
  <2>1. PICK fisherman \in Fishermen :
          \/ \E deposit \in DepositAmounts, a \in Attestation :
                 CreateQueryDispute(fisherman, deposit, a)
          \/ \E a1, a2 \in Attestation : CreateQueryDisputeConflict(fisherman, a1, a2)
          \/ \E deposit \in DepositAmounts, id \in AllocationIDs :
                 CreateIndexingDispute(fisherman, deposit, id)
    BY <1>3 DEF FishermanSteps
  <2>2. DepositAmounts \subseteq Nat
    BY DisputeAssumption
  <2>. QED
    BY <2>1, <2>2, CreateQueryDisputeStep, CreateQueryDisputeConflictStep,
       CreateIndexingDisputeStep
<1>4. CASE ArbitratorSteps
  BY <1>4, AcceptDisputeStep, RejectDisputeStep, DrawDisputeStep DEF ArbitratorSteps
<1>5. CASE DisputeGovernorSteps
  BY <1>5, DisputeGovernorStep
<1>6. CASE UNCHANGED allVars
  <2>1. UNCHANGED <<vars, disputes, disputeParams, arbitrator>>
    BY <1>6 DEF allVars, disputeVars, disputeConfig
  <2>. QED
    BY <1>1, <2>1, SameLedgerStep
<1>. QED
  BY <1>2, <1>3, <1>4, <1>5, <1>6 DEF DisputeNext

\* Nothing is disputed and nothing deposited at first.
LEMMA DInvInit == DisputeInit => DInv
<1>. SUFFICES ASSUME DisputeInit PROVE DInv
  OBVIOUS
<1>1. IInv
  BY InitGood DEF DisputeInit
<1>2. DisputeTypeOK
  BY <1>1, DisputeAssumption DEF DisputeInit, DisputeTypeOK, IInv
<1>3. LinkedInPairs
  BY DEF DisputeInit, LinkedInPairs, OpenDisputes, IsDisputeCreated, NoDispute
<1>4. DepositsBooked
  <2>1. OpenDisputes = {}
    BY DEF DisputeInit, OpenDisputes, IsDisputeCreated, NoDispute
  <2>2. ledger.grt[DisputeManagerAddress] = 0
    BY DisputeContext DEF DisputeInit, Init
  <2>. QED
    BY <2>1, <2>2, SumOfNothing, FS_EmptySet DEF DepositsBooked
<1>. QED
  BY <1>1, <1>2, <1>3, <1>4 DEF DInv

\* The invariant of the composition: the staking contract's own, the types of
\* the dispute manager and the links between its disputes.
THEOREM DisputeInvariant == DisputeSpec => []DInv
<1>1. DInv /\ [DisputeNext]_allVars => DInv'
  BY DisputeNextStep DEF GoodDisputeStep
<1>. QED
  BY <1>1, DInvInit, PTL DEF DisputeSpec

\* Stakes, disputes and settings keep their types: no slash, deposit or burn of
\* the dispute manager takes an account below zero.
THEOREM DisputeTypes == DisputeSpec => []DisputeTypeOK
<1>1. DInv => DisputeTypeOK
  BY DEF DInv
<1>. QED
  BY <1>1, DisputeInvariant, PTL

\* Conflicting disputes name each other, were opened by the same fisherman and
\* carry no deposit, for any number of fishermen and attestations: deleting the
\* related dispute never takes away another's.
THEOREM DisputesLinked == DisputeSpec => []LinkedInPairs
<1>1. DInv => LinkedInPairs
  BY DEF DInv
<1>. QED
  BY <1>1, DisputeInvariant, PTL

\* Slashed by the dispute manager at any moment and by any percentage, an
\* indexer never has more tokens locked than staked: it can still leave.
THEOREM SlashedIndexersCanLeave == DisputeSpec => []LockedWithinStake
<1>1. DInv => LockedWithinStake
  BY DEF DInv, IInv, Good, GoodStake, LockedWithinStake
<1>. QED
  BY <1>1, DisputeInvariant, PTL

\* An open dispute keeps its indexer, fisherman, deposit and link until it is
\* resolved.
THEOREM DisputesNeverRewritten == DisputeSpec => DisputesStand
<1>1. DInv /\ [DisputeNext]_allVars
        => [\A d \in OpenDisputes : disputes'[d] \in {disputes[d], NoDispute}]_allVars
  BY DisputeNextStep DEF GoodDisputeStep, Standing
<1>. QED
  BY <1>1, DisputeInvariant, PTL DEF DisputeSpec, DisputesStand

\* The dispute manager holds the deposits of the open disputes and nothing else,
\* for any number of disputes: no resolution, in conflict or not, loses one, pays
\* one twice or leaves one behind.
THEOREM DepositsStayHeld == DisputeSpec => []DepositsHeld
<1>1. DInv => DepositsHeld
  <2>1. SUFFICES ASSUME DInv PROVE DepositsHeld
    OBVIOUS
  <2>. DEFINE f == [d \in OpenDisputes |-> disputes[d].deposit]
  <2>2. disputes \in [DisputeIDs -> Dispute \cup {NoDispute}] /\ IsFiniteSet(OpenDisputes)
    BY <2>1 DEF DInv, DisputeTypeOK, DepositsBooked
  <2>3. \A d \in OpenDisputes : f[d] \in Int /\ DepositOf[d] = f[d]
    BY <2>2, DepositsNat DEF OpenDisputes, DepositOf
  <2>4. SumFunction(f) = SumFunctionOnSet(f, OpenDisputes)
    BY DEF SumFunction
  <2>. HIDE DEF f
  <2>5. SumFunctionOnSet(f, OpenDisputes) = SumFunctionOnSet(DepositOf, OpenDisputes)
    BY <2>2, <2>3, SumsOfEquals
  <2>. QED
    BY <2>1, <2>4, <2>5 DEF DInv, DepositsBooked, DepositsHeld, f
<1>. QED
  BY <1>1, DisputeInvariant, PTL

\* A dispute that leaves takes only its related dispute along, and its deposit goes
\* to its fisherman or, if it was rejected, is burned, whatever the amounts.
THEOREM DepositsGoWhereTheyShould == DisputeSpec => DepositsSettled
<1>1. DInv /\ [DisputeNext]_allVars
        => [\A d \in OpenDisputes :
              disputes'[d] = NoDispute =>
                  LET fisherman == disputes[d].fisherman
                      deposit   == disputes[d].deposit
                      related   == disputes[d].relatedDisputeID
                  IN  /\ \A other \in OpenDisputes \ {d, related} :
                            disputes'[other] = disputes[other]
                      /\ \/ ledger'.grt[fisherman] >= ledger.grt[fisherman] + deposit
                         \/ /\ ~IsDisputeInConflict(d)
                            /\ ledger' = Burned(ledger, d)]_allVars
  BY DisputeNextStep DEF GoodDisputeStep, Settling, Settled
<1>. QED
  BY <1>1, DisputeInvariant, PTL DEF DisputeSpec, DepositsSettled

\* Whatever slashers the governor names, a stake falls by a withdrawal of what has
\* thawed, by one dispute against its indexer and that dispute's percentage, or
\* by the call of such a slasher.
THEOREM EveryLossExplained == DisputeSpec => [][StakesExplained]_allVars
<1>1. DInv /\ [DisputeNext]_allVars => [StakesExplained]_allVars
  BY DisputeNextStep DEF GoodDisputeStep
<1>. QED
  BY <1>1, DisputeInvariant, PTL DEF DisputeSpec

\* Where the dispute manager is the only slasher, as the contracts are deployed,
\* resolutions take what they name: disputes, deposits and the disputed stake.
THEOREM ResolutionsSettle ==
    ASSUME RoleChoices = {}
    PROVE  DisputeSpec => DisputesSettled
<1>. DEFINE Loss ==
              \A i \in Indexers :
                  LET s == ledger.stakes[i]
                      t == ledger'.stakes[i]
                  IN  t.tokensStaked < s.tokensStaked =>
                         \/ s.tokensStaked - t.tokensStaked = TokensWithdrawable(s, block)
                         \/ \E d \in OpenDisputes :
                               /\ disputes[d].indexer = i
                               /\ disputes'[d] = NoDispute
                               /\ s.tokensStaked - t.tokensStaked = SlashAmount(d)
                               /\ \A j \in Indexers \ {i} :
                                     ledger'.stakes[j] = ledger.stakes[j]
<1>1. DisputeInit => LoneSlasher
  BY DisputeAssumption DEF DisputeInit, Init, LoneSlasher
<1>2. LoneSlasher /\ [DisputeNext]_allVars => LoneSlasher'
  BY SlashersKept DEF LoneSlasher
<1>3. DInv /\ LoneSlasher /\ [DisputeNext]_allVars => [Loss]_allVars
  <2>1. SUFFICES ASSUME DInv, LoneSlasher, [DisputeNext]_allVars PROVE Loss
    OBVIOUS
  <2>2. StakesExplained /\ DInv'
    BY <2>1, DisputeNextStep DEF GoodDisputeStep
  <2>3. \A i \in Indexers : ~SlashStep(i)
    BY <2>1, DisputeContext DEF SlashStep, Slash, CanSlash, LoneSlasher
  <2>4. \A i \in Indexers : /\ ledger.stakes[i].tokensStaked \in Nat
                            /\ ledger'.stakes[i].tokensStaked \in Nat
    BY <2>1, <2>2, StakesNat DEF DInv, IInv
  <2>. QED
    BY <2>2, <2>3, <2>4 DEF StakesExplained, StakeExplained, SlashedBy, Fallen
<1>4. DisputeSpec => SlashedByDispute
  BY <1>1, <1>2, <1>3, DisputeInvariant, PTL DEF DisputeSpec, SlashedByDispute
<1>. QED
  BY <1>4, DisputesNeverRewritten, DepositsGoWhereTheyShould DEF DisputesSettled
=============================================================================
