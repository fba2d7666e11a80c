--------------------------- MODULE StakingProofs ---------------------------
(***************************************************************************)
(* Proofs about Staking.tla for any set of accounts, allocations and       *)
(* deployments, any settings and any amounts: the types, the two           *)
(* invariants of a stake that keep every exit from it open, and that       *)
(* thawing is never cut short.  Then the books: the contract holds exactly *)
(* what it owes, every running total is the sum of its parts, a rebate     *)
(* pool counts the allocations that have still to claim from it, and no    *)
(* transaction takes an allocation out of order or does what a pause       *)
(* forbids; every share of a delegation pool is covered by a token, its    *)
(* price never drops, and the pools are the vaults of DelegationVault.tla. *)
(*                                                                         *)
(* The handlers are compositions of operators on the ledger, and so are    *)
(* the proofs: one lemma per operator, that it keeps a good ledger good,   *)
(* and then one step per handler.  On the way they show what a step may do *)
(* to the rest of the ledger (GoodStep): it moves the allocations at most  *)
(* twice, each time in one of five ways (AllocationMove), it is one of     *)
(* three things to a delegation pool, a reward, an entry or an exit        *)
(* (PoolStep), it leaves the balance with a surplus of nothing and a pause *)
(* respected.  The second half starts from there, and so do the modules    *)
(* with proofs about contracts that call this one: each way is shown to    *)
(* keep the books, and each of the three, with the arithmetic of its       *)
(* truncating division, the price of a share.  The latter needs the        *)
(* invariant that no share is worth less than a token: without it an entry *)
(* into a pool that has tokens but no shares would get none.               *)
(***************************************************************************)
EXTENDS StakingProperties, SumProofs, TLAPS

-----------------------------------------------------------------------------
(* Arithmetic *)

\* All of them is all of them.
LEMMA PortionWhole ==
    ASSUME NEW tokens \in Nat
    PROVE  Portion(MAX_PPM, tokens) = tokens
<1>. DEFINE q == (MAX_PPM * tokens) \div MAX_PPM
            n == MAX_PPM
<1>1. n \in Nat \ {0}
  BY MaxPPM
<1>. HIDE DEF n
<1>2. n * tokens \in Nat
  BY <1>1
<1>3. /\ (n * tokens) \div n \in Nat
      /\ ((n * tokens) \div n) * n <= n * tokens
      /\ n * tokens < ((n * tokens) \div n) * n + n
  BY <1>1, <1>2, DivBounds
<1>4. (n * tokens) \div n = tokens
  BY <1>1, <1>2, <1>3, SMT
<1>. QED
  BY <1>4 DEF Portion, n

\* The average of two numbers is not below both.
LEMMA WeightedAverageBounds ==
    ASSUME NEW a \in Nat, NEW m \in Nat, NEW b \in Nat, NEW n \in Nat, m + n > 0
    PROVE  /\ WeightedAverage(a, m, b, n) \in Nat
           /\ WeightedAverage(a, m, b, n) >= MathMin(a, b)
<1>. DEFINE least == MathMin(a, b)
            total == a * m + b * n
            q == total \div (m + n)
<1>1. least \in Nat /\ least <= a /\ least <= b
  BY DEF MathMin
<1>2. total \in Nat /\ m + n \in Nat \ {0}
  OBVIOUS
<1>. HIDE DEF least
<1>3. least * m <= a * m /\ least * n <= b * n
  BY <1>1
<1>4. least * (m + n) <= total
  BY <1>1, <1>3
<1>. HIDE DEF total
<1>5. q \in Nat /\ q >= least
  BY <1>1, <1>2, <1>4, DivBounds
<1>. QED
  BY <1>5 DEF WeightedAverage, least, total

-----------------------------------------------------------------------------
(* Good ledgers *)

\* A ledger in the middle of a transaction: transfers may still overdraw.
OpenLedger ==
    [stakes              : [Indexers -> Stake],
     delegationPools     : [Indexers -> DelegationPool],
     delegations         : [Indexers -> [Delegators -> Delegation]],
     allocations         : [AllocationIDs -> Allocation],
     subgraphAllocations : [Subgraphs -> Nat],
     rebates             : [Epochs -> Pool],
     grt                 : [Holders -> Int]]

GoodStake(s) == /\ s \in Stake
                /\ SecureStakeDefined(s)
                /\ s.tokensLocked = 0 <=> s.tokensLockedUntil = 0

Good(l) == /\ l \in OpenLedger
           /\ \A i \in Indexers : GoodStake(l.stakes[i])

\* What the handlers read beside the ledger.
Context == /\ ClockTypeOK
           /\ params \in Params
           /\ rewardsDestination \in [Indexers -> Destinations \cup {NoAddress}]

Parts == {"stakes", "delegationPools", "delegations", "allocations",
          "subgraphAllocations", "rebates", "grt"}

\* Ledgers l and m differ in the named parts at most.
DifferIn(l, m, parts) == \A p \in Parts \ parts : m[p] = l[p]

\* A good ledger stays good when a part is replaced by a good one.
LEMMA PartsGood ==
    ASSUME NEW l, Good(l)
    PROVE  /\ \A x \in [Indexers -> Stake] :
                 (\A i \in Indexers : GoodStake(x[i])) =>
                     LET m == [l EXCEPT !.stakes = x]
                     IN  Good(m) /\ m.stakes = x /\ DifferIn(l, m, {"stakes"})
           /\ \A x \in [Indexers -> DelegationPool] :
                 LET m == [l EXCEPT !.delegationPools = x]
                 IN  Good(m) /\ m.delegationPools = x /\ DifferIn(l, m, {"delegationPools"})
           /\ \A x \in [Indexers -> [Delegators -> Delegation]] :
                 LET m == [l EXCEPT !.delegations = x]
                 IN  Good(m) /\ m.delegations = x /\ DifferIn(l, m, {"delegations"})
           /\ \A x \in [AllocationIDs -> Allocation] :
                 LET m == [l EXCEPT !.allocations = x]
                 IN  Good(m) /\ m.allocations = x /\ DifferIn(l, m, {"allocations"})
           /\ \A x \in [Subgraphs -> Nat] :
                 LET m == [l EXCEPT !.subgraphAllocations = x]
                 IN  /\ Good(m) /\ m.subgraphAllocations = x
                     /\ DifferIn(l, m, {"subgraphAllocations"})
           /\ \A x \in [Epochs -> Pool] :
                 LET m == [l EXCEPT !.rebates = x]
                 IN  Good(m) /\ m.rebates = x /\ DifferIn(l, m, {"rebates"})
           /\ \A x \in [Holders -> Int] :
                 LET m == [l EXCEPT !.grt = x]
                 IN  Good(m) /\ m.grt = x /\ DifferIn(l, m, {"grt"})
<1>. DEFINE Only(m, p, x) == m \in OpenLedger /\ m[p] = x /\ DifferIn(l, m, {p})
<1>1. l \in OpenLedger
  BY DEF Good
<1>a. \A x \in [Indexers -> Stake] :
         Only([l EXCEPT !.stakes = x], "stakes", x)
  BY <1>1 DEF OpenLedger, DifferIn, Parts
<1>b. \A x \in [Indexers -> DelegationPool] :
         Only([l EXCEPT !.delegationPools = x], "delegationPools", x)
  BY <1>1 DEF OpenLedger, DifferIn, Parts
<1>c. \A x \in [Indexers -> [Delegators -> Delegation]] :
         Only([l EXCEPT !.delegations = x], "delegations", x)
  BY <1>1 DEF OpenLedger, DifferIn, Parts
<1>d. \A x \in [AllocationIDs -> Allocation] :
         Only([l EXCEPT !.allocations = x], "allocations", x)
  BY <1>1 DEF OpenLedger, DifferIn, Parts
<1>e. \A x \in [Subgraphs -> Nat] :
         Only([l EXCEPT !.subgraphAllocations = x], "subgraphAllocations", x)
  BY <1>1 DEF OpenLedger, DifferIn, Parts
<1>f. \A x \in [Epochs -> Pool] :
         Only([l EXCEPT !.rebates = x], "rebates", x)
  BY <1>1 DEF OpenLedger, DifferIn, Parts
<1>g. \A x \in [Holders -> Int] :
         Only([l EXCEPT !.grt = x], "grt", x)
  BY <1>1 DEF OpenLedger, DifferIn, Parts
<1>2. \A i \in Indexers : GoodStake(l.stakes[i])
  BY DEF Good
<1>3. \A m, p, x : Only(m, p, x) /\ p \in Parts \ {"stakes"} => Good(m)
  <2>. TAKE m, p, x
  <2>1. ASSUME Only(m, p, x), p \in Parts \ {"stakes"}
        PROVE  m.stakes = l.stakes
    BY <2>1 DEF DifferIn, Parts
  <2>. QED
    BY <1>2, <2>1 DEF Good
<1>4. \A m, x : Only(m, "stakes", x) /\ (\A i \in Indexers : GoodStake(x[i])) => Good(m)
  BY DEF Good
<1>5. {"delegationPools", "delegations", "allocations", "subgraphAllocations", "rebates",
       "grt"} \subseteq Parts \ {"stakes"}
  BY DEF Parts
<1>. QED
  BY <1>a, <1>b, <1>c, <1>d, <1>e, <1>f, <1>g, <1>3, <1>4, <1>5

-----------------------------------------------------------------------------
(* What a ledger owes *)

IsActive(alloc) == /\ alloc.indexer # NoAddress
                   /\ alloc.tokens # 0
                   /\ alloc.closedAtEpoch = 0

Pairs == Indexers \X Delegators

\* The tokens that are owed, by what they are owed for.
HeldFor(l)    == [i \in Indexers |-> l.stakes[i].tokensStaked + l.delegationPools[i].tokens]
ThawingFor(l) == [p \in Pairs |-> l.delegations[p[1]][p[2]].tokensLocked]
FeesOf(l)     == [id \in AllocationIDs |-> IF IsActive(l.allocations[id])
                                           THEN l.allocations[id].collectedFees ELSE 0]
RebatesOf(l)  == [e \in Epochs |-> UnclaimedFees(l.rebates[e])]

Owed(l) ==   SumFunctionOnSet(HeldFor(l), Indexers)
           + SumFunctionOnSet(ThawingFor(l), Pairs)
           + SumFunctionOnSet(FeesOf(l), AllocationIDs)
           + SumFunctionOnSet(RebatesOf(l), Epochs)

\* What the contract has beyond that.  It is other than 0 only in mid-transaction.
Surplus(l) == l.grt[StakingAddress] - Owed(l)

\* The sums are over finite sets.
LEMMA FiniteSets ==
    /\ IsFiniteSet(Indexers)
    /\ IsFiniteSet(Delegators)
    /\ IsFiniteSet(Pairs)
    /\ IsFiniteSet(AllocationIDs)
    /\ IsFiniteSet(Epochs)
<1>1. IsFiniteSet(Indexers) /\ IsFiniteSet(Delegators)
  BY AddressAssumption, FiniteAssumption, FS_Subset
<1>2. IsFiniteSet(Pairs)
  BY <1>1, FS_Product DEF Pairs
<1>3. IsFiniteSet(Epochs)
  BY ClockAssumption, FS_Interval DEF Epochs
<1>. QED
  BY <1>1, <1>2, <1>3, FiniteAssumption

\* What the contract owes is a number for each part,
LEMMA OwedInts ==
    ASSUME NEW l, Good(l)
    PROVE  /\ l.grt[StakingAddress] \in Int
           /\ \A i \in Indexers : HeldFor(l)[i] \in Int
           /\ \A p \in Pairs : ThawingFor(l)[p] \in Int
           /\ \A id \in AllocationIDs : FeesOf(l)[id] \in Int
           /\ \A e \in Epochs : RebatesOf(l)[e] \in Int
<1>1. l.grt[StakingAddress] \in Int
  BY DEF Good, OpenLedger, Holders
<1>2. \A i \in Indexers : HeldFor(l)[i] \in Int
  BY DEF Good, OpenLedger, HeldFor, Stake, DelegationPool
<1>3. \A p \in Pairs : ThawingFor(l)[p] \in Int
  BY DEF Good, OpenLedger, ThawingFor, Delegation, Pairs
<1>4. \A id \in AllocationIDs : FeesOf(l)[id] \in Int
  BY DEF Good, OpenLedger, FeesOf, Allocation
<1>5. \A e \in Epochs : RebatesOf(l)[e] \in Int
  BY DEF Good, OpenLedger, RebatesOf, Pool, UnclaimedFees
<1>. QED
  BY <1>1, <1>2, <1>3, <1>4, <1>5

\* and so are the sums.
LEMMA OwedSums ==
    ASSUME NEW l, Good(l)
    PROVE  /\ l.grt[StakingAddress] \in Int
           /\ SumFunctionOnSet(HeldFor(l), Indexers) \in Int
           /\ SumFunctionOnSet(ThawingFor(l), Pairs) \in Int
           /\ SumFunctionOnSet(FeesOf(l), AllocationIDs) \in Int
           /\ SumFunctionOnSet(RebatesOf(l), Epochs) \in Int
           /\ Owed(l) \in Int /\ Surplus(l) \in Int
<1>1. /\ SumFunctionOnSet(HeldFor(l), Indexers) \in Int
      /\ SumFunctionOnSet(ThawingFor(l), Pairs) \in Int
      /\ SumFunctionOnSet(FeesOf(l), AllocationIDs) \in Int
      /\ SumFunctionOnSet(RebatesOf(l), Epochs) \in Int
  BY OwedInts, FiniteSets, SumIsInt
<1>. QED
  BY <1>1, OwedInts DEF Surplus, Owed

\* How the surplus changes with each part of the ledger.
LEMMA GrtSurplus ==
    ASSUME NEW l, NEW m, Good(l), Good(m), DifferIn(l, m, {"grt"})
    PROVE  Surplus(m) = Surplus(l) + (m.grt[StakingAddress] - l.grt[StakingAddress])
<1>1. Owed(m) = Owed(l)
  BY DEF DifferIn, Parts, Owed, HeldFor, ThawingFor, FeesOf, RebatesOf
<1>2. Owed(l) \in Int
  BY OwedSums
<1>3. m.grt[StakingAddress] \in Int /\ l.grt[StakingAddress] \in Int
  BY OwedInts
<1>. QED
  BY <1>1, <1>2, <1>3 DEF Surplus

\* A larger stake is owed.
LEMMA StakeSurplus ==
    ASSUME NEW l, NEW m, Good(l), Good(m), DifferIn(l, m, {"stakes"}),
           NEW i \in Indexers, NEW s, m.stakes = [l.stakes EXCEPT ![i] = s]
    PROVE  Surplus(m) = Surplus(l) - (s.tokensStaked - l.stakes[i].tokensStaked)
<1>1. /\ m.grt = l.grt /\ ThawingFor(m) = ThawingFor(l)
      /\ FeesOf(m) = FeesOf(l) /\ RebatesOf(m) = RebatesOf(l)
      /\ m.delegationPools = l.delegationPools
  BY DEF DifferIn, Parts, ThawingFor, FeesOf, RebatesOf
<1>2. l.stakes \in [Indexers -> Stake] /\ m.stakes \in [Indexers -> Stake]
  BY DEF Good, OpenLedger
<1>3. \A j \in Indexers \ {i} : HeldFor(m)[j] = HeldFor(l)[j]
  BY <1>1, <1>2 DEF HeldFor
<1>4. SumFunctionOnSet(HeldFor(m), Indexers)
        = SumFunctionOnSet(HeldFor(l), Indexers) + (HeldFor(m)[i] - HeldFor(l)[i])
  <2>1. \A j \in Indexers : HeldFor(l)[j] \in Int /\ HeldFor(m)[j] \in Int
    BY OwedInts
  <2>. QED
    BY <1>3, <2>1, FiniteSets, SumAfterUpdate
<1>5. /\ l.stakes[i].tokensStaked \in Int /\ s.tokensStaked \in Int
      /\ l.delegationPools[i].tokens \in Int
      /\ HeldFor(l)[i] = l.stakes[i].tokensStaked + l.delegationPools[i].tokens
      /\ HeldFor(m)[i] = s.tokensStaked + l.delegationPools[i].tokens
  <2>1. m.stakes[i] = s
    BY <1>2
  <2>. QED
    BY <1>1, <1>2, <2>1 DEF HeldFor, Stake, Good, OpenLedger, DelegationPool
<1>. DEFINE held == SumFunctionOnSet(HeldFor(l), Indexers)
            other == SumFunctionOnSet(ThawingFor(l), Pairs)
                     + SumFunctionOnSet(FeesOf(l), AllocationIDs)
                     + SumFunctionOnSet(RebatesOf(l), Epochs)
<1>6. held \in Int /\ other \in Int /\ l.grt[StakingAddress] \in Int
  BY OwedSums
<1>7. Owed(l) = held + other
  BY OwedSums DEF Owed
<1>8. Owed(m) = (held + (s.tokensStaked - l.stakes[i].tokensStaked)) + other
  BY <1>1, <1>4, <1>5, <1>6, OwedSums DEF Owed
<1>. HIDE DEF held, other
<1>. QED
  BY <1>1, <1>5, <1>6, <1>7, <1>8 DEF Surplus

\* So are more tokens of a delegation pool,
LEMMA PoolSurplus ==
    ASSUME NEW l, NEW m, Good(l), Good(m), DifferIn(l, m, {"delegationPools"}),
           NEW i \in Indexers, NEW p, m.delegationPools = [l.delegationPools EXCEPT ![i] = p]
    PROVE  Surplus(m) = Surplus(l) - (p.tokens - l.delegationPools[i].tokens)
<1>1. /\ m.grt = l.grt /\ ThawingFor(m) = ThawingFor(l)
      /\ FeesOf(m) = FeesOf(l) /\ RebatesOf(m) = RebatesOf(l)
      /\ m.stakes = l.stakes
  BY DEF DifferIn, Parts, ThawingFor, FeesOf, RebatesOf
<1>2. /\ l.delegationPools \in [Indexers -> DelegationPool]
      /\ m.delegationPools \in [Indexers -> DelegationPool]
  BY DEF Good, OpenLedger
<1>3. \A j \in Indexers \ {i} : HeldFor(m)[j] = HeldFor(l)[j]
  BY <1>1, <1>2 DEF HeldFor
<1>4. SumFunctionOnSet(HeldFor(m), Indexers)
        = SumFunctionOnSet(HeldFor(l), Indexers) + (HeldFor(m)[i] - HeldFor(l)[i])
  <2>1. \A j \in Indexers : HeldFor(l)[j] \in Int /\ HeldFor(m)[j] \in Int
    BY OwedInts
  <2>. QED
    BY <1>3, <2>1, FiniteSets, SumAfterUpdate
<1>5. /\ l.delegationPools[i].tokens \in Int /\ p.tokens \in Int
      /\ l.stakes[i].tokensStaked \in Int
      /\ HeldFor(l)[i] = l.stakes[i].tokensStaked + l.delegationPools[i].tokens
      /\ HeldFor(m)[i] = l.stakes[i].tokensStaked + p.tokens
  <2>1. m.delegationPools[i] = p
    BY <1>2
  <2>. QED
    BY <1>1, <1>2, <2>1 DEF HeldFor, Stake, Good, OpenLedger, DelegationPool
<1>. DEFINE held == SumFunctionOnSet(HeldFor(l), Indexers)
            other == SumFunctionOnSet(ThawingFor(l), Pairs)
                     + SumFunctionOnSet(FeesOf(l), AllocationIDs)
                     + SumFunctionOnSet(RebatesOf(l), Epochs)
<1>6. held \in Int /\ other \in Int /\ l.grt[StakingAddress] \in Int
  BY OwedSums
<1>7. Owed(l) = held + other
  BY OwedSums DEF Owed
<1>8. Owed(m) = (held + (p.tokens - l.delegationPools[i].tokens)) + other
  BY <1>1, <1>4, <1>5, <1>6, OwedSums DEF Owed
<1>. HIDE DEF held, other
<1>. QED
  BY <1>1, <1>5, <1>6, <1>7, <1>8 DEF Surplus

\* those a delegator has thawing,
LEMMA DelegationSurplus ==
    ASSUME NEW l, NEW m, Good(l), Good(m), DifferIn(l, m, {"delegations"}),
           NEW i \in Indexers, NEW d \in Delegators, NEW g,
           m.delegations = [l.delegations EXCEPT ![i] = [@ EXCEPT ![d] = g]]
    PROVE  Surplus(m) = Surplus(l) - (g.tokensLocked - l.delegations[i][d].tokensLocked)
<1>1. /\ m.grt = l.grt /\ HeldFor(m) = HeldFor(l)
      /\ FeesOf(m) = FeesOf(l) /\ RebatesOf(m) = RebatesOf(l)
  BY DEF DifferIn, Parts, HeldFor, FeesOf, RebatesOf
<1>2. /\ l.delegations \in [Indexers -> [Delegators -> Delegation]]
      /\ m.delegations \in [Indexers -> [Delegators -> Delegation]]
  BY DEF Good, OpenLedger
<1>3. \A j \in Indexers, e \in Delegators :
         m.delegations[j][e] = IF j = i /\ e = d THEN g ELSE l.delegations[j][e]
  BY <1>2
<1>. DEFINE pair == <<i, d>>
<1>4. pair \in Pairs /\ pair[1] = i /\ pair[2] = d
  BY DEF Pairs
<1>5. \A q \in Pairs : q[1] \in Indexers /\ q[2] \in Delegators /\ q = <<q[1], q[2]>>
  BY DEF Pairs
<1>6. \A q \in Pairs \ {pair} : ThawingFor(m)[q] = ThawingFor(l)[q]
  BY <1>3, <1>5 DEF ThawingFor
<1>7. /\ ThawingFor(m)[pair] = g.tokensLocked
      /\ ThawingFor(l)[pair] = l.delegations[i][d].tokensLocked
  BY <1>3, <1>4 DEF ThawingFor
<1>8. ThawingFor(m)[pair] \in Int /\ ThawingFor(l)[pair] \in Int
  BY <1>4, OwedInts
<1>. HIDE DEF pair
<1>9. SumFunctionOnSet(ThawingFor(m), Pairs)
        = SumFunctionOnSet(ThawingFor(l), Pairs) + (ThawingFor(m)[pair] - ThawingFor(l)[pair])
  <2>1. \A q \in Pairs : ThawingFor(l)[q] \in Int /\ ThawingFor(m)[q] \in Int
    BY OwedInts
  <2>. QED
    BY <1>4, <1>6, <2>1, FiniteSets, SumAfterUpdate
<1>. DEFINE thawing == SumFunctionOnSet(ThawingFor(l), Pairs)
            held == SumFunctionOnSet(HeldFor(l), Indexers)
            other == SumFunctionOnSet(FeesOf(l), AllocationIDs)
                     + SumFunctionOnSet(RebatesOf(l), Epochs)
<1>10. held \in Int /\ thawing \in Int /\ other \in Int /\ l.grt[StakingAddress] \in Int
  BY OwedSums
<1>11. Owed(l) = held + thawing + other
  BY OwedSums DEF Owed
<1>12. Owed(m) = held + (thawing + (ThawingFor(m)[pair] - ThawingFor(l)[pair])) + other
  BY <1>1, <1>8, <1>9, <1>10, OwedSums DEF Owed
<1>. HIDE DEF held, thawing, other
<1>13. Surplus(m) = Surplus(l) - (ThawingFor(m)[pair] - ThawingFor(l)[pair])
  BY <1>1, <1>8, <1>10, <1>11, <1>12 DEF Surplus
<1>. QED
  BY <1>7, <1>13

\* the fees of an active allocation,
LEMMA AllocationSurplus ==
    ASSUME NEW l, NEW m, Good(l), Good(m), DifferIn(l, m, {"allocations"}),
           NEW id \in AllocationIDs, NEW a, m.allocations = [l.allocations EXCEPT ![id] = a]
    PROVE  LET Fees(alloc) == IF IsActive(alloc) THEN alloc.collectedFees ELSE 0
           IN  Surplus(m) = Surplus(l) - (Fees(a) - Fees(l.allocations[id]))
<1>. DEFINE Fees(alloc) == IF IsActive(alloc) THEN alloc.collectedFees ELSE 0
<1>1. /\ m.grt = l.grt /\ HeldFor(m) = HeldFor(l)
      /\ ThawingFor(m) = ThawingFor(l) /\ RebatesOf(m) = RebatesOf(l)
  BY DEF DifferIn, Parts, HeldFor, ThawingFor, RebatesOf
<1>2. l.allocations \in [AllocationIDs -> Allocation]
  BY DEF Good, OpenLedger
<1>3. \A x \in AllocationIDs \ {id} : FeesOf(m)[x] = FeesOf(l)[x]
  BY <1>2 DEF FeesOf
<1>4. FeesOf(m)[id] = Fees(a) /\ FeesOf(l)[id] = Fees(l.allocations[id])
  BY <1>2 DEF FeesOf
<1>5. FeesOf(m)[id] \in Int /\ FeesOf(l)[id] \in Int
  BY OwedInts
<1>. HIDE DEF Fees
<1>6. SumFunctionOnSet(FeesOf(m), AllocationIDs)
        = SumFunctionOnSet(FeesOf(l), AllocationIDs) + (FeesOf(m)[id] - FeesOf(l)[id])
  <2>1. \A x \in AllocationIDs : FeesOf(l)[x] \in Int /\ FeesOf(m)[x] \in Int
    BY OwedInts
  <2>. QED
    BY <1>3, <2>1, FiniteSets, SumAfterUpdate
<1>. DEFINE fees == SumFunctionOnSet(FeesOf(l), AllocationIDs)
            held == SumFunctionOnSet(HeldFor(l), Indexers)
                    + SumFunctionOnSet(ThawingFor(l), Pairs)
            other == SumFunctionOnSet(RebatesOf(l), Epochs)
<1>7. held \in Int /\ fees \in Int /\ other \in Int /\ l.grt[StakingAddress] \in Int
  BY OwedSums
<1>8. Owed(l) = held + fees + other
  BY OwedSums DEF Owed
<1>9. Owed(m) = held + (fees + (FeesOf(m)[id] - FeesOf(l)[id])) + other
  BY <1>1, <1>5, <1>6, <1>7, OwedSums DEF Owed
<1>. HIDE DEF held, fees, other
<1>10. Surplus(m) = Surplus(l) - (FeesOf(m)[id] - FeesOf(l)[id])
  BY <1>1, <1>5, <1>7, <1>8, <1>9 DEF Surplus
<1>. QED
  BY <1>4, <1>10 DEF Fees

\* and what a rebate pool has not paid out.
LEMMA RebatesSurplus ==
    ASSUME NEW l, NEW m, Good(l), Good(m), DifferIn(l, m, {"rebates"}),
           NEW e \in Epochs, NEW p, m.rebates = [l.rebates EXCEPT ![e] = p]
    PROVE  Surplus(m) = Surplus(l) - (UnclaimedFees(p) - UnclaimedFees(l.rebates[e]))
<1>1. /\ m.grt = l.grt /\ HeldFor(m) = HeldFor(l)
      /\ ThawingFor(m) = ThawingFor(l) /\ FeesOf(m) = FeesOf(l)
  BY DEF DifferIn, Parts, HeldFor, ThawingFor, FeesOf
<1>2. l.rebates \in [Epochs -> Pool]
  BY DEF Good, OpenLedger
<1>3. \A x \in Epochs \ {e} : RebatesOf(m)[x] = RebatesOf(l)[x]
  BY <1>2 DEF RebatesOf
<1>4. /\ RebatesOf(m)[e] = UnclaimedFees(p)
      /\ RebatesOf(l)[e] = UnclaimedFees(l.rebates[e])
  BY <1>2 DEF RebatesOf
<1>5. RebatesOf(m)[e] \in Int /\ RebatesOf(l)[e] \in Int
  BY OwedInts
<1>6. SumFunctionOnSet(RebatesOf(m), Epochs)
        = SumFunctionOnSet(RebatesOf(l), Epochs) + (RebatesOf(m)[e] - RebatesOf(l)[e])
  <2>1. \A x \in Epochs : RebatesOf(l)[x] \in Int /\ RebatesOf(m)[x] \in Int
    BY OwedInts
  <2>. QED
    BY <1>3, <2>1, FiniteSets, SumAfterUpdate
<1>. DEFINE fees == SumFunctionOnSet(RebatesOf(l), Epochs)
            held == SumFunctionOnSet(HeldFor(l), Indexers)
                    + SumFunctionOnSet(ThawingFor(l), Pairs)
                    + SumFunctionOnSet(FeesOf(l), AllocationIDs)
<1>7. held \in Int /\ fees \in Int /\ l.grt[StakingAddress] \in Int
  BY OwedSums
<1>8. Owed(l) = held + fees
  BY OwedSums DEF Owed
<1>9. Owed(m) = held + (fees + (RebatesOf(m)[e] - RebatesOf(l)[e]))
  BY <1>1, <1>5, <1>6, <1>7, OwedSums DEF Owed
<1>. HIDE DEF held, fees
<1>10. Surplus(m) = Surplus(l) - (RebatesOf(m)[e] - RebatesOf(l)[e])
  BY <1>1, <1>5, <1>7, <1>8, <1>9 DEF Surplus
<1>. QED
  BY <1>4, <1>10

\* The totals of the deployments are owed to nobody.
LEMMA SubgraphSurplus ==
    ASSUME NEW l, NEW m, DifferIn(l, m, {"subgraphAllocations"})
    PROVE  Surplus(m) = Surplus(l)
BY DEF DifferIn, Parts, Surplus, Owed, HeldFor, ThawingFor, FeesOf, RebatesOf

-----------------------------------------------------------------------------
(* The operations on one stake *)

\* unlockTokens of Stakes.sol, field by field.
LEMMA UnlockTokensIs ==
    ASSUME NEW s \in Stake, NEW tokens \in Nat
    PROVE  UnlockTokens(s, tokens) =
               [tokensStaked      |-> s.tokensStaked,
                tokensAllocated   |-> s.tokensAllocated,
                tokensLocked      |-> s.tokensLocked - tokens,
                tokensLockedUntil |-> IF s.tokensLocked = tokens THEN 0
                                      ELSE s.tokensLockedUntil]
<1>. DEFINE until == IF s.tokensLocked = tokens THEN 0 ELSE s.tokensLockedUntil
            locked == s.tokensLocked - tokens
<1>1. UnlockTokens(s, tokens) = [s EXCEPT !.tokensLocked = locked,
                                          !.tokensLockedUntil = until]
  <2>1. [s EXCEPT !.tokensLocked = locked].tokensLockedUntil = s.tokensLockedUntil
    BY DEF Stake
  <2>. QED
    BY <2>1 DEF UnlockTokens
<1>. HIDE DEF until, locked
<1>2. UnlockTokens(s, tokens) = [tokensStaked      |-> s.tokensStaked,
                                 tokensAllocated   |-> s.tokensAllocated,
                                 tokensLocked      |-> locked,
                                 tokensLockedUntil |-> until]
  BY <1>1 DEF Stake
<1>. QED
  BY <1>2 DEF until, locked

\* withdrawTokens takes all the lock once it is due, and nothing before.
LEMMA WithdrawTokensGood ==
    ASSUME NEW s, GoodStake(s), NEW b \in Nat
    PROVE  /\ GoodStake(WithdrawTokens(s, b))
           /\ WithdrawTokens(s, b).tokensAllocated = s.tokensAllocated
           /\ TokensWithdrawable(s, b) \in 0 .. s.tokensLocked
           /\ TokensWithdrawable(s, b) = 0 => WithdrawTokens(s, b) = s
           /\ TokensWithdrawable(s, b) > 0 =>
                 /\ WithdrawTokens(s, b).tokensLocked = 0
                 /\ WithdrawTokens(s, b).tokensStaked = s.tokensStaked - s.tokensLocked
           /\ WithdrawTokens(s, b).tokensStaked = s.tokensStaked - TokensWithdrawable(s, b)
<1>. DEFINE n == TokensWithdrawable(s, b)
<1>1. s \in Stake /\ s.tokensLocked <= s.tokensStaked
  BY DEF GoodStake, SecureStakeDefined
<1>2. n \in 0 .. s.tokensLocked /\ (n = 0 \/ n = s.tokensLocked)
  BY <1>1 DEF TokensWithdrawable, Stake
<1>. HIDE DEF n
<1>3. CASE n = 0
  <2>1. WithdrawTokens(s, b) = s /\ s.tokensStaked \in Nat
    BY <1>1, <1>3 DEF WithdrawTokens, n, Stake
  <2>. QED
    BY <1>2, <1>3, <2>1 DEF n
<1>4. CASE n > 0
  <2>1. n = s.tokensLocked
    BY <1>2, <1>4
  <2>2. WithdrawTokens(s, b) = [tokensStaked      |-> s.tokensStaked - s.tokensLocked,
                                tokensAllocated   |-> s.tokensAllocated,
                                tokensLocked      |-> 0,
                                tokensLockedUntil |-> 0]
    <3>1. UnlockTokens(s, n) = [tokensStaked      |-> s.tokensStaked,
                                tokensAllocated   |-> s.tokensAllocated,
                                tokensLocked      |-> 0,
                                tokensLockedUntil |-> 0]
      BY <1>1, <1>2, <2>1, UnlockTokensIs DEF Stake
    <3>2. WithdrawTokens(s, b) = Release(UnlockTokens(s, n), n)
      BY <1>4 DEF WithdrawTokens, n
    <3>. QED
      BY <3>1, <3>2, <2>1 DEF Release
  <2>. QED
    BY <1>1, <1>2, <1>4, <2>2 DEF GoodStake, SecureStakeDefined, Stake, n
<1>. QED
  BY <1>2, <1>3, <1>4

\* Tokens that are locked must be there, and a lock lasts a block at least.
LEMMA LockTokensGood ==
    ASSUME NEW s, GoodStake(s), NEW tokens \in Nat \ {0}, NEW period \in Nat \ {0},
           NEW b \in Nat \ {0}, s.tokensLocked + tokens <= s.tokensStaked
    PROVE  LET t == LockTokens(s, tokens, period, b)
           IN  /\ GoodStake(t)
               /\ t.tokensStaked = s.tokensStaked
               /\ t.tokensAllocated = s.tokensAllocated
               /\ t.tokensLocked = s.tokensLocked + tokens
               /\ s.tokensLocked = 0 => t.tokensLockedUntil = b + period
               /\ s.tokensLocked > 0 =>
                     t.tokensLockedUntil >= MathMin(s.tokensLockedUntil, b + period)
               /\ (s.tokensLocked > 0 => s.tokensLockedUntil > b) =>
                     t.tokensLockedUntil > b
<1>. DEFINE rest == DiffOrZero(s.tokensLockedUntil, b)
            average == WeightedAverage(rest, s.tokensLocked, period, tokens)
            wait == IF s.tokensLocked > 0 THEN average ELSE period
<1>1. s \in Stake /\ s.tokensLocked \in Nat /\ s.tokensLockedUntil \in Nat
  BY DEF GoodStake, Stake
<1>2. rest \in Nat /\ rest + b >= s.tokensLockedUntil
  BY <1>1 DEF DiffOrZero
<1>. HIDE DEF rest
<1>3. average \in Nat /\ average >= MathMin(rest, period)
  <2>1. s.tokensLocked + tokens > 0
    BY <1>1
  <2>. QED
    BY <1>1, <1>2, <2>1, WeightedAverageBounds
<1>. HIDE DEF average
<1>4. wait \in Nat /\ (IF s.tokensLocked = 0 THEN wait = period
                       ELSE wait >= MathMin(rest, period))
  BY <1>1, <1>3
<1>. HIDE DEF wait
<1>5. LockTokens(s, tokens, period, b) = [tokensStaked      |-> s.tokensStaked,
                                          tokensAllocated   |-> s.tokensAllocated,
                                          tokensLocked      |-> s.tokensLocked + tokens,
                                          tokensLockedUntil |-> b + wait]
  <2>1. LockTokens(s, tokens, period, b) = [s EXCEPT !.tokensLocked = s.tokensLocked + tokens,
                                                     !.tokensLockedUntil = b + wait]
    BY DEF LockTokens, wait, average, rest
  <2>. QED
    BY <1>1, <2>1 DEF Stake
<1>6. s.tokensLocked = 0 \/ b + wait >= MathMin(s.tokensLockedUntil, b + period)
  BY <1>1, <1>2, <1>4 DEF MathMin
<1>7. (s.tokensLocked > 0 => s.tokensLockedUntil > b) => wait > 0
  BY <1>1, <1>2, <1>4 DEF MathMin
<1>. QED
  BY <1>1, <1>4, <1>5, <1>6, <1>7 DEF GoodStake, Stake, SecureStakeDefined

\* A slash takes locked tokens only when the free ones do not suffice, and what
\* stays locked is still staked.
LEMMA SlashGood ==
    ASSUME NEW s, GoodStake(s), NEW tokens \in Nat, tokens <= s.tokensStaked
    PROVE  LET t == Release(UnlockedForSlash(s, tokens), tokens)
           IN  /\ GoodStake(t)
               /\ t.tokensStaked = s.tokensStaked - tokens
               /\ t.tokensAllocated = s.tokensAllocated
               /\ t.tokensLocked <= s.tokensLocked
               /\ t.tokensLocked > 0 => t.tokensLockedUntil = s.tokensLockedUntil
<1>. DEFINE free == TokensAvailable(s)
            beyond == tokens - free
            unlock == MathMin(beyond, s.tokensLocked)
<1>1. s \in Stake /\ s.tokensLocked <= s.tokensStaked
  BY DEF GoodStake, SecureStakeDefined
<1>2. free \in Nat /\ free <= s.tokensStaked
                   /\ (free = 0 \/ free = s.tokensStaked - s.tokensAllocated - s.tokensLocked)
  BY <1>1 DEF Stake, TokensAvailable, TokensAvailableWithDelegation, DiffOrZero, TokensUsed
<1>. HIDE DEF free
<1>3. CASE beyond > 0 /\ s.tokensLocked > 0
  <2>1. unlock \in 1 .. s.tokensLocked /\ (unlock = s.tokensLocked \/ unlock = beyond)
    BY <1>1, <1>2, <1>3 DEF MathMin, Stake
  <2>. HIDE DEF unlock
  <2>2. UnlockedForSlash(s, tokens) = UnlockTokens(s, unlock)
    BY <1>3 DEF UnlockedForSlash, free, unlock
  <2>3. s.tokensLocked - unlock <= s.tokensStaked - tokens
    BY <1>1, <1>2, <2>1 DEF Stake
  <2>4. Release(UnlockTokens(s, unlock), tokens) =
            [tokensStaked      |-> s.tokensStaked - tokens,
             tokensAllocated   |-> s.tokensAllocated,
             tokensLocked      |-> s.tokensLocked - unlock,
             tokensLockedUntil |-> IF s.tokensLocked = unlock THEN 0 ELSE s.tokensLockedUntil]
    BY <1>1, <2>1, UnlockTokensIs DEF Release, Stake
  <2>5. s.tokensLockedUntil # 0
    BY <1>3 DEF GoodStake
  <2>. QED
    BY <1>1, <2>1, <2>2, <2>3, <2>4, <2>5 DEF GoodStake, SecureStakeDefined, Stake
<1>4. CASE ~(beyond > 0 /\ s.tokensLocked > 0)
  <2>1. UnlockedForSlash(s, tokens) = s
    BY <1>4 DEF UnlockedForSlash, free
  <2>2. s.tokensLocked <= s.tokensStaked - tokens
    BY <1>1, <1>2, <1>4 DEF Stake
  <2>. QED
    BY <1>1, <2>1, <2>2 DEF Release, GoodStake, SecureStakeDefined, Stake
<1>. QED
  BY <1>3, <1>4

-----------------------------------------------------------------------------
(* The operators on the ledger *)

\* Moving GRT changes the balances only,
LEMMA TransferGood ==
    ASSUME NEW l, Good(l), NEW from \in Holders, NEW to \in Holders, NEW tokens \in Int
    PROVE  /\ Good(Transfer(l, from, to, tokens))
           /\ DifferIn(l, Transfer(l, from, to, tokens), {"grt"})
<1>. DEFINE d == [l.grt EXCEPT ![from] = @ - tokens]
            g == [d EXCEPT ![to] = @ + tokens]
<1>1. l.grt \in [Holders -> Int]
  BY DEF Good, OpenLedger
<1>2. d \in [Holders -> Int]
  BY <1>1
<1>3. g \in [Holders -> Int]
  BY <1>2
<1>4. Transfer(l, from, to, tokens) = [l EXCEPT !.grt = g]
  BY DEF Transfer
<1>. HIDE DEF g
<1>. QED
  BY <1>3, <1>4, PartsGood

\* like minting and burning it
LEMMA MintedGoneGood ==
    ASSUME NEW l, Good(l), NEW tokens \in Int
    PROVE  /\ Good(Minted(l, tokens)) /\ DifferIn(l, Minted(l, tokens), {"grt"})
           /\ Good(Gone(l, tokens)) /\ DifferIn(l, Gone(l, tokens), {"grt"})
<1>. DEFINE g == [l.grt EXCEPT ![StakingAddress] = @ + tokens]
            h == [l.grt EXCEPT ![StakingAddress] = @ - tokens]
<1>1. l.grt \in [Holders -> Int] /\ StakingAddress \in Holders
  BY DEF Good, OpenLedger, Holders
<1>2. g \in [Holders -> Int] /\ h \in [Holders -> Int]
  BY <1>1
<1>3. Minted(l, tokens) = [l EXCEPT !.grt = g] /\ Gone(l, tokens) = [l EXCEPT !.grt = h]
  BY DEF Minted, Gone
<1>. HIDE DEF g, h
<1>. QED
  BY <1>2, <1>3, PartsGood

\* and paying the contract or being paid by it.
LEMMA PullPushGood ==
    ASSUME NEW l, Good(l), NEW a \in Accounts, NEW tokens \in Int
    PROVE  /\ Good(Pull(l, a, tokens)) /\ DifferIn(l, Pull(l, a, tokens), {"grt"})
           /\ Good(Push(l, a, tokens)) /\ DifferIn(l, Push(l, a, tokens), {"grt"})
BY TransferGood DEF Pull, Push, Holders

\* The other contracts of the protocol have what they had.
ContractsKept(l, m) == \A c \in Contracts : m.grt[c] = l.grt[c]

\* Nor is any account poorer in m than in l.
NobodyPays(l, m) == /\ \A h \in Accounts : m.grt[h] >= l.grt[h]
                    /\ ContractsKept(l, m)


\* What is pulled is surplus until it is booked, what is pushed was booked before.
LEMMA PullPushMoves ==
    ASSUME NEW l, Good(l), NEW a \in Accounts, NEW tokens \in Int
    PROVE  /\ Surplus(Pull(l, a, tokens)) = Surplus(l) + tokens
           /\ Surplus(Push(l, a, tokens)) = Surplus(l) - tokens
           /\ tokens >= 0 => NobodyPays(l, Push(l, a, tokens))
           /\ ContractsKept(l, Pull(l, a, tokens))
<1>. DEFINE m == Pull(l, a, tokens)
            n == Push(l, a, tokens)
<1>1. /\ l.grt \in [Holders -> Int] /\ a \in Holders /\ StakingAddress \in Holders
      /\ a # StakingAddress /\ Accounts \subseteq Holders
  BY AddressAssumption DEF Good, OpenLedger, Holders
<1>2. m.grt = [[l.grt EXCEPT ![a] = l.grt[a] - tokens]
                 EXCEPT ![StakingAddress] = l.grt[StakingAddress] + tokens]
  BY <1>1 DEF Good, OpenLedger, Pull, Transfer
<1>3. n.grt = [[l.grt EXCEPT ![StakingAddress] = l.grt[StakingAddress] - tokens]
                 EXCEPT ![a] = l.grt[a] + tokens]
  BY <1>1 DEF Good, OpenLedger, Push, Transfer
<1>4. Good(m) /\ DifferIn(l, m, {"grt"}) /\ Good(n) /\ DifferIn(l, n, {"grt"})
  BY PullPushGood
<1>. HIDE DEF m, n
<1>5. /\ m.grt[StakingAddress] = l.grt[StakingAddress] + tokens
      /\ n.grt[StakingAddress] = l.grt[StakingAddress] - tokens
      /\ l.grt[StakingAddress] \in Int
  BY <1>1, <1>2, <1>3
<1>6. /\ tokens >= 0 => NobodyPays(l, n)
      /\ ContractsKept(l, m)
  <2>1. ContractsKept(l, m) /\ ContractsKept(l, n)
    BY <1>1, <1>2, <1>3, AddressAssumption DEF ContractsKept, Holders
  <2>2. tokens >= 0 => \A h \in Accounts : n.grt[h] >= l.grt[h]
    BY <1>1, <1>3, AddressAssumption
  <2>. QED
    BY <2>1, <2>2 DEF NobodyPays
<1>7. /\ Surplus(m) = Surplus(l) + (m.grt[StakingAddress] - l.grt[StakingAddress])
      /\ Surplus(n) = Surplus(l) + (n.grt[StakingAddress] - l.grt[StakingAddress])
      /\ Surplus(l) \in Int
  BY <1>4, GrtSurplus, OwedSums
<1>8. Surplus(m) = Surplus(l) + tokens /\ Surplus(n) = Surplus(l) - tokens
  BY <1>5, <1>7
<1>. QED
  BY <1>6, <1>8 DEF m, n

\* What is minted for the contract or leaves it changes what it has over.
LEMMA MintedGoneMoves ==
    ASSUME NEW l, Good(l), NEW tokens \in Int
    PROVE  /\ Surplus(Minted(l, tokens)) = Surplus(l) + tokens
           /\ Surplus(Gone(l, tokens)) = Surplus(l) - tokens
           /\ NobodyPays(l, Minted(l, tokens))
           /\ NobodyPays(l, Gone(l, tokens))
<1>. DEFINE m == Minted(l, tokens)
            n == Gone(l, tokens)
<1>1. /\ l.grt \in [Holders -> Int] /\ StakingAddress \in Holders
      /\ Accounts \subseteq Holders
  BY DEF Good, OpenLedger, Holders
<1>2. /\ m.grt = [l.grt EXCEPT ![StakingAddress] = l.grt[StakingAddress] + tokens]
      /\ n.grt = [l.grt EXCEPT ![StakingAddress] = l.grt[StakingAddress] - tokens]
  BY <1>1 DEF Good, OpenLedger, Minted, Gone
<1>3. Good(m) /\ DifferIn(l, m, {"grt"}) /\ Good(n) /\ DifferIn(l, n, {"grt"})
  BY MintedGoneGood
<1>. HIDE DEF m, n
<1>4. /\ m.grt[StakingAddress] = l.grt[StakingAddress] + tokens
      /\ n.grt[StakingAddress] = l.grt[StakingAddress] - tokens
      /\ l.grt[StakingAddress] \in Int
  BY <1>1, <1>2
<1>5. NobodyPays(l, m) /\ NobodyPays(l, n)
  <2>1. \A h \in Accounts : m.grt[h] = l.grt[h] /\ n.grt[h] = l.grt[h] /\ l.grt[h] \in Int
    BY <1>1, <1>2, AddressAssumption
  <2>2. ContractsKept(l, m) /\ ContractsKept(l, n)
    BY <1>1, <1>2, AddressAssumption DEF ContractsKept, Holders
  <2>. QED
    BY <2>1, <2>2 DEF NobodyPays
<1>6. /\ Surplus(m) = Surplus(l) + (m.grt[StakingAddress] - l.grt[StakingAddress])
      /\ Surplus(n) = Surplus(l) + (n.grt[StakingAddress] - l.grt[StakingAddress])
      /\ Surplus(l) \in Int
  BY <1>3, GrtSurplus, OwedSums
<1>7. Surplus(m) = Surplus(l) + tokens /\ Surplus(n) = Surplus(l) - tokens
  BY <1>4, <1>6
<1>. QED
  BY <1>5, <1>7 DEF m, n

\* Nobody pays in two parts of a transaction if nobody does in either.
LEMMA NobodyPaysTransitive ==
    ASSUME NEW l, NEW m, NEW n, Good(l), Good(m), Good(n),
           NobodyPays(l, m), NobodyPays(m, n)
    PROVE  NobodyPays(l, n)
<1>. SUFFICES ASSUME NEW h \in Accounts PROVE n.grt[h] >= l.grt[h]
  BY DEF NobodyPays, ContractsKept
<1>1. l.grt[h] \in Int /\ m.grt[h] \in Int /\ n.grt[h] \in Int
  BY DEF Good, OpenLedger, Holders
<1>. QED
  BY <1>1 DEF NobodyPays

\* Nobody pays where the balances stay.
LEMMA SameGrt ==
    ASSUME NEW l, NEW m, Good(l), m.grt = l.grt
    PROVE  NobodyPays(l, m)
<1>1. \A h \in Accounts : l.grt[h] \in Int
  BY DEF Good, OpenLedger, Holders
<1>. QED
  BY <1>1 DEF NobodyPays, ContractsKept

\* One stake is replaced by a good one.
LEMMA StakeGood ==
    ASSUME NEW l, Good(l), NEW i \in Indexers, NEW s, GoodStake(s)
    PROVE  LET m == [l EXCEPT !.stakes[i] = s]
           IN  Good(m) /\ m.stakes = [l.stakes EXCEPT ![i] = s] /\ DifferIn(l, m, {"stakes"})
<1>. DEFINE f == [l.stakes EXCEPT ![i] = s]
<1>1. f \in [Indexers -> Stake] /\ \A j \in Indexers : GoodStake(f[j])
  BY DEF Good, OpenLedger, GoodStake
<1>. HIDE DEF f
<1>2. LET m == [l EXCEPT !.stakes = f]
      IN  Good(m) /\ m.stakes = f /\ DifferIn(l, m, {"stakes"})
  BY <1>1, PartsGood
<1>. QED
  BY <1>2 DEF f

\* The same for a delegation pool,
LEMMA PoolGood ==
    ASSUME NEW l, Good(l), NEW i \in Indexers, NEW p \in DelegationPool
    PROVE  LET m == [l EXCEPT !.delegationPools[i] = p]
           IN  /\ Good(m) /\ m.delegationPools = [l.delegationPools EXCEPT ![i] = p]
               /\ DifferIn(l, m, {"delegationPools"})
<1>. DEFINE f == [l.delegationPools EXCEPT ![i] = p]
<1>1. f \in [Indexers -> DelegationPool]
  BY DEF Good, OpenLedger
<1>. HIDE DEF f
<1>2. LET m == [l EXCEPT !.delegationPools = f]
      IN  Good(m) /\ m.delegationPools = f /\ DifferIn(l, m, {"delegationPools"})
  BY <1>1, PartsGood
<1>. QED
  BY <1>2 DEF f

\* an allocation,
LEMMA AllocationGood ==
    ASSUME NEW l, Good(l), NEW id \in AllocationIDs, NEW a \in Allocation
    PROVE  LET m == [l EXCEPT !.allocations[id] = a]
           IN  /\ Good(m) /\ m.allocations = [l.allocations EXCEPT ![id] = a]
               /\ DifferIn(l, m, {"allocations"})
<1>. DEFINE f == [l.allocations EXCEPT ![id] = a]
<1>1. f \in [AllocationIDs -> Allocation]
  BY DEF Good, OpenLedger
<1>. HIDE DEF f
<1>2. LET m == [l EXCEPT !.allocations = f]
      IN  Good(m) /\ m.allocations = f /\ DifferIn(l, m, {"allocations"})
  BY <1>1, PartsGood
<1>. QED
  BY <1>2 DEF f

\* a rebate pool,
LEMMA RebatesGood ==
    ASSUME NEW l, Good(l), NEW e \in Epochs, NEW p \in Pool
    PROVE  LET m == [l EXCEPT !.rebates[e] = p]
           IN  /\ Good(m) /\ m.rebates = [l.rebates EXCEPT ![e] = p]
               /\ DifferIn(l, m, {"rebates"})
<1>. DEFINE f == [l.rebates EXCEPT ![e] = p]
<1>1. f \in [Epochs -> Pool]
  BY DEF Good, OpenLedger
<1>. HIDE DEF f
<1>2. LET m == [l EXCEPT !.rebates = f]
      IN  Good(m) /\ m.rebates = f /\ DifferIn(l, m, {"rebates"})
  BY <1>1, PartsGood
<1>. QED
  BY <1>2 DEF f

\* An entry that is not there is not replaced.
LEMMA SubgraphGood ==
    ASSUME NEW l, Good(l), NEW s, NEW n, s \in Subgraphs => n \in Nat
    PROVE  LET m == [l EXCEPT !.subgraphAllocations[s] = n]
           IN  /\ Good(m) /\ m.subgraphAllocations = [l.subgraphAllocations EXCEPT ![s] = n]
               /\ DifferIn(l, m, {"subgraphAllocations"})
<1>. DEFINE f == [l.subgraphAllocations EXCEPT ![s] = n]
<1>1. f \in [Subgraphs -> Nat]
  BY DEF Good, OpenLedger
<1>. HIDE DEF f
<1>2. LET m == [l EXCEPT !.subgraphAllocations = f]
      IN  /\ Good(m) /\ m.subgraphAllocations = f
          /\ DifferIn(l, m, {"subgraphAllocations"})
  BY <1>1, PartsGood
<1>. QED
  BY <1>2 DEF f

\* and a delegation.
LEMMA DelegationGood ==
    ASSUME NEW l, Good(l), NEW i \in Indexers, NEW d \in Delegators, NEW g \in Delegation
    PROVE  LET m == [l EXCEPT !.delegations[i][d] = g]
           IN  /\ Good(m)
               /\ m.delegations = [l.delegations EXCEPT ![i] = [@ EXCEPT ![d] = g]]
               /\ DifferIn(l, m, {"delegations"})
<1>. DEFINE row == [l.delegations[i] EXCEPT ![d] = g]
            f == [l.delegations EXCEPT ![i] = row]
<1>1. row \in [Delegators -> Delegation]
  BY DEF Good, OpenLedger
<1>2. f \in [Indexers -> [Delegators -> Delegation]]
  BY <1>1 DEF Good, OpenLedger
<1>. HIDE DEF f
<1>3. LET m == [l EXCEPT !.delegations = f]
      IN  Good(m) /\ m.delegations = f /\ DifferIn(l, m, {"delegations"})
  BY <1>2, PartsGood
<1>. QED
  BY <1>3 DEF f

\* What is locked of every stake, and until when.
SameThawing(l, m) ==
    \A i \in Indexers :
        LET s == l.stakes[i]
            t == m.stakes[i]
        IN  t.tokensLocked = s.tokensLocked /\ t.tokensLockedUntil = s.tokensLockedUntil

\* The tokens in use of every stake, which a deposit leaves alone.
SameUse(l, m) ==
    /\ SameThawing(l, m)
    /\ \A i \in Indexers : m.stakes[i].tokensAllocated = l.stakes[i].tokensAllocated

StakesGrow(l, m) ==
    \A i \in Indexers : m.stakes[i].tokensStaked >= l.stakes[i].tokensStaked

\* From l to m nobody enters or leaves a delegation pool; rewards may reach it.
PoolsRewarded(l, m) ==
    /\ \A i \in Indexers, d \in Delegators :
          m.delegations[i][d].shares = l.delegations[i][d].shares
    /\ \A i \in Indexers :
          LET p == l.delegationPools[i]
              q == m.delegationPools[i]
          IN  /\ q.shares = p.shares
              /\ q.tokens = p.tokens \/ (p.tokens > 0 /\ q.tokens > p.tokens)

\* Pools that are rewarded twice are rewarded.
LEMMA PoolsRewardedTransitive ==
    ASSUME NEW l, NEW m, NEW n, Good(l), Good(m), Good(n),
           PoolsRewarded(l, m), PoolsRewarded(m, n)
    PROVE  PoolsRewarded(l, n)
<1>. SUFFICES ASSUME NEW i \in Indexers
     PROVE  LET p == l.delegationPools[i]
                q == n.delegationPools[i]
            IN  /\ q.shares = p.shares
                /\ q.tokens = p.tokens \/ (p.tokens > 0 /\ q.tokens > p.tokens)
  BY DEF PoolsRewarded
<1>1. /\ l.delegationPools[i].tokens \in Nat
      /\ m.delegationPools[i].tokens \in Nat
      /\ n.delegationPools[i].tokens \in Nat
  BY DEF Good, OpenLedger, DelegationPool
<1>. QED
  BY <1>1 DEF PoolsRewarded

\* What touches no pool is a reward of nothing.
LEMMA PoolsUntouched ==
    ASSUME NEW l, NEW m, NEW parts, DifferIn(l, m, parts),
           "delegations" \notin parts, "delegationPools" \notin parts
    PROVE  PoolsRewarded(l, m)
BY DEF DifferIn, Parts, PoolsRewarded

\* What touches no stake leaves its use alone,
LEMMA StakesUntouched ==
    ASSUME NEW l, NEW m, NEW parts, DifferIn(l, m, parts), "stakes" \notin parts
    PROVE  SameUse(l, m)
BY DEF DifferIn, Parts, SameUse, SameThawing

\* and takes nothing from one.
LEMMA SameStakes ==
    ASSUME NEW l, NEW m, Good(l), m.stakes = l.stakes
    PROVE  StakesGrow(l, m)
<1>1. \A i \in Indexers : l.stakes[i].tokensStaked \in Nat
  BY DEF Good, GoodStake, Stake
<1>. QED
  BY <1>1 DEF StakesGrow

\* Stakes that grow twice grow.
LEMMA StakesGrowTransitive ==
    ASSUME NEW l, NEW m, NEW n, Good(l), Good(m), Good(n),
           StakesGrow(l, m), StakesGrow(m, n)
    PROVE  StakesGrow(l, n)
<1>. SUFFICES ASSUME NEW i \in Indexers
     PROVE  n.stakes[i].tokensStaked >= l.stakes[i].tokensStaked
  BY DEF StakesGrow
<1>1. /\ l.stakes[i].tokensStaked \in Nat /\ m.stakes[i].tokensStaked \in Nat
      /\ n.stakes[i].tokensStaked \in Nat
  BY DEF Good, GoodStake, Stake
<1>. QED
  BY <1>1 DEF StakesGrow

\* _stake adds to a stake, and sets up the pool of a new indexer.
LEMMA StakedGood ==
    ASSUME Context, NEW l, Good(l), NEW i \in Indexers, NEW tokens \in Nat
    PROVE  LET m == Staked(l, i, tokens)
           IN  /\ Good(m)
               /\ DifferIn(l, m, {"stakes", "delegationPools"})
               /\ SameUse(l, m)
               /\ PoolsRewarded(l, m)
               /\ StakesGrow(l, m)
               /\ Surplus(m) = Surplus(l) - tokens
<1>. DEFINE s == Deposit(l.stakes[i], tokens)
            pool == l.delegationPools[i]
            p == IF pool.updatedAtBlock = 0
                 THEN [pool EXCEPT !.indexingRewardCut = MAX_PPM,
                                   !.queryFeeCut       = MAX_PPM,
                                   !.cooldownBlocks    = params["delegationParametersCooldown"],
                                   !.updatedAtBlock    = block]
                 ELSE pool
            n == [l EXCEPT !.stakes[i] = s]
            m == [n EXCEPT !.delegationPools[i] = p]
<1>1. /\ GoodStake(s) /\ s.tokensAllocated = l.stakes[i].tokensAllocated
      /\ s.tokensLocked = l.stakes[i].tokensLocked
      /\ s.tokensLockedUntil = l.stakes[i].tokensLockedUntil
      /\ s.tokensStaked = l.stakes[i].tokensStaked + tokens
      /\ l.stakes[i].tokensStaked \in Nat
  <2>. DEFINE b == l.stakes[i]
  <2>1. GoodStake(b) /\ b \in Stake
    BY DEF Good, GoodStake
  <2>. HIDE DEF b
  <2>2. GoodStake(Deposit(b, tokens))
    BY <2>1 DEF GoodStake, Deposit, SecureStakeDefined, Stake
  <2>3. /\ Deposit(b, tokens).tokensAllocated = b.tokensAllocated
        /\ Deposit(b, tokens).tokensLocked = b.tokensLocked
        /\ Deposit(b, tokens).tokensLockedUntil = b.tokensLockedUntil
        /\ Deposit(b, tokens).tokensStaked = b.tokensStaked + tokens
        /\ b.tokensStaked \in Nat
    BY <2>1 DEF Deposit, Stake
  <2>. QED
    BY <2>2, <2>3 DEF b
<1>2. pool \in DelegationPool
  BY DEF Good, OpenLedger
<1>3. block \in Nat /\ params["delegationParametersCooldown"] \in Nat
  BY ClockAssumption DEF Context, ClockTypeOK, Blocks, Params, Settings, OtherSettings
<1>4. p \in DelegationPool /\ p.tokens = pool.tokens /\ p.shares = pool.shares
  <2>1. CASE pool.updatedAtBlock = 0
    <3>1. MAX_PPM \in 0 .. MAX_PPM
      BY MaxPPM
    <3>2. p = [cooldownBlocks    |-> params["delegationParametersCooldown"],
               indexingRewardCut |-> MAX_PPM,
               queryFeeCut       |-> MAX_PPM,
               updatedAtBlock    |-> block,
               tokens            |-> pool.tokens,
               shares            |-> pool.shares]
      BY <1>2, <2>1 DEF DelegationPool
    <3>. QED
      BY <1>2, <1>3, <3>1, <3>2 DEF DelegationPool
  <2>2. CASE pool.updatedAtBlock # 0
    BY <1>2, <2>2
  <2>. QED
    BY <2>1, <2>2
<1>5. Staked(l, i, tokens) = m
  <2>1. n.delegationPools = l.delegationPools
    BY DEF Good, OpenLedger
  <2>. QED
    BY <2>1 DEF Staked
<1>. HIDE DEF s, p
<1>6. Good(n) /\ n.stakes = [l.stakes EXCEPT ![i] = s] /\ DifferIn(l, n, {"stakes"})
  BY <1>1, StakeGood
<1>. HIDE DEF n
<1>7. /\ Good(m) /\ DifferIn(n, m, {"delegationPools"})
      /\ m.delegationPools = [n.delegationPools EXCEPT ![i] = p]
  BY <1>4, <1>6, PoolGood
<1>8. SameUse(l, n)
  BY <1>1, <1>6 DEF SameUse, SameThawing, Good, OpenLedger
<1>. HIDE DEF m
<1>9. PoolsRewarded(l, m)
  BY <1>4, <1>6, <1>7 DEF DifferIn, Parts, PoolsRewarded, Good, OpenLedger
<1>10. StakesGrow(l, m)
  <2>1. l.stakes \in [Indexers -> Stake] /\ m.stakes = n.stakes
    BY <1>7 DEF Good, OpenLedger, DifferIn, Parts
  <2>. QED
    BY <1>1, <1>6, <2>1 DEF StakesGrow, Stake
<1>11. Surplus(m) = Surplus(l) - tokens
  <2>1. Surplus(n) = Surplus(l) - (s.tokensStaked - l.stakes[i].tokensStaked)
    BY <1>6, StakeSurplus
  <2>2. Surplus(m) = Surplus(n) - (p.tokens - n.delegationPools[i].tokens)
    BY <1>6, <1>7, PoolSurplus
  <2>3. p.tokens - n.delegationPools[i].tokens = 0
    <3>1. n.delegationPools[i] = pool /\ pool.tokens \in Nat
      BY <1>2, <1>6 DEF DifferIn, Parts, DelegationPool
    <3>. QED
      BY <1>4, <3>1
  <2>. QED
    BY <1>1, <1>6, <2>1, <2>2, <2>3, OwedSums
<1>. QED
  BY <1>5, <1>6, <1>7, <1>8, <1>9, <1>10, <1>11 DEF DifferIn, Parts, SameUse, SameThawing

\* _withdraw pays out what has thawed.
LEMMA WithdrawnGood ==
    ASSUME Context, NEW l, Good(l), NEW i \in Indexers
    PROVE  LET m == Withdrawn(l, i)
           IN  /\ Good(m)
               /\ DifferIn(l, m, {"stakes", "grt"})
               /\ m.stakes = [l.stakes EXCEPT ![i] = WithdrawTokens(@, block)]
               /\ NobodyPays(l, m)
               /\ Surplus(m) = Surplus(l)
<1>. DEFINE s == WithdrawTokens(l.stakes[i], block)
            n == [l EXCEPT !.stakes[i] = s]
            tokens == TokensWithdrawable(l.stakes[i], block)
<1>1. block \in Nat /\ GoodStake(l.stakes[i]) /\ l.stakes[i].tokensLocked \in Nat
  BY ClockAssumption DEF Context, ClockTypeOK, Blocks, Good, GoodStake, Stake
<1>2. /\ GoodStake(s) /\ tokens \in Int /\ tokens >= 0
      /\ s.tokensStaked = l.stakes[i].tokensStaked - tokens
  <2>1. /\ GoodStake(s) /\ tokens \in 0 .. l.stakes[i].tokensLocked
        /\ s.tokensStaked = l.stakes[i].tokensStaked - tokens
    BY <1>1, WithdrawTokensGood
  <2>. QED
    BY <1>1, <2>1
<1>3. Withdrawn(l, i) = Push(n, i, tokens)
  BY DEF Withdrawn
<1>. HIDE DEF s, tokens
<1>4. Good(n) /\ n.stakes = [l.stakes EXCEPT ![i] = s] /\ DifferIn(l, n, {"stakes"})
  BY <1>2, StakeGood
<1>. HIDE DEF n
<1>5. i \in Accounts
  BY AddressAssumption
<1>6. Good(Push(n, i, tokens)) /\ DifferIn(n, Push(n, i, tokens), {"grt"})
  BY <1>2, <1>4, <1>5, PullPushGood
<1>7. NobodyPays(l, Push(n, i, tokens))
  <2>1. NobodyPays(n, Push(n, i, tokens)) /\ n.grt = l.grt
    BY <1>2, <1>4, <1>5, PullPushMoves DEF DifferIn, Parts
  <2>. QED
    BY <2>1 DEF NobodyPays, ContractsKept
<1>8. Surplus(Push(n, i, tokens)) = Surplus(l)
  <2>1. Surplus(n) = Surplus(l) - (s.tokensStaked - l.stakes[i].tokensStaked)
    BY <1>4, StakeSurplus
  <2>2. Surplus(Push(n, i, tokens)) = Surplus(n) - tokens
    BY <1>2, <1>4, <1>5, PullPushMoves
  <2>3. Surplus(l) \in Int /\ l.stakes[i].tokensStaked \in Nat
    BY <1>1, OwedSums DEF GoodStake, Stake
  <2>. QED
    BY <1>2, <2>1, <2>2, <2>3
<1>. QED
  BY <1>3, <1>4, <1>6, <1>7, <1>8 DEF DifferIn, Parts, s

\* _sendRewards pays an indexer, or adds to its stake.
LEMMA RewardsSentGood ==
    ASSUME Context, NEW l, Good(l), NEW i \in Indexers, NEW amount \in Nat, NEW restake
    PROVE  LET m == RewardsSent(l, amount, i, restake)
           IN  /\ Good(m)
               /\ DifferIn(l, m, {"stakes", "delegationPools", "grt"})
               /\ SameUse(l, m)
               /\ PoolsRewarded(l, m)
               /\ StakesGrow(l, m)
               /\ NobodyPays(l, m)
               /\ Surplus(m) = Surplus(l) - amount
<1>. DEFINE to == IF rewardsDestination[i] = NoAddress THEN i ELSE rewardsDestination[i]
<1>1. to \in Accounts
  BY AddressAssumption, InputAssumption DEF Context
<1>2. CASE amount = 0
  <2>1. RewardsSent(l, amount, i, restake) = l
    BY <1>2 DEF RewardsSent
  <2>2. StakesGrow(l, l) /\ NobodyPays(l, l) /\ Surplus(l) \in Int
    BY SameStakes, SameGrt, OwedSums
  <2>. QED
    BY <1>2, <2>1, <2>2 DEF DifferIn, SameUse, SameThawing, PoolsRewarded
<1>3. CASE amount # 0 /\ restake
  <2>1. RewardsSent(l, amount, i, restake) = Staked(l, i, amount)
    BY <1>3 DEF RewardsSent
  <2>. DEFINE m == Staked(l, i, amount)
  <2>2. /\ Good(m) /\ DifferIn(l, m, {"stakes", "delegationPools"})
        /\ SameUse(l, m) /\ PoolsRewarded(l, m) /\ StakesGrow(l, m)
        /\ Surplus(m) = Surplus(l) - amount
    BY StakedGood
  <2>. HIDE DEF m
  <2>3. NobodyPays(l, m)
    BY <2>2, SameGrt DEF DifferIn, Parts
  <2>. QED
    BY <2>1, <2>2, <2>3 DEF DifferIn, Parts, m
<1>4. CASE amount # 0 /\ ~restake
  <2>1. RewardsSent(l, amount, i, restake) = Push(l, to, amount)
    BY <1>4 DEF RewardsSent
  <2>. HIDE DEF to
  <2>2. Good(Push(l, to, amount)) /\ DifferIn(l, Push(l, to, amount), {"grt"})
    BY <1>1, PullPushGood
  <2>3. PoolsRewarded(l, Push(l, to, amount)) /\ SameUse(l, Push(l, to, amount))
    BY <2>2, PoolsUntouched, StakesUntouched
  <2>4. StakesGrow(l, Push(l, to, amount))
    BY <2>2, SameStakes DEF DifferIn, Parts
  <2>5. /\ Surplus(Push(l, to, amount)) = Surplus(l) - amount
        /\ NobodyPays(l, Push(l, to, amount))
    BY <1>1, PullPushMoves
  <2>. QED
    BY <2>1, <2>2, <2>3, <2>4, <2>5 DEF DifferIn, Parts
<1>. QED
  BY <1>2, <1>3, <1>4

\* Nothing is made of the delegators' part of a reward beyond the reward.
LEMMA DelegationRewardsBounds ==
    ASSUME NEW pool \in DelegationPool, NEW cut \in 0 .. MAX_PPM, NEW tokens \in Nat
    PROVE  /\ DelegationRewards(pool, cut, tokens) \in 0 .. tokens
           /\ pool.tokens = 0 => DelegationRewards(pool, cut, tokens) = 0
BY PortionBounds DEF DelegationRewards, DelegationPool

\* What the delegators get of a reward and what the indexer is sent are the whole.
LEMMA RewardsSplitGood ==
    ASSUME Context, NEW l, Good(l), NEW i \in Indexers,
           NEW cut \in 0 .. MAX_PPM, NEW tokens \in Nat, NEW restake
    PROVE  LET m == RewardsSplit(l, i, cut, tokens, restake)
           IN  /\ Good(m)
               /\ DifferIn(l, m, {"stakes", "delegationPools", "grt"})
               /\ SameUse(l, m)
               /\ PoolsRewarded(l, m)
               /\ StakesGrow(l, m)
               /\ NobodyPays(l, m)
               /\ Surplus(m) = Surplus(l) - tokens
<1>. DEFINE pool == l.delegationPools[i]
            part == DelegationRewards(pool, cut, tokens)
            p == PoolReward(pool, part)
            n == [l EXCEPT !.delegationPools[i] = p]
            m == RewardsSent(n, tokens - part, i, restake)
<1>1. RewardsSplit(l, i, cut, tokens, restake) = m
  BY DEF RewardsSplit
<1>2. pool \in DelegationPool
  BY DEF Good, OpenLedger
<1>3. part \in 0 .. tokens /\ (pool.tokens = 0 => part = 0)
  BY <1>2, DelegationRewardsBounds
<1>. HIDE DEF part
<1>4. p \in DelegationPool /\ p.shares = pool.shares /\ p.tokens = pool.tokens + part
  BY <1>2, <1>3 DEF PoolReward, DelegationPool
<1>. HIDE DEF p
<1>5. /\ Good(n) /\ DifferIn(l, n, {"delegationPools"})
      /\ n.delegationPools = [l.delegationPools EXCEPT ![i] = p]
  BY <1>4, PoolGood
<1>. HIDE DEF n
<1>6. PoolsRewarded(l, n)
  <2>1. pool.tokens \in Nat
    BY <1>2 DEF DelegationPool
  <2>. QED
    BY <1>3, <1>4, <1>5, <2>1 DEF DifferIn, Parts, PoolsRewarded, Good, OpenLedger
<1>7. /\ Good(m) /\ DifferIn(n, m, {"stakes", "delegationPools", "grt"})
      /\ SameUse(n, m) /\ PoolsRewarded(n, m)
      /\ StakesGrow(n, m) /\ NobodyPays(n, m)
      /\ Surplus(m) = Surplus(n) - (tokens - part)
  BY <1>3, <1>5, RewardsSentGood
<1>. HIDE DEF m
<1>8. SameUse(l, m) /\ DifferIn(l, m, {"stakes", "delegationPools", "grt"})
  BY <1>5, <1>7 DEF SameUse, SameThawing, DifferIn, Parts
<1>9. StakesGrow(l, m) /\ NobodyPays(l, m)
  <2>1. n.stakes = l.stakes /\ n.grt = l.grt
    BY <1>5 DEF DifferIn, Parts
  <2>. QED
    BY <1>7, <2>1 DEF StakesGrow, NobodyPays, ContractsKept
<1>10. Surplus(m) = Surplus(l) - tokens
  <2>1. Surplus(n) = Surplus(l) - (p.tokens - pool.tokens)
    BY <1>5, PoolSurplus
  <2>2. pool.tokens \in Nat
    BY <1>2 DEF DelegationPool
  <2>3. p.tokens - pool.tokens = part /\ part \in Int /\ Surplus(l) \in Int
    BY <1>3, <1>4, <2>2, OwedSums
  <2>. QED
    BY <1>7, <2>1, <2>3
<1>. QED
  BY <1>1, <1>5, <1>6, <1>7, <1>8, <1>9, <1>10, PoolsRewardedTransitive

-----------------------------------------------------------------------------
(* Entering and leaving a delegation pool *)

\* From l to m the delegator d puts tokens into the pool of i.
EntersPool(l, m, i, d, tokens) ==
    LET pool == l.delegationPools[i]
    IN  /\ m.delegationPools = [l.delegationPools EXCEPT ![i] = PoolEnter(pool, tokens)]
        /\ \A j \in Indexers, e \in Delegators :
              m.delegations[j][e].shares = IF j = i /\ e = d
                                           THEN l.delegations[i][d].shares
                                                + SharesFor(pool, tokens)
                                           ELSE l.delegations[j][e].shares

\* Shares are whole numbers.
LEMMA SharesForNat ==
    ASSUME NEW pool \in DelegationPool, NEW tokens \in Nat
    PROVE  SharesFor(pool, tokens) \in Nat
BY DivBounds DEF SharesFor, DelegationPool

\* A pool that someone enters, field by field.
LEMMA PoolEnterIs ==
    ASSUME NEW pool \in DelegationPool, NEW tokens \in Nat
    PROVE  LET q == PoolEnter(pool, tokens)
           IN  /\ q \in DelegationPool
               /\ q.tokens = pool.tokens + tokens
               /\ q.shares = pool.shares + SharesFor(pool, tokens)
<1>. DEFINE issued == SharesFor(pool, tokens)
            more == [pool EXCEPT !.tokens = pool.tokens + tokens]
            q == [more EXCEPT !.shares = pool.shares + issued]
<1>1. issued \in Nat
  BY SharesForNat
<1>2. more \in DelegationPool /\ more.tokens = pool.tokens + tokens /\ more.shares = pool.shares
  BY DEF DelegationPool
<1>3. PoolEnter(pool, tokens) = q
  BY <1>2 DEF PoolEnter
<1>. HIDE DEF issued, more
<1>4. q \in DelegationPool /\ q.tokens = more.tokens /\ q.shares = pool.shares + issued
  <2>1. pool.shares + issued \in Nat
    BY <1>1 DEF DelegationPool
  <2>. QED
    BY <1>2, <2>1 DEF DelegationPool
<1>. QED
  BY <1>2, <1>3, <1>4 DEF issued

\* _delegate gives shares for what the tax leaves.
LEMMA DelegatedGood ==
    ASSUME Context, NEW l, Good(l), NEW i \in Indexers, NEW d \in Delegators,
           NEW tokens \in Nat
    PROVE  LET m      == Delegated(l, d, i, tokens)
               amount == tokens - Portion(params["delegationTaxPercentage"], tokens)
           IN  /\ amount \in Nat
               /\ Good(m)
               /\ DifferIn(l, m, {"delegationPools", "delegations", "grt"})
               /\ EntersPool(l, m, i, d, amount)
               /\ NobodyPays(l, m)
               /\ Surplus(m) = Surplus(l) - tokens
<1>. DEFINE tax == Portion(params["delegationTaxPercentage"], tokens)
            amount == tokens - tax
            pool == l.delegationPools[i]
            g == l.delegations[i][d]
            p == PoolEnter(pool, amount)
            h == [g EXCEPT !.shares = g.shares + SharesFor(pool, amount)]
            n == [l EXCEPT !.delegationPools[i] = p]
            o == [n EXCEPT !.delegations[i][d] = h]
<1>1. params["delegationTaxPercentage"] \in 0 .. MAX_PPM
  BY MaxPPM DEF Context, Params, Settings, PercentageSettings
<1>2. tax \in 0 .. tokens
  BY <1>1, PortionBounds
<1>3. amount \in Nat /\ tax \in Int /\ amount + tax = tokens
  BY <1>2
<1>4. pool \in DelegationPool /\ g \in Delegation
  BY DEF Good, OpenLedger
<1>5. n.delegations = l.delegations
  BY DEF Good, OpenLedger
<1>6. Delegated(l, d, i, tokens) = Gone(o, tax)
  BY <1>5 DEF Delegated
<1>. HIDE DEF tax
<1>7. SharesFor(pool, amount) \in Nat
  BY <1>3, <1>4, SharesForNat
<1>. HIDE DEF amount
<1>8. p \in DelegationPool /\ p.tokens = pool.tokens + amount
  BY <1>3, <1>4, PoolEnterIs
<1>9. h \in Delegation /\ h.tokensLocked = g.tokensLocked
  BY <1>4, <1>7 DEF Delegation
<1>. HIDE DEF p, h
<1>10. /\ Good(n) /\ DifferIn(l, n, {"delegationPools"})
       /\ n.delegationPools = [l.delegationPools EXCEPT ![i] = p]
  BY <1>8, PoolGood
<1>. HIDE DEF n
<1>11. /\ Good(o) /\ DifferIn(n, o, {"delegations"})
       /\ o.delegations = [n.delegations EXCEPT ![i] = [@ EXCEPT ![d] = h]]
  BY <1>9, <1>10, DelegationGood
<1>. HIDE DEF o
<1>12. Good(Gone(o, tax)) /\ DifferIn(o, Gone(o, tax), {"grt"})
  BY <1>3, <1>11, MintedGoneGood
<1>13. DifferIn(l, Gone(o, tax), {"delegationPools", "delegations", "grt"})
  BY <1>10, <1>11, <1>12 DEF DifferIn, Parts
<1>14. Gone(o, tax).delegationPools = [l.delegationPools EXCEPT ![i] = p]
  BY <1>10, <1>11, <1>12 DEF DifferIn, Parts
<1>15. \A j \in Indexers, e \in Delegators :
          Gone(o, tax).delegations[j][e] = IF j = i /\ e = d THEN h ELSE l.delegations[j][e]
  <2>1. Gone(o, tax).delegations = [l.delegations EXCEPT ![i] = [@ EXCEPT ![d] = h]]
    BY <1>5, <1>11, <1>12 DEF DifferIn, Parts
  <2>2. l.delegations \in [Indexers -> [Delegators -> Delegation]]
    BY DEF Good, OpenLedger
  <2>. QED
    BY <2>1, <2>2
<1>16. h.shares = g.shares + SharesFor(pool, amount)
  BY <1>4 DEF h, Delegation
<1>17. NobodyPays(l, Gone(o, tax))
  <2>1. NobodyPays(o, Gone(o, tax)) /\ o.grt = l.grt
    BY <1>3, <1>10, <1>11, MintedGoneMoves DEF DifferIn, Parts
  <2>. QED
    BY <2>1 DEF NobodyPays, ContractsKept
<1>18. Surplus(Gone(o, tax)) = Surplus(l) - tokens
  <2>1. Surplus(n) = Surplus(l) - (p.tokens - l.delegationPools[i].tokens)
    BY <1>10, PoolSurplus
  <2>2. Surplus(o) = Surplus(n) - (h.tokensLocked - n.delegations[i][d].tokensLocked)
    BY <1>10, <1>11, DelegationSurplus
  <2>3. Surplus(Gone(o, tax)) = Surplus(o) - tax
    BY <1>3, <1>11, MintedGoneMoves
  <2>4. pool.tokens \in Nat /\ g.tokensLocked \in Nat
    BY <1>4 DEF DelegationPool, Delegation
  <2>5. Surplus(l) \in Int /\ n.delegations[i][d] = g
    BY <1>5, OwedSums
  <2>6. Surplus(n) = Surplus(l) - amount
    BY <1>3, <1>8, <2>1, <2>4, <2>5
  <2>7. Surplus(o) = Surplus(l) - amount
    BY <1>3, <1>9, <2>2, <2>4, <2>5, <2>6
  <2>. QED
    BY <1>3, <2>3, <2>5, <2>7
<1>. QED
  BY <1>3, <1>6, <1>12, <1>13, <1>14, <1>15, <1>16, <1>17, <1>18
  DEF EntersPool, p, amount, tax

\* Tokens of a delegator that have thawed are locked no more,
LEMMA UnlockedGood ==
    ASSUME NEW l, Good(l), NEW i \in Indexers, NEW d \in Delegators
    PROVE  LET m == Unlocked(l, d, i)
           IN  /\ Good(m)
               /\ DifferIn(l, m, {"delegations"})
               /\ m.delegations = [l.delegations EXCEPT ![i] =
                                     [@ EXCEPT ![d] = DelegationUnlock(l.delegations[i][d])]]
<1>. DEFINE g == DelegationUnlock(l.delegations[i][d])
            m == Unlocked(l, d, i)
<1>1. l.delegations[i][d] \in Delegation
  BY DEF Good, OpenLedger, Delegation
<1>2. g \in Delegation
  BY <1>1 DEF DelegationUnlock, Delegation
<1>3. m = [l EXCEPT !.delegations[i][d] = g]
  BY DEF Unlocked
<1>. HIDE DEF g, m
<1>4. /\ Good(m) /\ DifferIn(l, m, {"delegations"})
      /\ m.delegations = [l.delegations EXCEPT ![i] = [@ EXCEPT ![d] = g]]
  BY <1>2, <1>3, DelegationGood
<1>. QED
  BY <1>4 DEF g, m

\* nor owed, until they are paid or delegated again.
LEMMA UnlockedSurplus ==
    ASSUME NEW l, Good(l), NEW i \in Indexers, NEW d \in Delegators
    PROVE  Surplus(Unlocked(l, d, i)) = Surplus(l) + l.delegations[i][d].tokensLocked
<1>. DEFINE g == DelegationUnlock(l.delegations[i][d])
            m == Unlocked(l, d, i)
            locked == l.delegations[i][d].tokensLocked
<1>1. l.delegations[i][d] \in Delegation /\ locked \in Nat
  BY DEF Good, OpenLedger, Delegation
<1>2. g \in Delegation /\ g.tokensLocked = 0
  BY <1>1 DEF DelegationUnlock, Delegation
<1>3. m = [l EXCEPT !.delegations[i][d] = g]
  BY DEF Unlocked
<1>. HIDE DEF g, m, locked
<1>4. Surplus(m) = Surplus(l) - (g.tokensLocked - l.delegations[i][d].tokensLocked)
  <2>1. /\ Good(m) /\ DifferIn(l, m, {"delegations"})
        /\ m.delegations = [l.delegations EXCEPT ![i] = [@ EXCEPT ![d] = g]]
    BY <1>2, <1>3, DelegationGood
  <2>. QED
    BY <1>2, <2>1, DelegationSurplus
<1>5. Surplus(m) = Surplus(l) + locked
  BY <1>1, <1>2, <1>4, OwedSums DEF locked
<1>. QED
  BY <1>5 DEF m, locked

\* _withdrawDelegated pays exactly what it stops owing.
LEMMA DelegationPaidGood ==
    ASSUME Context, NEW l, Good(l), NEW i \in Indexers, NEW d \in Delegators
    PROVE  LET m == DelegationPaid(l, d, i)
           IN  /\ Good(m)
               /\ DifferIn(l, m, {"delegations", "grt"})
               /\ m.delegations = [l.delegations EXCEPT ![i] =
                                     [@ EXCEPT ![d] = DelegationUnlock(l.delegations[i][d])]]
               /\ NobodyPays(l, m)
               /\ WithdrawableDelegated(l.delegations[i][d]) > 0 => Surplus(m) = Surplus(l)
<1>. DEFINE n == Unlocked(l, d, i)
            tokens == WithdrawableDelegated(l.delegations[i][d])
            m == Push(n, d, tokens)
<1>1. l.delegations[i][d] \in Delegation
  BY DEF Good, OpenLedger
<1>2. /\ tokens \in Int /\ tokens >= 0
      /\ tokens > 0 => tokens = l.delegations[i][d].tokensLocked
  BY <1>1 DEF WithdrawableDelegated, Delegation
<1>3. DelegationPaid(l, d, i) = m
  BY DEF DelegationPaid
<1>4. /\ Good(n) /\ DifferIn(l, n, {"delegations"})
      /\ n.delegations = [l.delegations EXCEPT ![i] =
                            [@ EXCEPT ![d] = DelegationUnlock(l.delegations[i][d])]]
  BY UnlockedGood
<1>5. Surplus(n) = Surplus(l) + l.delegations[i][d].tokensLocked
  BY UnlockedSurplus
<1>. HIDE DEF tokens, n
<1>6. d \in Accounts
  BY AddressAssumption
<1>7. Good(m) /\ DifferIn(n, m, {"grt"})
  BY <1>2, <1>4, <1>6, PullPushGood
<1>8. Surplus(m) = Surplus(n) - tokens /\ NobodyPays(n, m)
  BY <1>2, <1>4, <1>6, PullPushMoves
<1>. HIDE DEF m
<1>9. NobodyPays(l, m)
  BY <1>4, <1>8 DEF DifferIn, Parts, NobodyPays, ContractsKept
<1>10. tokens > 0 => Surplus(m) = Surplus(l)
  BY <1>2, <1>4, <1>8, <1>5, OwedSums
<1>. QED
  BY <1>3, <1>4, <1>7, <1>9, <1>10 DEF DifferIn, Parts, tokens

\* No shares are worth more than the pool.
LEMMA TokensForBounds ==
    ASSUME NEW pool \in DelegationPool, NEW shares \in 1 .. pool.shares
    PROVE  TokensFor(pool, shares) \in 0 .. pool.tokens
<1>. DEFINE q == (shares * pool.tokens) \div pool.shares
<1>1. pool.shares \in Nat \ {0} /\ pool.tokens \in Nat /\ shares \in Nat
  BY DEF DelegationPool
<1>2. shares * pool.tokens \in Nat /\ shares * pool.tokens <= pool.shares * pool.tokens
  BY <1>1
<1>3. q \in Nat /\ q * pool.shares <= shares * pool.tokens
  BY <1>1, <1>2, DivBounds
<1>4. q <= pool.tokens
  BY <1>1, <1>2, <1>3
<1>. QED
  BY <1>1, <1>3, <1>4 DEF TokensFor

\* A pool that someone leaves, field by field.
LEMMA PoolLeaveIs ==
    ASSUME NEW pool \in DelegationPool, NEW shares \in 1 .. pool.shares
    PROVE  LET q == PoolLeave(pool, shares)
           IN  /\ q \in DelegationPool
               /\ q.tokens = pool.tokens - TokensFor(pool, shares)
               /\ q.shares = pool.shares - shares
<1>. DEFINE less == [pool EXCEPT !.tokens = pool.tokens - TokensFor(pool, shares)]
            q == [less EXCEPT !.shares = pool.shares - shares]
<1>1. /\ pool.tokens - TokensFor(pool, shares) \in Nat
      /\ pool.shares - shares \in Nat
  BY TokensForBounds DEF DelegationPool
<1>2. /\ less \in DelegationPool
      /\ less.tokens = pool.tokens - TokensFor(pool, shares)
      /\ less.shares = pool.shares
  BY <1>1 DEF DelegationPool
<1>3. PoolLeave(pool, shares) = q
  BY <1>2 DEF PoolLeave
<1>. HIDE DEF less
<1>4. q \in DelegationPool /\ q.tokens = less.tokens /\ q.shares = pool.shares - shares
  BY <1>1, <1>2 DEF DelegationPool
<1>. QED
  BY <1>2, <1>3, <1>4

\* From l to m the delegator d takes shares out of the pool of i.
LeavesPool(l, m, i, d, shares) ==
    LET pool == l.delegationPools[i]
    IN  /\ shares \in 1 .. pool.shares
        /\ m.delegationPools = [l.delegationPools EXCEPT ![i] = PoolLeave(pool, shares)]
        /\ \A j \in Indexers, e \in Delegators :
              m.delegations[j][e].shares = IF j = i /\ e = d
                                           THEN l.delegations[i][d].shares - shares
                                           ELSE l.delegations[j][e].shares

\* A delegation that is partly undone, field by field.
LEMMA DelegationLeaveIs ==
    ASSUME NEW g \in Delegation, NEW shares \in 0 .. g.shares, NEW tokens \in Nat,
           NEW until \in Nat
    PROVE  /\ DelegationLeave(g, shares, tokens, until) \in Delegation
           /\ DelegationLeave(g, shares, tokens, until).shares = g.shares - shares
           /\ DelegationLeave(g, shares, tokens, until).tokensLocked = g.tokensLocked + tokens
<1>. DEFINE fewer == g.shares - shares
            locked == g.tokensLocked + tokens
            h == [g EXCEPT !.shares = fewer]
<1>1. h.tokensLocked = g.tokensLocked
  BY DEF Delegation
<1>2. DelegationLeave(g, shares, tokens, until) =
          [g EXCEPT !.shares = fewer, !.tokensLocked = locked, !.tokensLockedUntil = until]
  BY <1>1 DEF DelegationLeave
<1>3. fewer \in Nat /\ locked \in Nat
  BY DEF Delegation
<1>. HIDE DEF fewer, locked
<1>4. DelegationLeave(g, shares, tokens, until) =
          [shares |-> fewer, tokensLocked |-> locked, tokensLockedUntil |-> until]
  BY <1>2 DEF Delegation
<1>. QED
  BY <1>3, <1>4 DEF Delegation, fewer, locked

\* From l to m no allocation and no rebate pool changes.
SameAllocations(l, m) ==
    /\ m.allocations = l.allocations
    /\ m.subgraphAllocations = l.subgraphAllocations
    /\ m.rebates = l.rebates
    /\ \A i \in Indexers : m.stakes[i].tokensAllocated = l.stakes[i].tokensAllocated

\* From l to m the allocation id is opened, with tokens of i on deployment s,
Opens(l, m, i, s, tokens, id) ==
    /\ m.allocations = [l.allocations EXCEPT ![id] =
                          [indexer              |-> i,
                           subgraphDeploymentID |-> s,
                           tokens               |-> tokens,
                           createdAtEpoch       |-> epoch,
                           closedAtEpoch        |-> 0,
                           collectedFees        |-> 0,
                           effectiveAllocation  |-> 0]]
    /\ m.subgraphAllocations = [l.subgraphAllocations EXCEPT ![s] = @ + tokens]
    /\ m.rebates = l.rebates
    /\ \A j \in Indexers : m.stakes[j].tokensAllocated =
                               l.stakes[j].tokensAllocated + IF j = i THEN tokens ELSE 0

\* closed, and its fees put into the rebate pool of the epoch,
Closes(l, m, id, effective) ==
    LET alloc == l.allocations[id]
        pool  == IF PoolExists(l.rebates[epoch]) THEN l.rebates[epoch]
                 ELSE InitPool(l.rebates[epoch], params["alphaNumerator"],
                                                 params["alphaDenominator"])
    IN  /\ IsActive(alloc)
        /\ m.allocations = [l.allocations EXCEPT ![id] =
              [alloc EXCEPT !.closedAtEpoch = epoch, !.effectiveAllocation = effective]]
        /\ m.rebates = [l.rebates EXCEPT ![epoch] =
                           AddToPool(pool, alloc.collectedFees, effective)]
        /\ m.subgraphAllocations = [l.subgraphAllocations EXCEPT
                                      ![alloc.subgraphDeploymentID] = @ - alloc.tokens]
        /\ \A j \in Indexers :
              m.stakes[j].tokensAllocated =
                  l.stakes[j].tokensAllocated - IF j = alloc.indexer THEN alloc.tokens ELSE 0

\* or claimed, and taken out of its rebate pool.
Claims(l, m, id, rebate) ==
    LET alloc == l.allocations[id]
        e     == alloc.closedAtEpoch
        pool  == Redeem(l.rebates[e], rebate)
    IN  /\ m.allocations = [l.allocations EXCEPT ![id] = Purged(alloc)]
        /\ m.rebates = [l.rebates EXCEPT ![e] =
              IF pool.unclaimedAllocationsCount = 0 THEN NoPool ELSE pool]
        /\ m.subgraphAllocations = l.subgraphAllocations
        /\ \A i \in Indexers : m.stakes[i].tokensAllocated = l.stakes[i].tokensAllocated

\* _allocate keeps the ledger good; only the indexer's stake grows busier.
LEMMA AllocatedGood ==
    ASSUME Context, NEW l, Good(l), NEW i \in Indexers, NEW s \in Subgraphs,
           NEW tokens \in Nat, NEW id \in AllocationIDs
    PROVE  LET m == Allocated(l, i, s, tokens, id)
           IN  /\ Good(m)
               /\ PoolsRewarded(l, m)
               /\ SameThawing(l, m)
               /\ Opens(l, m, i, s, tokens, id)
               /\ StakesGrow(l, m)
               /\ NobodyPays(l, m)
               /\ l.allocations[id].indexer = NoAddress => Surplus(m) = Surplus(l)
<1>. DEFINE a == [indexer              |-> i,
                  subgraphDeploymentID |-> s,
                  tokens               |-> tokens,
                  createdAtEpoch       |-> epoch,
                  closedAtEpoch        |-> 0,
                  collectedFees        |-> 0,
                  effectiveAllocation  |-> 0]
            t == StakeAllocate(l.stakes[i], tokens)
            c == l.subgraphAllocations[s] + tokens
            n == [l EXCEPT !.allocations[id] = a]
            o == [n EXCEPT !.stakes[i] = t]
            m == [o EXCEPT !.subgraphAllocations[s] = c]
<1>1. n.stakes = l.stakes /\ o.subgraphAllocations = l.subgraphAllocations
  BY DEF Good, OpenLedger
<1>2. Allocated(l, i, s, tokens, id) = m
  BY <1>1 DEF Allocated
<1>3. a \in Allocation
  BY ClockAssumption DEF Allocation, Context, ClockTypeOK, Epochs
<1>4. /\ GoodStake(t) /\ t.tokensLocked = l.stakes[i].tokensLocked
      /\ t.tokensLockedUntil = l.stakes[i].tokensLockedUntil
      /\ t.tokensStaked = l.stakes[i].tokensStaked
      /\ t.tokensAllocated = l.stakes[i].tokensAllocated + tokens
      /\ l.stakes[i].tokensStaked \in Nat
  BY DEF Good, GoodStake, Stake, SecureStakeDefined, StakeAllocate
<1>5. c \in Nat
  BY DEF Good, OpenLedger
<1>6. ~IsActive(l.allocations[id]) => Surplus(n) = Surplus(l)
  <2>1. a.collectedFees = 0
    OBVIOUS
  <2>. HIDE DEF a
  <2>2. /\ Good(n) /\ DifferIn(l, n, {"allocations"})
        /\ n.allocations = [l.allocations EXCEPT ![id] = a]
    BY <1>3, AllocationGood
  <2>. HIDE DEF n
  <2>. DEFINE Fees(alloc) == IF IsActive(alloc) THEN alloc.collectedFees ELSE 0
  <2>3. Surplus(n) = Surplus(l) - (Fees(a) - Fees(l.allocations[id]))
    BY <2>2, AllocationSurplus
  <2>. QED
    BY <2>1, <2>3, OwedSums
<1>. HIDE DEF a, t, c
<1>7. /\ Good(n) /\ DifferIn(l, n, {"allocations"})
      /\ n.allocations = [l.allocations EXCEPT ![id] = a]
  BY <1>3, AllocationGood
<1>. HIDE DEF n
<1>8. Good(o) /\ DifferIn(n, o, {"stakes"}) /\ o.stakes = [n.stakes EXCEPT ![i] = t]
  BY <1>4, <1>7, StakeGood
<1>. HIDE DEF o
<1>9. /\ Good(m) /\ DifferIn(o, m, {"subgraphAllocations"})
      /\ m.subgraphAllocations = [o.subgraphAllocations EXCEPT ![s] = c]
  <2>1. Good(o) /\ (s \in Subgraphs => c \in Nat)
    BY <1>5, <1>8
  <2>. QED
    BY <2>1, SubgraphGood
<1>. HIDE DEF m
<1>10. DifferIn(l, m, {"allocations", "stakes", "subgraphAllocations"})
  BY <1>7, <1>8, <1>9 DEF DifferIn, Parts
<1>11. m.stakes = [l.stakes EXCEPT ![i] = t] /\ l.stakes \in [Indexers -> Stake]
  BY <1>1, <1>8, <1>9 DEF DifferIn, Parts, Good, OpenLedger
<1>12. SameThawing(l, m)
  BY <1>4, <1>11 DEF SameThawing
<1>13. StakesGrow(l, m) /\ NobodyPays(l, m)
  <2>1. m.grt = l.grt
    BY <1>10 DEF DifferIn, Parts
  <2>2. \A j \in Indexers : m.stakes[j].tokensStaked = l.stakes[j].tokensStaked
                           /\ l.stakes[j].tokensStaked \in Nat
    BY <1>4, <1>11 DEF Stake
  <2>. QED
    BY <2>1, <2>2, SameGrt DEF StakesGrow
<1>14. Opens(l, m, i, s, tokens, id)
  <2>1. m.allocations = [l.allocations EXCEPT ![id] = a]
    BY <1>7, <1>8, <1>9 DEF DifferIn, Parts
  <2>2. m.subgraphAllocations = [l.subgraphAllocations EXCEPT ![s] = c]
    BY <1>1, <1>9
  <2>3. m.rebates = l.rebates
    BY <1>10 DEF DifferIn, Parts
  <2>4. \A j \in Indexers : m.stakes[j].tokensAllocated =
                               l.stakes[j].tokensAllocated + IF j = i THEN tokens ELSE 0
    BY <1>4, <1>11 DEF Stake
  <2>. QED
    BY <2>1, <2>2, <2>3, <2>4 DEF Opens, a, c
<1>15. Surplus(m) = Surplus(n)
  <2>1. Surplus(o) = Surplus(n) - (t.tokensStaked - n.stakes[i].tokensStaked)
    BY <1>7, <1>8, StakeSurplus
  <2>2. Surplus(m) = Surplus(o)
    BY <1>9, SubgraphSurplus
  <2>. QED
    BY <1>1, <1>4, <1>7, <2>1, <2>2, OwedSums
<1>16. l.allocations[id].indexer = NoAddress => Surplus(m) = Surplus(l)
  BY <1>6, <1>15 DEF IsActive
<1>. QED
  BY <1>2, <1>9, <1>10, <1>12, <1>13, <1>14, <1>16, PoolsUntouched

\* A rebate pool that exists or is opened takes an allocation in.
LEMMA AddToPoolGood ==
    ASSUME NEW p \in Pool, NEW fees \in Nat, NEW stake \in Nat,
           NEW numerator \in Nat, NEW denominator \in Nat
    PROVE  LET q == AddToPool(IF PoolExists(p) THEN p
                              ELSE InitPool(p, numerator, denominator), fees, stake)
           IN  /\ q \in Pool
               /\ q.fees = p.fees + fees
               /\ q.effectiveAllocatedStake = p.effectiveAllocatedStake + stake
               /\ q.claimedRewards = p.claimedRewards
               /\ q.unclaimedAllocationsCount =
                      (p.unclaimedAllocationsCount + 1) % CounterSize
<1>. DEFINE q == IF PoolExists(p) THEN p ELSE InitPool(p, numerator, denominator)
            count == (q.unclaimedAllocationsCount + 1) % CounterSize
            f == q.fees + fees
            s == q.effectiveAllocatedStake + stake
            r == [q EXCEPT !.fees = f]
            t == [r EXCEPT !.effectiveAllocatedStake = s]
<1>1. q \in Pool
  <2>1. InitPool(p, numerator, denominator) \in Pool
    BY DEF InitPool, Pool
  <2>. QED
    BY <2>1
<1>2. /\ q.fees = p.fees
      /\ q.effectiveAllocatedStake = p.effectiveAllocatedStake
      /\ q.claimedRewards = p.claimedRewards
      /\ q.unclaimedAllocationsCount = p.unclaimedAllocationsCount
  BY DEF InitPool, Pool
<1>. HIDE DEF q
<1>3. /\ r.effectiveAllocatedStake = q.effectiveAllocatedStake
      /\ t.unclaimedAllocationsCount = q.unclaimedAllocationsCount
  BY <1>1 DEF Pool
<1>4. AddToPool(q, fees, stake) = [t EXCEPT !.unclaimedAllocationsCount = count]
  BY <1>3 DEF AddToPool
<1>5. f \in Nat /\ s \in Nat
  BY <1>1 DEF Pool
<1>6. count \in 0 .. CounterSize - 1
  <2>1. q.unclaimedAllocationsCount + 1 \in Nat
    BY <1>1, CounterSizeAssumption DEF Pool
  <2>. QED
    BY <2>1, CounterSizeAssumption
<1>. HIDE DEF count, f, s
<1>. DEFINE u == [t EXCEPT !.unclaimedAllocationsCount = count]
<1>7. /\ u \in Pool /\ u.fees = f /\ u.effectiveAllocatedStake = s
      /\ u.claimedRewards = q.claimedRewards
      /\ u.unclaimedAllocationsCount = count
  BY <1>1, <1>5, <1>6 DEF Pool
<1>. HIDE DEF u
<1>8. AddToPool(q, fees, stake) = u
  BY <1>4 DEF u
<1>9. /\ f = p.fees + fees /\ s = p.effectiveAllocatedStake + stake
      /\ count = (p.unclaimedAllocationsCount + 1) % CounterSize
  BY <1>2 DEF f, s, count
<1>. QED
  BY <1>7, <1>2, <1>8, <1>9 DEF q

\* _closeAllocation moves the fees of an allocation to the pool of its epoch.
LEMMA ClosedGood ==
    ASSUME Context, NEW l, Good(l), NEW sender, NEW id \in AllocationIDs,
           CanClose(l, sender, id), NEW rewards \in Nat
    PROVE  LET m == Closed(l, id, rewards)
           IN  /\ Good(m)
               /\ PoolsRewarded(l, m)
               /\ SameThawing(l, m)
               /\ StakesGrow(l, m)
               /\ NobodyPays(l, m)
               /\ \E effective \in Nat \ {0} : Closes(l, m, id, effective)
               /\ Surplus(m) = Surplus(l)
<1>. DEFINE alloc == l.allocations[id]
            i == alloc.indexer
            s == alloc.subgraphDeploymentID
            epochs == DiffOrZero(epoch, alloc.createdAtEpoch)
            effective == EffectiveAllocation(alloc.tokens, epochs)
            a == [alloc EXCEPT !.closedAtEpoch = epoch, !.effectiveAllocation = effective]
            p == AddToPool(IF PoolExists(l.rebates[epoch]) THEN l.rebates[epoch]
                           ELSE InitPool(l.rebates[epoch], params["alphaNumerator"],
                                                           params["alphaDenominator"]),
                           alloc.collectedFees, effective)
            cut == l.delegationPools[i].indexingRewardCut
            n == [l EXCEPT !.allocations[id] = a]
            o == [n EXCEPT !.rebates[epoch] = p]
            q == Minted(o, rewards)
            r == RewardsSplit(q, i, cut, rewards, rewardsDestination[i] = NoAddress)
            t == StakeUnallocate(r.stakes[i], alloc.tokens)
            u == [r EXCEPT !.stakes[i] = t]
            c == u.subgraphAllocations[s] - alloc.tokens
            m == [u EXCEPT !.subgraphAllocations[s] = c]
<1>1. alloc \in Allocation /\ alloc.indexer # NoAddress /\ IsActive(alloc)
  BY DEF CanClose, StateOf, AllocationState, IsActive, Good, OpenLedger
<1>2. /\ i \in Indexers /\ alloc.tokens \in Nat /\ alloc.collectedFees \in Nat
      /\ alloc.createdAtEpoch \in Nat
  BY <1>1, ClockAssumption DEF Allocation, Epochs
<1>3. /\ alloc.tokens <= l.stakes[i].tokensAllocated
      /\ alloc.tokens <= l.subgraphAllocations[s]
  BY DEF CanClose
<1>4. epoch \in Epochs /\ epoch \in Nat /\ epochs \in Nat
  BY <1>2, ClockAssumption DEF Context, ClockTypeOK, Epochs, DiffOrZero
<1>5. /\ params["maxAllocationEpochs"] \in Nat
      /\ params["alphaNumerator"] \in Nat
      /\ params["alphaDenominator"] \in Nat
  BY DEF Context, Params, Settings, OtherSettings, PositiveSettings
<1>6. epoch # 0 /\ epochs > 0 /\ alloc.tokens > 0
  <2>1. epochs > 0 /\ alloc.tokens # 0
    BY <1>1 DEF CanClose, IsActive
  <2>. QED
    BY <1>2, <1>4, <2>1 DEF DiffOrZero
<1>7. effective \in Nat \ {0}
  <2>. DEFINE length == IF params["maxAllocationEpochs"] > 0
                        THEN MathMin(epochs, params["maxAllocationEpochs"]) ELSE epochs
  <2>. HIDE DEF epochs
  <2>1. length \in Nat \ {0}
    BY <1>4, <1>5, <1>6 DEF MathMin
  <2>2. effective = alloc.tokens * length
    BY DEF EffectiveAllocation
  <2>. HIDE DEF length
  <2>3. \A x, y \in Nat \ {0} : x * y \in Nat \ {0}
    OBVIOUS
  <2>. QED
    BY <1>2, <1>6, <2>1, <2>2, <2>3
<1>. HIDE DEF effective, epochs
<1>8. a \in Allocation /\ a.closedAtEpoch = epoch
  BY <1>1, <1>4, <1>7 DEF Allocation
<1>9. /\ p \in Pool
      /\ UnclaimedFees(p) = UnclaimedFees(l.rebates[epoch]) + alloc.collectedFees
      /\ UnclaimedFees(l.rebates[epoch]) \in Int
  <2>1. l.rebates[epoch] \in Pool
    BY <1>4 DEF Good, OpenLedger
  <2>. DEFINE before == l.rebates[epoch]
              fees == alloc.collectedFees
              numerator == params["alphaNumerator"]
              denominator == params["alphaDenominator"]
              after == AddToPool(IF PoolExists(before) THEN before
                                 ELSE InitPool(before, numerator, denominator),
                                 fees, effective)
  <2>3. after = p
    OBVIOUS
  <2>4. /\ before \in Pool /\ fees \in Nat /\ effective \in Nat
        /\ numerator \in Nat /\ denominator \in Nat
    BY <1>2, <1>5, <1>7, <2>1
  <2>. HIDE DEF before, p, fees, numerator, denominator
  <2>5. after \in Pool /\ after.fees = before.fees + fees
        /\ after.claimedRewards = before.claimedRewards
    BY <2>4, AddToPoolGood, SMTT(30)
  <2>. HIDE DEF after
  <2>2. /\ p \in Pool /\ p.fees = l.rebates[epoch].fees + alloc.collectedFees
        /\ p.claimedRewards = l.rebates[epoch].claimedRewards
    BY <2>3, <2>5 DEF before, fees
  <2>. QED
    BY <1>2, <2>1, <2>2 DEF UnclaimedFees, Pool
<1>10. cut \in 0 .. MAX_PPM
  BY <1>2 DEF Good, OpenLedger, DelegationPool
<1>11. Closed(l, id, rewards) = m
  <2>1. n.rebates = l.rebates
    BY <1>1 DEF Good, OpenLedger
  <2>2. o = [l EXCEPT !.allocations[id] = a, !.rebates[epoch] = p]
    BY <2>1
  <2>. QED
    BY <2>2 DEF Closed, effective, epochs
<1>. HIDE DEF a, p, cut
<1>12. /\ Good(n) /\ DifferIn(l, n, {"allocations"})
       /\ n.allocations = [l.allocations EXCEPT ![id] = a]
  BY <1>8, AllocationGood
<1>. HIDE DEF n
<1>13. /\ Good(o) /\ DifferIn(n, o, {"rebates"})
       /\ o.rebates = [n.rebates EXCEPT ![epoch] = p]
  BY <1>4, <1>9, <1>12, RebatesGood
<1>. HIDE DEF o
<1>14. /\ Good(q) /\ DifferIn(o, q, {"grt"})
       /\ NobodyPays(o, q) /\ Surplus(q) = Surplus(o) + rewards
  BY <1>13, MintedGoneGood, MintedGoneMoves
<1>. HIDE DEF q
<1>15. /\ Good(r) /\ DifferIn(q, r, {"stakes", "delegationPools", "grt"})
       /\ SameUse(q, r) /\ PoolsRewarded(q, r)
       /\ StakesGrow(q, r) /\ NobodyPays(q, r)
       /\ Surplus(r) = Surplus(q) - rewards
  BY <1>2, <1>10, <1>14, RewardsSplitGood
<1>. HIDE DEF r
<1>16. DifferIn(l, q, {"allocations", "rebates", "grt"})
  BY <1>12, <1>13, <1>14 DEF DifferIn, Parts
<1>17. /\ r.stakes[i].tokensAllocated = l.stakes[i].tokensAllocated
       /\ r.subgraphAllocations = l.subgraphAllocations
  BY <1>2, <1>15, <1>16 DEF DifferIn, Parts, SameUse
<1>18. /\ GoodStake(t) /\ t.tokensLocked = r.stakes[i].tokensLocked
       /\ t.tokensLockedUntil = r.stakes[i].tokensLockedUntil
       /\ t.tokensStaked = r.stakes[i].tokensStaked /\ t.tokensStaked \in Nat
       /\ t.tokensAllocated = r.stakes[i].tokensAllocated - alloc.tokens
  <2>1. GoodStake(r.stakes[i])
    BY <1>2, <1>15 DEF Good
  <2>2. r.stakes[i].tokensAllocated - alloc.tokens \in Nat
    <3>1. r.stakes[i].tokensAllocated \in Nat
      BY <2>1 DEF GoodStake, Stake
    <3>. QED
      BY <1>2, <1>3, <1>17, <3>1
  <2>. QED
    BY <2>1, <2>2 DEF GoodStake, Stake, SecureStakeDefined, StakeUnallocate
<1>. HIDE DEF t
<1>19. Good(u) /\ DifferIn(r, u, {"stakes"}) /\ u.stakes = [r.stakes EXCEPT ![i] = t]
  BY <1>2, <1>15, <1>18, StakeGood
<1>. HIDE DEF u
<1>20. s \in Subgraphs => c \in Nat
  <2>1. u.subgraphAllocations = l.subgraphAllocations
    BY <1>17, <1>19 DEF DifferIn, Parts
  <2>. QED
    BY <1>2, <1>3, <2>1 DEF Good, OpenLedger
<1>. HIDE DEF c
<1>21. /\ Good(m) /\ DifferIn(u, m, {"subgraphAllocations"})
       /\ m.subgraphAllocations = [u.subgraphAllocations EXCEPT ![s] = c]
  <2>. HIDE DEF s
  <2>. QED
    BY <1>19, <1>20, SubgraphGood
<1>22. m.subgraphAllocations = [l.subgraphAllocations EXCEPT ![s] = c]
  <2>1. u.subgraphAllocations = l.subgraphAllocations
    BY <1>17, <1>19 DEF DifferIn, Parts
  <2>. QED
    BY <1>21, <2>1
<1>. HIDE DEF m
<1>23. PoolsRewarded(l, q) /\ PoolsRewarded(r, m)
  <2>1. DifferIn(r, m, {"stakes", "subgraphAllocations"})
    BY <1>19, <1>21 DEF DifferIn, Parts
  <2>. QED
    BY <1>16, <2>1, PoolsUntouched
<1>24. PoolsRewarded(l, r)
  BY <1>14, <1>15, <1>23, PoolsRewardedTransitive
<1>25. SameThawing(l, m)
  <2>1. SameThawing(l, q)
    BY <1>16, StakesUntouched DEF SameUse
  <2>2. SameThawing(r, m)
    <3>1. m.stakes = [r.stakes EXCEPT ![i] = t]
      BY <1>19, <1>21 DEF DifferIn, Parts
    <3>2. r.stakes \in [Indexers -> Stake]
      BY <1>15 DEF Good, OpenLedger
    <3>. QED
      BY <1>18, <3>1, <3>2 DEF SameThawing
  <2>. QED
    BY <1>15, <2>1, <2>2 DEF SameUse, SameThawing
<1>26. m.stakes = [r.stakes EXCEPT ![i] = t] /\ r.stakes \in [Indexers -> Stake]
  BY <1>15, <1>19, <1>21 DEF DifferIn, Parts, Good, OpenLedger
<1>27. StakesGrow(l, m)
  <2>1. q.stakes = l.stakes
    BY <1>16 DEF DifferIn, Parts
  <2>2. \A j \in Indexers : m.stakes[j].tokensStaked = r.stakes[j].tokensStaked
    BY <1>18, <1>26
  <2>. QED
    BY <1>15, <2>1, <2>2 DEF StakesGrow
<1>28. NobodyPays(l, m)
  <2>1. o.grt = l.grt /\ m.grt = r.grt
    BY <1>12, <1>13, <1>19, <1>21 DEF DifferIn, Parts
  <2>2. NobodyPays(o, r)
    BY <1>13, <1>14, <1>15, NobodyPaysTransitive
  <2>. QED
    BY <2>1, <2>2 DEF NobodyPays, ContractsKept
<1>29. Closes(l, m, id, effective)
  <2>1. m.allocations = [l.allocations EXCEPT ![id] = a]
    BY <1>12, <1>13, <1>14, <1>15, <1>19, <1>21 DEF DifferIn, Parts
  <2>2. m.rebates = [l.rebates EXCEPT ![epoch] = p]
    BY <1>12, <1>13, <1>14, <1>15, <1>19, <1>21 DEF DifferIn, Parts
  <2>3. c = l.subgraphAllocations[s] - alloc.tokens
    BY <1>17, <1>19 DEF DifferIn, Parts, c
  <2>4. \A j \in Indexers :
           m.stakes[j].tokensAllocated =
               l.stakes[j].tokensAllocated - IF j = i THEN alloc.tokens ELSE 0
    <3>1. q.stakes = l.stakes
      BY <1>16 DEF DifferIn, Parts
    <3>2. \A j \in Indexers : /\ r.stakes[j].tokensAllocated = l.stakes[j].tokensAllocated
                              /\ l.stakes[j].tokensAllocated \in Nat
      BY <1>15, <3>1 DEF SameUse, Good, GoodStake, Stake
    <3>3. t.tokensAllocated = l.stakes[i].tokensAllocated - alloc.tokens
      BY <1>17, <1>18
    <3>. QED
      BY <1>26, <3>2, <3>3
  <2>. QED
    BY <1>1, <1>22, <2>1, <2>2, <2>3, <2>4 DEF Closes, a, p
<1>30. Surplus(m) = Surplus(l)
  <2>. DEFINE Fees(x) == IF IsActive(x) THEN x.collectedFees ELSE 0
  <2>1. Surplus(n) = Surplus(l) - (Fees(a) - Fees(alloc))
    BY <1>12, AllocationSurplus
  <2>2. Fees(a) = 0 /\ Fees(alloc) = alloc.collectedFees
    BY <1>1, <1>8, <1>6 DEF IsActive
  <2>3. Surplus(o) = Surplus(n) - (UnclaimedFees(p) - UnclaimedFees(n.rebates[epoch]))
    BY <1>4, <1>12, <1>13, RebatesSurplus
  <2>4. n.rebates = l.rebates
    BY <1>12 DEF DifferIn, Parts
  <2>5. Surplus(u) = Surplus(r) - (t.tokensStaked - r.stakes[i].tokensStaked)
    BY <1>2, <1>15, <1>19, StakeSurplus
  <2>6. Surplus(m) = Surplus(u)
    BY <1>21, SubgraphSurplus
  <2>. HIDE DEF Fees
  <2>7. Surplus(n) = Surplus(l) + alloc.collectedFees /\ Surplus(l) \in Int
    BY <1>2, <2>1, <2>2, OwedSums
  <2>8. Surplus(o) = Surplus(l)
    BY <1>2, <1>9, <2>3, <2>4, <2>7
  <2>9. Surplus(r) = Surplus(l)
    BY <1>14, <1>15, <2>7, <2>8
  <2>. QED
    BY <1>18, <2>5, <2>6, <2>7, <2>9
<1>. QED
  BY <1>7, <1>11, <1>15, <1>21, <1>23, <1>24, <1>25, <1>27, <1>28, <1>29, <1>30,
     PoolsRewardedTransitive

\* A rebate is no more than the pool has left.
LEMMA RedeemableNat ==
    ASSUME NEW p \in Pool, CanRedeem(p), NEW fees \in Nat, NEW stake \in Nat,
           NEW rebate \in Redeemable(p, fees, stake)
    PROVE  rebate \in Nat /\ rebate <= UnclaimedFees(p)
<1>1. /\ p.fees \in Nat /\ p.claimedRewards \in Nat /\ p.effectiveAllocatedStake \in Nat
      /\ UnclaimedFees(p) \in Nat
  BY DEF Pool, CanRedeem, UnclaimedFees
<1>2. CASE p.fees = 0
  BY <1>1, <1>2 DEF Redeemable
<1>3. CASE p.fees > 0
  <2>. DEFINE stakeShare == (p.fees * stake) \div p.effectiveAllocatedStake
              low == DiffOrZero(MathMin(fees, stakeShare), 1)
              high == fees + stakeShare - MathMin(fees, stakeShare)
  <2>1. p.effectiveAllocatedStake \in Nat \ {0}
    BY <1>1, <1>3 DEF CanRedeem, PoolExists
  <2>2. stakeShare \in Nat
    BY <1>1, <2>1, DivBounds
  <2>. HIDE DEF stakeShare
  <2>3. low \in Nat /\ high \in Nat
    BY <2>2 DEF DiffOrZero, MathMin
  <2>. HIDE DEF low, high
  <2>4. CobbDouglas(p, fees, stake) \subseteq Nat
    <3>1. \/ CobbDouglas(p, fees, stake) = {0}
          \/ CobbDouglas(p, fees, stake) = low .. high
          \/ CobbDouglas(p, fees, stake) = 0 .. (2 * p.fees)
      BY DEF CobbDouglas, low, high, stakeShare
    <3>2. {0} \subseteq Nat /\ low .. high \subseteq Nat
      BY <2>3
    <3>3. 0 .. (2 * p.fees) \subseteq Nat
      BY <1>1
    <3>. QED
      BY <3>1, <3>2, <3>3, Zenon
  <2>5. PICK x \in CobbDouglas(p, fees, stake) : rebate = MathMin(x, UnclaimedFees(p))
    BY <1>3 DEF Redeemable
  <2>6. x \in Nat
    BY <2>4, <2>5
  <2>. QED
    BY <1>1, <2>5, <2>6 DEF MathMin
<1>. QED
  BY <1>1, <1>2, <1>3

\* redeem of Rebates.sol, field by field.
LEMMA RedeemGood ==
    ASSUME NEW p \in Pool, NEW rebate \in Nat
    PROVE  LET q == Redeem(p, rebate)
           IN  /\ q \in Pool
               /\ q.fees = p.fees
               /\ q.effectiveAllocatedStake = p.effectiveAllocatedStake
               /\ q.claimedRewards = p.claimedRewards + rebate
               /\ q.unclaimedAllocationsCount =
                      (p.unclaimedAllocationsCount - 1) % CounterSize
               /\ UnclaimedFees(q) = UnclaimedFees(p) - rebate
               /\ UnclaimedFees(p) \in Int
<1>. DEFINE count == (p.unclaimedAllocationsCount - 1) % CounterSize
            q == [p EXCEPT !.unclaimedAllocationsCount = count]
            r == [q EXCEPT !.claimedRewards = p.claimedRewards + rebate]
<1>1. count \in 0 .. CounterSize - 1
  BY CounterSizeAssumption DEF Pool
<1>2. p.claimedRewards + rebate \in Nat
  BY DEF Pool
<1>. HIDE DEF count
<1>3. /\ q \in Pool /\ q.claimedRewards = p.claimedRewards
      /\ q.fees = p.fees /\ q.effectiveAllocatedStake = p.effectiveAllocatedStake
      /\ q.unclaimedAllocationsCount = count
  BY <1>1 DEF Pool
<1>4. Redeem(p, rebate) = r
  BY <1>3 DEF Redeem, count
<1>. HIDE DEF q
<1>5. /\ r \in Pool /\ r.fees = p.fees
      /\ r.effectiveAllocatedStake = p.effectiveAllocatedStake
      /\ r.claimedRewards = p.claimedRewards + rebate
      /\ r.unclaimedAllocationsCount = count
  BY <1>2, <1>3 DEF Pool
<1>. HIDE DEF r
<1>6. UnclaimedFees(r) = UnclaimedFees(p) - rebate /\ UnclaimedFees(p) \in Int
  BY <1>5 DEF UnclaimedFees, Pool
<1>. QED
  BY <1>4, <1>5, <1>6 DEF count

\* _claim pays a rebate out of its pool, and burns what the last one leaves.
LEMMA ClaimedGood ==
    ASSUME Context, NEW l, Good(l), NEW sender, NEW id \in AllocationIDs,
           CanClaim(l, id), NEW rebate \in RebatesFor(l, id), NEW restake
    PROVE  LET m == Claimed(l, sender, id, rebate, restake)
           IN  /\ Good(m)
               /\ PoolsRewarded(l, m)
               /\ SameThawing(l, m)
               /\ StakesGrow(l, m)
               /\ NobodyPays(l, m)
               /\ rebate \in Nat /\ Claims(l, m, id, rebate)
               /\ Surplus(m) = Surplus(l)
<1>. DEFINE alloc == l.allocations[id]
            i == alloc.indexer
            e == alloc.closedAtEpoch
            pool == Redeem(l.rebates[e], rebate)
            last == pool.unclaimedAllocationsCount = 0
            a == Purged(alloc)
            p == IF last THEN NoPool ELSE pool
            left == UnclaimedFees(pool)
            cut == l.delegationPools[i].queryFeeCut
            n == [l EXCEPT !.allocations[id] = a]
            o == [n EXCEPT !.rebates[e] = p]
            q == IF last THEN Gone(o, left) ELSE o
            m == RewardsSplit(q, i, cut, rebate, restake /\ IsAuth(sender, i))
<1>1. alloc \in Allocation /\ alloc.indexer # NoAddress /\ ~IsActive(alloc)
  BY DEF CanClaim, StateOf, AllocationState, IsActive, Good, OpenLedger
<1>2. /\ i \in Indexers /\ e \in Epochs
      /\ alloc.collectedFees \in Nat /\ alloc.effectiveAllocation \in Nat
  BY <1>1 DEF Allocation
<1>3. l.rebates[e] \in Pool
  BY <1>2 DEF Good, OpenLedger
<1>4. rebate \in Nat
  BY <1>2, <1>3, RedeemableNat DEF CanClaim, RebatesFor
<1>5. /\ pool \in Pool /\ left \in Int
      /\ left = UnclaimedFees(l.rebates[e]) - rebate
      /\ UnclaimedFees(l.rebates[e]) \in Int
  BY <1>3, <1>4, RedeemGood
<1>6. p \in Pool
  <2>1. NoPool \in Pool
    BY CounterSizeAssumption DEF NoPool, Pool
  <2>. QED
    BY <1>5, <2>1
<1>7. a \in Allocation /\ ~IsActive(a)
  <2>1. NoAllocation \in Allocation /\ NoAllocation.tokens = 0
    BY ClockAssumption DEF NoAllocation, Allocation, Epochs
  <2>2. a \in Allocation /\ a.tokens = 0
    BY <1>1, <2>1 DEF Purged, Allocation
  <2>. QED
    BY <2>2 DEF IsActive
<1>8. UnclaimedFees(p) = IF last THEN 0 ELSE left
  BY DEF UnclaimedFees, NoPool
<1>9. cut \in 0 .. MAX_PPM
  BY <1>2 DEF Good, OpenLedger, DelegationPool
<1>10. Claimed(l, sender, id, rebate, restake) = m
  <2>1. o = [l EXCEPT !.allocations[id] = a, !.rebates[e] = p]
    BY DEF Good, OpenLedger
  <2>. QED
    BY <2>1 DEF Claimed
<1>. HIDE DEF a, p, cut, left, last
<1>11. /\ Good(n) /\ DifferIn(l, n, {"allocations"})
       /\ n.allocations = [l.allocations EXCEPT ![id] = a]
  BY <1>7, AllocationGood
<1>. HIDE DEF n
<1>12. /\ Good(o) /\ DifferIn(n, o, {"rebates"})
       /\ o.rebates = [n.rebates EXCEPT ![e] = p]
  BY <1>2, <1>6, <1>11, RebatesGood
<1>. HIDE DEF o
<1>13. /\ Good(q) /\ DifferIn(o, q, {"grt"}) /\ NobodyPays(o, q)
       /\ Surplus(q) = Surplus(o) - IF last THEN left ELSE 0
  <2>1. CASE last
    BY <1>5, <1>12, <2>1, MintedGoneGood, MintedGoneMoves
  <2>2. CASE ~last
    BY <1>12, <2>2, SameGrt, OwedSums DEF DifferIn
  <2>. QED
    BY <2>1, <2>2
<1>. HIDE DEF q
<1>14. /\ Good(m) /\ PoolsRewarded(q, m) /\ SameUse(q, m)
       /\ DifferIn(q, m, {"stakes", "delegationPools", "grt"})
       /\ StakesGrow(q, m) /\ NobodyPays(q, m)
       /\ Surplus(m) = Surplus(q) - rebate
  BY <1>2, <1>4, <1>9, <1>13, RewardsSplitGood
<1>. HIDE DEF m
<1>15. StakesGrow(l, m) /\ NobodyPays(l, m)
  <2>1. q.stakes = l.stakes /\ o.grt = l.grt
    BY <1>11, <1>12, <1>13 DEF DifferIn, Parts
  <2>2. NobodyPays(o, m)
    BY <1>12, <1>13, <1>14, NobodyPaysTransitive
  <2>. QED
    BY <1>14, <2>1, <2>2 DEF NobodyPays, ContractsKept, StakesGrow
<1>16. Claims(l, m, id, rebate)
  <2>1. /\ m.allocations = [l.allocations EXCEPT ![id] = a]
        /\ m.subgraphAllocations = l.subgraphAllocations
        /\ q.stakes = l.stakes
    BY <1>11, <1>12, <1>13, <1>14 DEF DifferIn, Parts
  <2>2. m.rebates = [l.rebates EXCEPT ![e] = p]
    BY <1>11, <1>12, <1>13, <1>14 DEF DifferIn, Parts
  <2>. QED
    BY <1>14, <2>1, <2>2 DEF Claims, SameUse, a, p, last
<1>17. Surplus(m) = Surplus(l)
  <2>. DEFINE Fees(x) == IF IsActive(x) THEN x.collectedFees ELSE 0
  <2>1. Surplus(n) = Surplus(l) - (Fees(a) - Fees(alloc))
    BY <1>11, AllocationSurplus
  <2>2. Fees(a) = 0 /\ Fees(alloc) = 0
    BY <1>1, <1>7
  <2>3. Surplus(o) = Surplus(n) - (UnclaimedFees(p) - UnclaimedFees(n.rebates[e]))
    BY <1>2, <1>11, <1>12, RebatesSurplus
  <2>4. n.rebates = l.rebates
    BY <1>11 DEF DifferIn, Parts
  <2>. HIDE DEF Fees
  <2>5. Surplus(n) = Surplus(l) /\ Surplus(l) \in Int
    BY <2>1, <2>2, OwedSums
  <2>6. Surplus(o) = Surplus(l) - ((IF last THEN 0 ELSE left) - (left + rebate))
    BY <1>4, <1>5, <1>8, <2>3, <2>4, <2>5
  <2>7. Surplus(q) = Surplus(l) + rebate
    <3>1. /\ Surplus(q) = Surplus(o) - IF last THEN left ELSE 0
          /\ rebate \in Int /\ left \in Int
      BY <1>4, <1>5, <1>13
    <3>2. CASE last
      BY <2>5, <2>6, <3>1, <3>2
    <3>3. CASE ~last
      BY <2>5, <2>6, <3>1, <3>3
    <3>. QED
      BY <3>2, <3>3
  <2>8. Surplus(m) = Surplus(q) - rebate /\ rebate \in Int
    BY <1>4, <1>14
  <2>. QED
    BY <2>5, <2>7, <2>8
<1>18. PoolsRewarded(l, q) /\ SameUse(l, q)
  <2>1. DifferIn(l, q, {"allocations", "rebates", "grt"})
    BY <1>11, <1>12, <1>13 DEF DifferIn, Parts
  <2>. QED
    BY <2>1, PoolsUntouched, StakesUntouched
<1>19. SameThawing(l, m)
  BY <1>14, <1>18 DEF SameUse, SameThawing
<1>. QED
  BY <1>4, <1>10, <1>13, <1>14, <1>18, <1>19, <1>15, <1>16, <1>17, PoolsRewardedTransitive

-----------------------------------------------------------------------------
(* How the allocations move *)

\* From l to m query fees are collected for the allocation id.  A closed one has
\* them in its rebate pool too, and a final one gets none.
Collects(l, m, id, fees) ==
    LET state == StateOf(l, id)
        e     == l.allocations[id].closedAtEpoch
    IN  /\ state # "Null"
        /\ state \notin {"Active", "Closed"} => fees = 0
        /\ m.allocations = [l.allocations EXCEPT ![id] =
              [@ EXCEPT !.collectedFees = l.allocations[id].collectedFees + fees]]
        /\ m.rebates = IF state = "Closed"
                       THEN [l.rebates EXCEPT ![e] = [@ EXCEPT !.fees = l.rebates[e].fees + fees]]
                       ELSE l.rebates
        /\ m.subgraphAllocations = l.subgraphAllocations
        /\ \A i \in Indexers : m.stakes[i].tokensAllocated = l.stakes[i].tokensAllocated

\* What one call of _allocate, _closeAllocation or _claim, or a collect, may do to
\* the allocations: each needs the state that its require asks for.
AllocationMove(l, m) ==
    \/ SameAllocations(l, m)
    \/ \E i \in Indexers, s \in Subgraphs, tokens \in Nat \ {0}, id \in AllocationIDs :
          l.allocations[id].indexer = NoAddress /\ Opens(l, m, i, s, tokens, id)
    \/ \E id \in AllocationIDs, effective \in Nat \ {0} :
          l.allocations[id].createdAtEpoch < epoch /\ Closes(l, m, id, effective)
    \/ \E id \in AllocationIDs, rebate \in Nat :
          /\ CanClaim(l, id)
          /\ rebate <= UnclaimedFees(l.rebates[l.allocations[id].closedAtEpoch])
          /\ Claims(l, m, id, rebate)
    \/ \E id \in AllocationIDs, fees \in Nat : Collects(l, m, id, fees)

\* A transaction makes one of these moves, or two.
AllocationStep(l, m) == \E n : Good(n) /\ AllocationMove(l, n) /\ AllocationMove(n, m)

\* One move of the allocations is at most two,
LEMMA OneMove ==
    ASSUME NEW l, NEW m, Good(m), AllocationMove(l, m)
    PROVE  AllocationStep(l, m)
<1>1. AllocationMove(m, m)
  BY DEF AllocationMove, SameAllocations
<1>. QED
  BY <1>1 DEF AllocationStep

\* and none is too.
LEMMA NoMove ==
    ASSUME NEW l, NEW m, Good(m), SameAllocations(l, m)
    PROVE  AllocationStep(l, m)
BY OneMove DEF AllocationMove

\* What touches no allocation and no total moves none.
LEMMA AllocationsUntouched ==
    ASSUME NEW l, NEW m, NEW parts, DifferIn(l, m, parts),
           {"allocations", "subgraphAllocations", "rebates"} \cap parts = {},
           \A i \in Indexers : m.stakes[i].tokensAllocated = l.stakes[i].tokensAllocated
    PROVE  SameAllocations(l, m)
BY DEF DifferIn, Parts, SameAllocations

\* _allocate is one move: it requires that the allocation is not there yet.
LEMMA AllocatedMoves ==
    ASSUME Context, NEW l, Good(l), NEW sender, NEW i \in Indexers, NEW s \in Subgraphs,
           NEW tokens \in Nat, NEW id \in AllocationIDs,
           CanAllocate(l, sender, i, tokens, id)
    PROVE  /\ AllocationMove(l, Allocated(l, i, s, tokens, id))
           /\ l.allocations[id].indexer = NoAddress
<1>. DEFINE m == Allocated(l, i, s, tokens, id)
<1>1. tokens \in Nat \ {0} /\ l.allocations[id].indexer = NoAddress
  BY DEF CanAllocate, StateOf, AllocationState
<1>2. Opens(l, m, i, s, tokens, id)
  BY AllocatedGood
<1>. HIDE DEF m
<1>3. AllocationMove(l, m)
  BY <1>1, <1>2 DEF AllocationMove
<1>. QED
  BY <1>1, <1>3 DEF m

\* _closeAllocation is one move: it requires an active allocation of an earlier epoch.
LEMMA ClosedMoves ==
    ASSUME Context, NEW l, Good(l), NEW sender, NEW id \in AllocationIDs,
           CanClose(l, sender, id), NEW rewards \in Nat
    PROVE  AllocationMove(l, Closed(l, id, rewards))
<1>. DEFINE m == Closed(l, id, rewards)
<1>1. l.allocations[id].createdAtEpoch < epoch
  <2>1. l.allocations[id].createdAtEpoch \in Nat /\ epoch \in Nat
    BY ClockAssumption DEF Good, OpenLedger, Allocation, Epochs, Context, ClockTypeOK
  <2>. QED
    BY <2>1 DEF CanClose, DiffOrZero
<1>2. \E effective \in Nat \ {0} : Closes(l, m, id, effective)
  BY ClosedGood
<1>. HIDE DEF m
<1>. QED
  BY <1>1, <1>2 DEF AllocationMove, m

\* _claim is one move: it requires a final allocation.
LEMMA ClaimedMoves ==
    ASSUME Context, NEW l, Good(l), NEW sender, NEW id \in AllocationIDs,
           CanClaim(l, id), NEW rebate \in RebatesFor(l, id), NEW restake
    PROVE  AllocationMove(l, Claimed(l, sender, id, rebate, restake))
<1>. DEFINE m == Claimed(l, sender, id, rebate, restake)
            alloc == l.allocations[id]
            p == l.rebates[alloc.closedAtEpoch]
<1>1. /\ alloc \in Allocation /\ p \in Pool /\ alloc.collectedFees \in Nat
      /\ alloc.effectiveAllocation \in Nat
  BY DEF Good, OpenLedger, Allocation
<1>2. rebate <= UnclaimedFees(p)
  BY <1>1, RedeemableNat DEF CanClaim, RebatesFor
<1>3. rebate \in Nat /\ Claims(l, m, id, rebate)
  BY ClaimedGood
<1>. HIDE DEF m
<1>. QED
  BY <1>2, <1>3 DEF AllocationMove, m

\* All that one call of _allocate, _closeAllocation or _claim makes of a ledger.
AllocationCall(l, m) ==
    /\ Good(m)
    /\ PoolsRewarded(l, m)
    /\ SameThawing(l, m)
    /\ StakesGrow(l, m)
    /\ NobodyPays(l, m)
    /\ AllocationMove(l, m)
    /\ Surplus(m) = Surplus(l)

\* With what it does to the rest of the ledger, _allocate is a call.
LEMMA AllocatedCall ==
    ASSUME Context, NEW l, Good(l), NEW sender, NEW i \in Indexers, NEW s \in Subgraphs,
           NEW tokens \in Nat, NEW id \in AllocationIDs,
           CanAllocate(l, sender, i, tokens, id)
    PROVE  AllocationCall(l, Allocated(l, i, s, tokens, id))
<1>. DEFINE m == Allocated(l, i, s, tokens, id)
<1>1. AllocationMove(l, m) /\ l.allocations[id].indexer = NoAddress
  BY AllocatedMoves
<1>2. /\ Good(m) /\ PoolsRewarded(l, m) /\ SameThawing(l, m)
      /\ StakesGrow(l, m) /\ NobodyPays(l, m)
      /\ l.allocations[id].indexer = NoAddress => Surplus(m) = Surplus(l)
  BY AllocatedGood
<1>. HIDE DEF m
<1>3. AllocationCall(l, m)
  BY <1>1, <1>2 DEF AllocationCall
<1>. QED
  BY <1>3 DEF m

\* So is _closeAllocation,
LEMMA ClosedCall ==
    ASSUME Context, NEW l, Good(l), NEW sender, NEW id \in AllocationIDs,
           CanClose(l, sender, id), NEW rewards \in Nat
    PROVE  AllocationCall(l, Closed(l, id, rewards))
<1>. DEFINE m == Closed(l, id, rewards)
<1>1. AllocationMove(l, m)
  BY ClosedMoves
<1>2. /\ Good(m) /\ PoolsRewarded(l, m) /\ SameThawing(l, m)
      /\ StakesGrow(l, m) /\ NobodyPays(l, m) /\ Surplus(m) = Surplus(l)
  BY ClosedGood
<1>. HIDE DEF m
<1>3. AllocationCall(l, m)
  BY <1>1, <1>2 DEF AllocationCall
<1>. QED
  BY <1>3 DEF m

\* and _claim.
LEMMA ClaimedCall ==
    ASSUME Context, NEW l, Good(l), NEW sender, NEW id \in AllocationIDs,
           CanClaim(l, id), NEW rebate \in RebatesFor(l, id), NEW restake
    PROVE  AllocationCall(l, Claimed(l, sender, id, rebate, restake))
<1>. DEFINE m == Claimed(l, sender, id, rebate, restake)
<1>1. AllocationMove(l, m)
  BY ClaimedMoves
<1>2. /\ Good(m) /\ PoolsRewarded(l, m) /\ SameThawing(l, m)
      /\ StakesGrow(l, m) /\ NobodyPays(l, m) /\ Surplus(m) = Surplus(l)
  BY ClaimedGood
<1>. HIDE DEF m
<1>3. AllocationCall(l, m)
  BY <1>1, <1>2 DEF AllocationCall
<1>. QED
  BY <1>3 DEF m

-----------------------------------------------------------------------------
(* The handlers *)

\* The inductive invariant: LockedWithinStake and LockHasDeadline, which Good
\* holds, need the types, and the types need them.
IInv == TypeOK /\ Good(ledger)

\* How the delegation pools may change in a step.
PoolStep(l, m) ==
    \/ PoolsRewarded(l, m)
    \/ \E i \in Indexers, d \in Delegators, tokens \in Nat :
          /\ SharesFor(l.delegationPools[i], tokens) > 0
          /\ EntersPool(l, m, i, d, tokens)
    \/ \E i \in Indexers, d \in Delegators, shares \in Nat \ {0} :
          LeavesPool(l, m, i, d, shares)

\* NoEarlyThaw of one step.
ThawingKept(l, m) ==
    \A i \in Indexers :
        LET s == l.stakes[i]
            t == m.stakes[i]
        IN  /\ s.tokensLocked > 0 /\ t.tokensLocked > 0 =>
                  t.tokensLockedUntil >= MathMin(s.tokensLockedUntil,
                                                 block + params["thawingPeriod"])
            /\ t.tokensLocked > s.tokensLocked => t.tokensLockedUntil > block

\* PauseRespected of one step.
PauseKept(l, m) ==
    /\ paused =>
         /\ \A h \in Accounts : m.grt[h] <= l.grt[h]
         /\ \A id \in AllocationIDs :
               LET a == l.allocations[id]
                   b == m.allocations[id]
               IN  b.indexer = a.indexer /\ b.closedAtEpoch = a.closedAtEpoch
    /\ paused \/ partialPaused =>
         /\ \A i \in Indexers : m.stakes[i].tokensLocked <= l.stakes[i].tokensLocked
         /\ \A i \in Indexers, d \in Delegators :
               m.delegations[i][d].shares >= l.delegations[i][d].shares
         /\ \A h \in Accounts \ assetHolders : m.grt[h] >= l.grt[h]

\* What MinimumStakeKept asks of the stake of i, unless it is slashed, and that no
\* more is taken out of it than has thawed.
SecureKept(l, m, i) ==
    /\ \/ TokensSecureStake(m.stakes[i]) >= TokensSecureStake(l.stakes[i])
       \/ LeavesEnough(TokensSecureStake(m.stakes[i]))
    /\ \/ m.stakes[i].tokensStaked >= l.stakes[i].tokensStaked
       \/ l.stakes[i].tokensStaked - m.stakes[i].tokensStaked
             = TokensWithdrawable(l.stakes[i], block)

\* What is shown of every transaction that leaves the ledger m.
Sound(m) == /\ PoolStep(ledger, m)
            /\ ThawingKept(ledger, m)
            /\ PauseKept(ledger, m)
            /\ AllocationStep(ledger, m)
            /\ Surplus(m) = Surplus(ledger)
            /\ ContractsKept(ledger, m)

\* What is shown of every step.  Time passes, and settings change, only while the
\* ledger stays.
GoodStep == /\ IInv'
            /\ Sound(ledger')
            /\ \A i \in Indexers : SecureKept(ledger, ledger', i) \/ SlashStep(i)
            /\ \/ epoch' = epoch /\ params' = params
               \/ ledger' = ledger /\ (epoch' = epoch \/ epoch' > epoch)

\* The settings and the time, from the invariant.
LEMMA InvContext ==
    ASSUME IInv
    PROVE  /\ Context
           /\ block \in Nat \ {0} /\ epoch \in Nat
           /\ params["thawingPeriod"] \in Nat \ {0}
           /\ params["delegationUnbondingPeriod"] \in Nat
BY ClockAssumption DEF IInv, TypeOK, Context, ClockTypeOK, Blocks, Epochs, Params,
   Settings, PositiveSettings

\* Locks that are not touched are not cut short.
LEMMA SameThawingKept ==
    ASSUME IInv, NEW m, SameThawing(ledger, m)
    PROVE  ThawingKept(ledger, m)
<1>. SUFFICES ASSUME NEW i \in Indexers
     PROVE  ledger.stakes[i].tokensLockedUntil >=
                MathMin(ledger.stakes[i].tokensLockedUntil, block + params["thawingPeriod"])
            /\ ~(ledger.stakes[i].tokensLocked > ledger.stakes[i].tokensLocked)
  BY DEF SameThawing, ThawingKept
<1>1. /\ ledger.stakes[i].tokensLockedUntil \in Nat
      /\ ledger.stakes[i].tokensLocked \in Nat
  BY DEF IInv, Good, GoodStake, Stake
<1>2. block + params["thawingPeriod"] \in Nat
  BY InvContext
<1>. QED
  BY <1>1, <1>2 DEF MathMin

\* With neither switch on, a transaction may do anything.
LEMMA UnpausedKept ==
    ASSUME NotPartialPaused, NEW m
    PROVE  PauseKept(ledger, m)
BY DEF NotPartialPaused, PauseKept

\* Partially paused, what only pays out and rewards is allowed.
LEMMA NotPausedKept ==
    ASSUME IInv, NotPaused, NEW m, NobodyPays(ledger, m),
           SameThawing(ledger, m), PoolsRewarded(ledger, m)
    PROVE  PauseKept(ledger, m)
<1>1. \A i \in Indexers : ledger.stakes[i].tokensLocked \in Nat
  BY DEF IInv, Good, GoodStake, Stake
<1>2. \A i \in Indexers, d \in Delegators : ledger.delegations[i][d].shares \in Nat
  BY DEF IInv, Good, OpenLedger, Delegation
<1>3. \A i \in Indexers : m.stakes[i].tokensLocked <= ledger.stakes[i].tokensLocked
  BY <1>1 DEF SameThawing
<1>4. \A i \in Indexers, d \in Delegators :
         m.delegations[i][d].shares >= ledger.delegations[i][d].shares
  BY <1>2 DEF PoolsRewarded
<1>. QED
  BY <1>3, <1>4 DEF NotPaused, NobodyPays, PauseKept

\* Paused, what pays nobody, takes from asset holders at most and leaves the
\* allocations open or closed as they are is allowed.
LEMMA NothingPaidKept ==
    ASSUME IInv, NEW m, SameThawing(ledger, m), PoolsRewarded(ledger, m),
           \/ m.grt = ledger.grt
           \/ /\ \A h \in Accounts : m.grt[h] <= ledger.grt[h]
              /\ \A h \in Accounts \ assetHolders : m.grt[h] >= ledger.grt[h],
           \A id \in AllocationIDs :
              /\ m.allocations[id].indexer = ledger.allocations[id].indexer
              /\ m.allocations[id].closedAtEpoch = ledger.allocations[id].closedAtEpoch
    PROVE  PauseKept(ledger, m)
<1>1. \A i \in Indexers : ledger.stakes[i].tokensLocked \in Nat
  BY DEF IInv, Good, GoodStake, Stake
<1>2. \A i \in Indexers, d \in Delegators : ledger.delegations[i][d].shares \in Nat
  BY DEF IInv, Good, OpenLedger, Delegation
<1>3. \A h \in Accounts : ledger.grt[h] \in Int
  BY DEF IInv, Good, OpenLedger, Holders
<1>4. \A i \in Indexers : m.stakes[i].tokensLocked <= ledger.stakes[i].tokensLocked
  BY <1>1 DEF SameThawing
<1>5. \A i \in Indexers, d \in Delegators :
         m.delegations[i][d].shares >= ledger.delegations[i][d].shares
  BY <1>2 DEF PoolsRewarded
<1>6. /\ \A h \in Accounts : m.grt[h] <= ledger.grt[h]
      /\ \A h \in Accounts \ assetHolders : m.grt[h] >= ledger.grt[h]
  BY <1>3
<1>. QED
  BY <1>4, <1>5, <1>6 DEF PauseKept

\* Who gets stake and no lock has as much out of the lock as before.
LEMMA SecureGrows ==
    ASSUME NEW l, NEW m, Good(l), Good(m), StakesGrow(l, m), SameThawing(l, m)
    PROVE  \A i \in Indexers : SecureKept(l, m, i)
<1>. SUFFICES ASSUME NEW i \in Indexers PROVE SecureKept(l, m, i)
  OBVIOUS
<1>1. /\ l.stakes[i].tokensStaked \in Nat /\ l.stakes[i].tokensLocked \in Nat
      /\ m.stakes[i].tokensStaked \in Nat
      /\ m.stakes[i].tokensStaked >= l.stakes[i].tokensStaked
      /\ m.stakes[i].tokensLocked = l.stakes[i].tokensLocked
  BY DEF Good, GoodStake, Stake, StakesGrow, SameThawing
<1>. QED
  BY <1>1 DEF SecureKept, TokensSecureStake

\* A ledger that is good and can be committed is the next one.
LEMMA CommitGood ==
    ASSUME IInv, NEW l, Good(l), Commit(l)
    PROVE  IInv' /\ ledger' = l /\ epoch' = epoch /\ params' = params
<1>1. l \in Ledger
  <2>. DEFINE g == l.grt
  <2>1. l \in OpenLedger /\ \A h \in Holders : l.grt[h] >= 0
    BY DEF Good, Commit
  <2>2. l.grt \in [Holders -> Nat]
    BY <2>1 DEF OpenLedger
  <2>. QED
    BY <2>1, <2>2 DEF OpenLedger, Ledger
<1>2. UNCHANGED <<clock, access, config, pauses>> /\ ledger' = l
  BY DEF Commit
<1>3. TypeOK'
  BY <1>1, <1>2 DEF IInv, TypeOK, ClockTypeOK, clock, access, config, pauses
<1>. QED
  BY <1>2, <1>3 DEF IInv, clock, config

\* A transaction that ends with a sound ledger.
LEMMA CommittedStep ==
    ASSUME IInv, NEW m, Good(m), Commit(m), Sound(m),
           \A i \in Indexers : SecureKept(ledger, m, i) \/ SlashStep(i)
    PROVE  GoodStep
<1>1. IInv' /\ ledger' = m /\ epoch' = epoch /\ params' = params
  BY CommitGood
<1>2. Sound(ledger') /\ \A i \in Indexers : SecureKept(ledger, ledger', i) \/ SlashStep(i)
  BY <1>1
<1>. QED
  BY <1>1, <1>2 DEF GoodStep

\* One that rewards the pools at most, leaves the locks alone and takes no stake.
LEMMA RewardedStep ==
    ASSUME IInv, NEW m, Good(m), Commit(m), PoolsRewarded(ledger, m), SameThawing(ledger, m),
           StakesGrow(ledger, m), PauseKept(ledger, m), AllocationStep(ledger, m),
           Surplus(m) = Surplus(ledger), ContractsKept(ledger, m)
    PROVE  GoodStep
<1>1. Sound(m)
  BY SameThawingKept DEF Sound, PoolStep
<1>2. \A i \in Indexers : SecureKept(ledger, m, i)
  BY SecureGrows DEF IInv
<1>. QED
  BY <1>1, <1>2, CommittedStep

\* One of a delegator, which leaves stakes and allocations alone.
LEMMA DelegatorStep ==
    ASSUME IInv, NEW m, Good(m), Commit(m), PoolStep(ledger, m), PauseKept(ledger, m),
           DifferIn(ledger, m, {"delegationPools", "delegations", "grt"}),
           Surplus(m) = Surplus(ledger), ContractsKept(ledger, m)
    PROVE  GoodStep
<1>1. SameUse(ledger, m) /\ StakesGrow(ledger, m)
  <2>1. m.stakes = ledger.stakes
    BY DEF DifferIn, Parts
  <2>. QED
    BY <2>1, StakesUntouched, SameStakes DEF IInv
<1>2. AllocationStep(ledger, m)
  BY <1>1, AllocationsUntouched, NoMove DEF SameUse
<1>3. Sound(m)
  BY <1>1, <1>2, SameThawingKept DEF Sound, SameUse
<1>4. \A i \in Indexers : SecureKept(ledger, m, i)
  BY <1>1, SecureGrows DEF IInv, SameUse
<1>. QED
  BY <1>3, <1>4, CommittedStep

\* A step that sets other variables only.
LEMMA SameLedgerGood ==
    ASSUME IInv, TypeOK', ledger' = ledger, epoch' = epoch \/ epoch' > epoch
    PROVE  GoodStep
<1>. DEFINE l == ledger
<1>1. IInv' /\ Good(l) /\ PoolsRewarded(l, l) /\ SameThawing(l, l)
  BY DEF IInv, PoolsRewarded, SameThawing
<1>2. NobodyPays(l, l) /\ StakesGrow(l, l) /\ AllocationStep(l, l)
  BY <1>1, SameGrt, SameStakes, NoMove DEF SameAllocations
<1>3. \A i \in Indexers : SecureKept(l, l, i)
  BY <1>1, <1>2, SecureGrows
<1>4. PauseKept(l, l)
  <2>1. \A h \in Accounts : l.grt[h] \in Int
    BY <1>1 DEF Good, OpenLedger, Holders
  <2>2. \A i \in Indexers : l.stakes[i].tokensLocked \in Nat
    BY <1>1 DEF Good, GoodStake, Stake
  <2>3. \A i \in Indexers, d \in Delegators : l.delegations[i][d].shares \in Nat
    BY <1>1 DEF Good, OpenLedger, Delegation
  <2>. QED
    BY <2>1, <2>2, <2>3 DEF PauseKept
<1>5. Sound(l)
  BY <1>1, <1>2, <1>4, SameThawingKept DEF Sound, PoolStep, ContractsKept
<1>6. Sound(ledger') /\ \A i \in Indexers : SecureKept(ledger, ledger', i)
  BY <1>3, <1>5
<1>. QED
  BY <1>1, <1>6 DEF GoodStep

\* stakeTo
LEMMA StakeToStep ==
    ASSUME IInv, NEW sender \in Accounts, NEW i \in Indexers, NEW tokens \in Nat,
           StakeTo(sender, i, tokens)
    PROVE  GoodStep
<1>. DEFINE l == Pull(ledger, sender, tokens)
            m == Staked(l, i, tokens)
<1>1. /\ Good(ledger) /\ Good(l) /\ DifferIn(ledger, l, {"grt"})
      /\ Surplus(l) = Surplus(ledger) + tokens /\ Surplus(ledger) \in Int
      /\ ContractsKept(ledger, l)
  BY PullPushGood, PullPushMoves, OwedSums DEF IInv
<1>2. Commit(m) /\ NotPartialPaused
  BY DEF StakeTo
<1>. HIDE DEF l
<1>3. /\ Good(m) /\ SameUse(l, m) /\ PoolsRewarded(l, m) /\ StakesGrow(l, m)
      /\ DifferIn(l, m, {"stakes", "delegationPools"})
      /\ Surplus(m) = Surplus(l) - tokens
  BY <1>1, InvContext, StakedGood
<1>. HIDE DEF m
<1>4. PoolsRewarded(ledger, l) /\ SameUse(ledger, l) /\ StakesGrow(ledger, l)
  <2>1. l.stakes = ledger.stakes
    BY <1>1 DEF DifferIn, Parts
  <2>. QED
    BY <1>1, <2>1, PoolsUntouched, StakesUntouched, SameStakes
<1>5. /\ PoolsRewarded(ledger, m) /\ SameUse(ledger, m) /\ SameThawing(ledger, m)
      /\ StakesGrow(ledger, m)
  BY <1>1, <1>3, <1>4, PoolsRewardedTransitive, StakesGrowTransitive DEF SameUse, SameThawing
<1>6. DifferIn(ledger, m, {"stakes", "delegationPools", "grt"})
  BY <1>1, <1>3 DEF DifferIn, Parts
<1>7. AllocationStep(ledger, m)
  BY <1>3, <1>5, <1>6, AllocationsUntouched, NoMove DEF SameUse
<1>8. PauseKept(ledger, m)
  BY <1>2, UnpausedKept
<1>9. Surplus(m) = Surplus(ledger) /\ ContractsKept(ledger, m)
  BY <1>1, <1>3 DEF ContractsKept, DifferIn, Parts
<1>. QED
  BY <1>2, <1>3, <1>5, <1>7, <1>8, <1>9, RewardedStep

\* unstake: the lock is prolonged, never shortened, and the rest stays at the minimum.
LEMMA UnstakeStep ==
    ASSUME IInv, NEW i \in Indexers, NEW tokens \in Nat, Unstake(i, tokens)
    PROVE  GoodStep
<1>. DEFINE s == ledger.stakes[i]
            toLock == MathMin(TokensAvailable(s), tokens)
            l == IF TokensWithdrawable(s, block) > 0 THEN Withdrawn(ledger, i) ELSE ledger
            r == l.stakes[i]
            t == LockTokens(r, toLock, params["thawingPeriod"], block)
            m == [l EXCEPT !.stakes[i] = t]
            newStake == TokensSecureStake(s) - toLock
<1>1. /\ toLock > 0 /\ Commit(m) /\ NotPartialPaused
      /\ LeavesEnough(newStake)
  BY DEF Unstake
<1>2. Good(ledger) /\ GoodStake(s)
  BY DEF IInv, Good
<1>3. toLock \in Nat \ {0} /\ toLock <= s.tokensStaked - s.tokensLocked
  <2>1. s \in Stake
    BY <1>2 DEF GoodStake
  <2>2. /\ TokensAvailable(s) \in Nat
        /\ TokensAvailable(s) = 0 \/ TokensAvailable(s) <= s.tokensStaked - s.tokensLocked
    BY <2>1 DEF Stake, TokensAvailable, TokensAvailableWithDelegation, DiffOrZero, TokensUsed
  <2>. QED
    BY <1>1, <2>1, <2>2 DEF MathMin, Stake
<1>4. /\ Good(l) /\ DifferIn(ledger, l, {"stakes", "grt"})
      /\ l.stakes = [ledger.stakes EXCEPT ![i] = WithdrawTokens(s, block)]
      /\ Surplus(l) = Surplus(ledger) /\ ContractsKept(ledger, l)
  <2>1. CASE TokensWithdrawable(s, block) > 0
    BY <1>2, <2>1, InvContext, WithdrawnGood DEF NobodyPays
  <2>2. CASE ~(TokensWithdrawable(s, block) > 0)
    <3>1. WithdrawTokens(s, block) = s
      BY <1>2, <2>2 DEF WithdrawTokens
    <3>2. ledger.stakes = [ledger.stakes EXCEPT ![i] = s]
      BY <1>2 DEF Good, OpenLedger
    <3>. QED
      BY <1>2, <2>2, <3>1, <3>2 DEF DifferIn, ContractsKept
  <2>. QED
    BY <2>1, <2>2
<1>. HIDE DEF l, toLock, newStake
<1>5. r = WithdrawTokens(s, block)
  BY <1>2, <1>4 DEF Good, OpenLedger
<1>. HIDE DEF r
<1>6. /\ GoodStake(r) /\ toLock <= r.tokensStaked - r.tokensLocked
      /\ r.tokensLocked > 0 => r = s /\ s.tokensLockedUntil > block
      /\ r.tokensStaked - r.tokensLocked = s.tokensStaked - s.tokensLocked
      /\ r.tokensAllocated = s.tokensAllocated
      /\ r.tokensStaked = s.tokensStaked - TokensWithdrawable(s, block)
      /\ TokensWithdrawable(s, block) \in Int
  <2>1. block \in Nat \ {0}
    BY InvContext
  <2>0. /\ r.tokensStaked = s.tokensStaked - TokensWithdrawable(s, block)
        /\ TokensWithdrawable(s, block) \in Int
    <3>. DEFINE w == WithdrawTokens(s, block)
                a == TokensWithdrawable(s, block)
    <3>1. GoodStake(s) /\ block \in Nat /\ s.tokensLocked \in Nat
      BY <1>2, <2>1 DEF GoodStake, Stake
    <3>2. w.tokensStaked = s.tokensStaked - a /\ a \in 0 .. s.tokensLocked
      BY <3>1, WithdrawTokensGood
    <3>. HIDE DEF w, a
    <3>3. r.tokensStaked = s.tokensStaked - a /\ a \in Int
      BY <1>5, <3>1, <3>2 DEF w
    <3>. QED
      BY <3>3 DEF a
  <2>2. CASE TokensWithdrawable(s, block) > 0
    <3>. DEFINE w == WithdrawTokens(s, block)
    <3>0. /\ GoodStake(w) /\ w.tokensLocked = 0
          /\ w.tokensStaked = s.tokensStaked - s.tokensLocked
          /\ w.tokensAllocated = s.tokensAllocated
      BY <1>2, <2>1, <2>2, WithdrawTokensGood
    <3>. HIDE DEF w
    <3>1. /\ GoodStake(r) /\ r.tokensLocked = 0
          /\ r.tokensStaked = s.tokensStaked - s.tokensLocked
          /\ r.tokensAllocated = s.tokensAllocated
      BY <1>5, <3>0 DEF w
    <3>. QED
      BY <1>2, <1>3, <2>0, <3>1 DEF GoodStake, Stake
  <2>3. CASE ~(TokensWithdrawable(s, block) > 0)
    <3>1. r = s
      BY <1>5, <2>3 DEF WithdrawTokens
    <3>2. s.tokensLocked > 0 => s.tokensLockedUntil > block
      BY <1>2, <2>1, <2>3 DEF TokensWithdrawable, GoodStake, Stake
    <3>. QED
      BY <1>2, <1>3, <2>0, <3>1, <3>2
  <2>. QED
    BY <2>2, <2>3
<1>7. /\ GoodStake(t) /\ t.tokensLocked = r.tokensLocked + toLock
      /\ t.tokensStaked = r.tokensStaked /\ t.tokensAllocated = r.tokensAllocated
      /\ r.tokensLocked = 0 => t.tokensLockedUntil = block + params["thawingPeriod"]
      /\ r.tokensLocked > 0 => t.tokensLockedUntil
                                 >= MathMin(r.tokensLockedUntil, block + params["thawingPeriod"])
      /\ t.tokensLockedUntil > block
  <2>1. r.tokensLocked + toLock <= r.tokensStaked
    BY <1>3, <1>6 DEF GoodStake, Stake
  <2>2. r.tokensLocked > 0 => r.tokensLockedUntil > block
    BY <1>6
  <2>. DEFINE period == params["thawingPeriod"]
  <2>3. block \in Nat \ {0} /\ period \in Nat \ {0}
    BY InvContext
  <2>. HIDE DEF period
  <2>4. LET u == LockTokens(r, toLock, period, block)
        IN  /\ GoodStake(u)
            /\ u.tokensStaked = r.tokensStaked
            /\ u.tokensAllocated = r.tokensAllocated
            /\ u.tokensLocked = r.tokensLocked + toLock
            /\ r.tokensLocked = 0 => u.tokensLockedUntil = block + period
            /\ r.tokensLocked > 0 =>
                  u.tokensLockedUntil >= MathMin(r.tokensLockedUntil, block + period)
            /\ (r.tokensLocked > 0 => r.tokensLockedUntil > block) =>
                  u.tokensLockedUntil > block
    BY <1>3, <1>6, <2>1, <2>3, LockTokensGood
  <2>. QED
    BY <2>2, <2>4 DEF period
<1>. HIDE DEF t
<1>8. Good(m) /\ DifferIn(l, m, {"stakes"}) /\ m.stakes = [l.stakes EXCEPT ![i] = t]
  BY <1>4, <1>7, StakeGood
<1>. HIDE DEF m
<1>9. PoolsRewarded(ledger, m)
  <2>1. DifferIn(ledger, m, {"stakes", "grt"})
    BY <1>4, <1>8 DEF DifferIn, Parts
  <2>. QED
    BY <2>1, PoolsUntouched
<1>10. m.stakes = [ledger.stakes EXCEPT ![i] = t]
  BY <1>2, <1>4, <1>8 DEF Good, OpenLedger
<1>11. ThawingKept(ledger, m)
  <2>. SUFFICES ASSUME NEW j \in Indexers
       PROVE  LET u == ledger.stakes[j]
                  v == m.stakes[j]
              IN  /\ u.tokensLocked > 0 /\ v.tokensLocked > 0 =>
                        v.tokensLockedUntil >= MathMin(u.tokensLockedUntil,
                                                       block + params["thawingPeriod"])
                  /\ v.tokensLocked > u.tokensLocked => v.tokensLockedUntil > block
    BY DEF ThawingKept
  <2>0. ledger.stakes \in [Indexers -> Stake]
    BY <1>2 DEF Good, OpenLedger
  <2>1. /\ ledger.stakes[j].tokensLocked \in Nat
        /\ ledger.stakes[j].tokensLockedUntil \in Nat
        /\ block + params["thawingPeriod"] \in Nat
    BY <2>0, InvContext DEF Stake
  <2>2. CASE j # i
    <3>1. m.stakes[j] = ledger.stakes[j]
      BY <1>10, <2>0, <2>2
    <3>. QED
      BY <2>1, <3>1 DEF MathMin
  <2>3. CASE j = i
    <3>1. m.stakes[j] = t
      BY <1>10, <2>0, <2>3
    <3>2. r.tokensLocked \in Nat
      BY <1>6 DEF GoodStake, Stake
    <3>. QED
      BY <1>6, <1>7, <2>1, <2>3, <3>1, <3>2 DEF MathMin
  <2>. QED
    BY <2>2, <2>3
<1>12. \A j \in Indexers :
          /\ ledger.stakes[j] \in Stake
          /\ m.stakes[j] = IF j = i THEN t ELSE ledger.stakes[j]
  BY <1>2, <1>10 DEF Good, OpenLedger
<1>13. AllocationStep(ledger, m)
  <2>1. DifferIn(ledger, m, {"stakes", "grt"})
    BY <1>4, <1>8 DEF DifferIn, Parts
  <2>2. \A j \in Indexers : m.stakes[j].tokensAllocated = ledger.stakes[j].tokensAllocated
    BY <1>6, <1>7, <1>12
  <2>. QED
    <3>1. SameAllocations(ledger, m)
      BY <2>1, <2>2, AllocationsUntouched
    <3>. QED
      BY <1>8, <3>1, NoMove
<1>14. Surplus(m) = Surplus(ledger)
  <2>1. Surplus(m) = Surplus(l) - (t.tokensStaked - l.stakes[i].tokensStaked)
    <3>1. /\ Good(l) /\ Good(m) /\ DifferIn(l, m, {"stakes"})
          /\ m.stakes = [l.stakes EXCEPT ![i] = t]
      BY <1>4, <1>8
    <3>. QED
      BY <3>1, StakeSurplus
  <2>2. l.stakes[i] = r /\ r.tokensStaked \in Nat /\ Surplus(ledger) \in Int
    BY <1>2, <1>6, OwedSums DEF GoodStake, Stake, r
  <2>. QED
    BY <1>4, <1>7, <2>1, <2>2
<1>15. \A j \in Indexers : SecureKept(ledger, m, j)
  <2>. SUFFICES ASSUME NEW j \in Indexers PROVE SecureKept(ledger, m, j)
    OBVIOUS
  <2>1. CASE j = i
    <3>1. TokensSecureStake(t) = newStake
      <4>1. /\ r.tokensStaked \in Nat /\ r.tokensLocked \in Nat
            /\ s.tokensStaked \in Nat /\ s.tokensLocked \in Nat
        BY <1>2, <1>6 DEF GoodStake, Stake
      <4>. QED
        BY <1>3, <1>6, <1>7, <4>1 DEF TokensSecureStake, newStake
    <3>2. s.tokensStaked - t.tokensStaked = TokensWithdrawable(s, block)
      BY <1>2, <1>6, <1>7 DEF GoodStake, Stake
    <3>. QED
      BY <1>1, <1>12, <2>1, <3>1, <3>2 DEF SecureKept
  <2>2. CASE j # i
    <3>1. /\ TokensSecureStake(ledger.stakes[j]) \in Int
          /\ ledger.stakes[j].tokensStaked \in Int
      BY <1>12 DEF Stake, TokensSecureStake
    <3>. QED
      BY <1>12, <2>2, <3>1 DEF SecureKept
  <2>. QED
    BY <2>1, <2>2
<1>16. ContractsKept(ledger, m)
  BY <1>4, <1>8 DEF ContractsKept, DifferIn, Parts
<1>17. Sound(m)
  BY <1>1, <1>9, <1>11, <1>13, <1>14, <1>16, UnpausedKept DEF Sound, PoolStep
<1>. QED
  BY <1>1, <1>8, <1>15, <1>17, CommittedStep

\* withdraw: only what has thawed leaves.
LEMMA WithdrawStep ==
    ASSUME IInv, NEW i \in Indexers, Withdraw(i)
    PROVE  GoodStep
<1>. DEFINE s == ledger.stakes[i]
            t == WithdrawTokens(s, block)
            m == Withdrawn(ledger, i)
<1>1. Commit(m) /\ TokensWithdrawable(s, block) > 0 /\ NotPaused
  BY DEF Withdraw, CanWithdraw
<1>2. /\ Good(m) /\ DifferIn(ledger, m, {"stakes", "grt"})
      /\ m.stakes = [ledger.stakes EXCEPT ![i] = t]
      /\ NobodyPays(ledger, m) /\ Surplus(m) = Surplus(ledger)
  BY InvContext, WithdrawnGood DEF IInv
<1>. HIDE DEF m
<1>3. /\ t.tokensLocked = 0 /\ s.tokensLocked \in Nat /\ s.tokensStaked \in Nat
      /\ t.tokensStaked = s.tokensStaked - s.tokensLocked
      /\ t.tokensAllocated = s.tokensAllocated
  BY <1>1, InvContext, WithdrawTokensGood DEF IInv, Good, GoodStake, Stake
<1>. HIDE DEF t
<1>4. \A j \in Indexers : /\ ledger.stakes[j].tokensStaked \in Nat
                          /\ ledger.stakes[j].tokensLocked \in Nat
                          /\ ledger.stakes[j].tokensLockedUntil \in Nat
                          /\ m.stakes[j] = IF j = i THEN t ELSE ledger.stakes[j]
  BY <1>2 DEF IInv, Good, OpenLedger, Stake
<1>5. ThawingKept(ledger, m)
  <2>1. block + params["thawingPeriod"] \in Nat
    BY InvContext
  <2>. QED
    BY <1>3, <1>4, <2>1 DEF ThawingKept, MathMin
<1>6. PoolsRewarded(ledger, m)
  BY <1>2, PoolsUntouched
<1>7. PauseKept(ledger, m)
  <2>1. \A j \in Indexers : m.stakes[j].tokensLocked <= ledger.stakes[j].tokensLocked
    BY <1>3, <1>4
  <2>2. \A j \in Indexers, d \in Delegators :
           m.delegations[j][d].shares >= ledger.delegations[j][d].shares
    <3>1. \A j \in Indexers, d \in Delegators : ledger.delegations[j][d].shares \in Nat
      BY DEF IInv, Good, OpenLedger, Delegation
    <3>. QED
      BY <1>6, <3>1 DEF PoolsRewarded
  <2>. QED
    BY <1>1, <1>2, <2>1, <2>2 DEF PauseKept, NotPaused, NobodyPays
<1>8. AllocationStep(ledger, m)
  <2>1. \A j \in Indexers : m.stakes[j].tokensAllocated = ledger.stakes[j].tokensAllocated
    BY <1>3, <1>4
  <2>. QED
    BY <1>2, <2>1, AllocationsUntouched, NoMove
<1>9. \A j \in Indexers : SecureKept(ledger, m, j)
  <2>1. s.tokensStaked - t.tokensStaked = TokensWithdrawable(s, block)
    <3>. DEFINE w == WithdrawTokens(s, block)
                a == TokensWithdrawable(s, block)
    <3>1. GoodStake(s) /\ block \in Nat
      BY InvContext DEF IInv, Good
    <3>2. w.tokensStaked = s.tokensStaked - a /\ a \in 0 .. s.tokensLocked
      BY <3>1, WithdrawTokensGood
    <3>. HIDE DEF w, a
    <3>3. t.tokensStaked = s.tokensStaked - a /\ a \in Int
      BY <1>3, <3>2 DEF t, w
    <3>4. s.tokensStaked - t.tokensStaked = a
      BY <1>3, <3>3
    <3>. QED
      BY <3>4 DEF a
  <2>. QED
    BY <1>3, <1>4, <2>1 DEF SecureKept, TokensSecureStake
<1>10. Sound(m)
  BY <1>2, <1>5, <1>6, <1>7, <1>8 DEF Sound, PoolStep, NobodyPays
<1>. QED
  BY <1>1, <1>2, <1>9, <1>10, CommittedStep

\* A slash keeps the ledger good: what stays locked is still staked.
LEMMA SlashedGood ==
    ASSUME IInv, NEW i \in Indexers, NEW tokens \in Nat, NEW reward \in Nat,
           NEW slasher, NEW beneficiary \in Accounts,
           CanSlash(ledger, slasher, i, tokens, reward)
    PROVE  LET m == Slashed(ledger, i, tokens, reward, beneficiary)
           IN  /\ Good(m) /\ ThawingKept(ledger, m) /\ DifferIn(ledger, m, {"stakes", "grt"})
               /\ Surplus(m) = Surplus(ledger) /\ NobodyPays(ledger, m)
               /\ m.stakes[i].tokensStaked = ledger.stakes[i].tokensStaked - tokens
               /\ \A j \in Indexers :
                     /\ m.stakes[j].tokensAllocated = ledger.stakes[j].tokensAllocated
                     /\ j # i => m.stakes[j] = ledger.stakes[j]
<1>. DEFINE s == ledger.stakes[i]
            t == Release(UnlockedForSlash(s, tokens), tokens)
            l == [ledger EXCEPT !.stakes[i] = t]
            n == Gone(l, tokens - reward)
            m == Push(n, beneficiary, reward)
<1>1. tokens <= s.tokensStaked
  BY DEF CanSlash
<1>2. Good(ledger) /\ GoodStake(s) /\ ledger.stakes \in [Indexers -> Stake]
  BY DEF IInv, Good, OpenLedger
<1>3. /\ GoodStake(t)
      /\ t.tokensStaked = s.tokensStaked - tokens /\ t.tokensAllocated = s.tokensAllocated
      /\ t.tokensLocked <= s.tokensLocked
      /\ t.tokensLocked > 0 => t.tokensLockedUntil = s.tokensLockedUntil
  BY <1>1, <1>2, SlashGood
<1>a. m = Slashed(ledger, i, tokens, reward, beneficiary)
  BY DEF Slashed
<1>. HIDE DEF t
<1>4. Good(l) /\ l.stakes = [ledger.stakes EXCEPT ![i] = t] /\ DifferIn(ledger, l, {"stakes"})
  BY <1>2, <1>3, StakeGood
<1>. HIDE DEF l
<1>5. Good(n) /\ DifferIn(l, n, {"grt"})
  BY <1>4, MintedGoneGood
<1>. HIDE DEF n
<1>6. Good(m) /\ DifferIn(n, m, {"grt"})
  BY <1>5, PullPushGood
<1>. HIDE DEF m
<1>7. m.stakes = [ledger.stakes EXCEPT ![i] = t] /\ DifferIn(ledger, m, {"stakes", "grt"})
  BY <1>4, <1>5, <1>6 DEF DifferIn, Parts
<1>8. ThawingKept(ledger, m)
  <2>0. block + params["thawingPeriod"] \in Nat
    BY InvContext
  <2>1. \A j \in Indexers :
           /\ ledger.stakes[j].tokensLocked \in Nat
           /\ ledger.stakes[j].tokensLockedUntil \in Nat
           /\ m.stakes[j] = IF j = i THEN t ELSE ledger.stakes[j]
    BY <1>2, <1>7 DEF Stake
  <2>2. t.tokensLocked \in Nat
    BY <1>3 DEF GoodStake, Stake
  <2>. QED
    BY <1>3, <2>0, <2>1, <2>2 DEF ThawingKept, MathMin
<1>9. Surplus(m) = Surplus(ledger)
  <2>1. Surplus(l) = Surplus(ledger) - (t.tokensStaked - ledger.stakes[i].tokensStaked)
    BY <1>2, <1>4, StakeSurplus
  <2>2. Surplus(n) = Surplus(l) - (tokens - reward)
    BY <1>4, MintedGoneMoves DEF n
  <2>3. Surplus(m) = Surplus(n) - reward
    BY <1>5, PullPushMoves DEF m
  <2>4. Surplus(ledger) \in Int /\ s.tokensStaked \in Nat
    BY <1>2, OwedSums DEF GoodStake, Stake
  <2>5. Surplus(l) = Surplus(ledger) + tokens
    BY <1>3, <2>1, <2>4
  <2>. QED
    BY <2>2, <2>3, <2>4, <2>5
<1>10. NobodyPays(ledger, m)
  <2>1. NobodyPays(ledger, l)
    <3>1. l.grt = ledger.grt
      BY <1>4 DEF DifferIn, Parts
    <3>. QED
      BY <1>2, <3>1, SameGrt
  <2>2. NobodyPays(l, n)
    BY <1>4, MintedGoneMoves DEF n
  <2>3. NobodyPays(n, m)
    BY <1>5, PullPushMoves DEF m
  <2>4. NobodyPays(ledger, n)
    BY <1>2, <1>4, <1>5, <2>1, <2>2, NobodyPaysTransitive
  <2>. QED
    BY <1>2, <1>5, <1>6, <2>3, <2>4, NobodyPaysTransitive
<1>11. m.stakes[i].tokensStaked = ledger.stakes[i].tokensStaked - tokens
  BY <1>2, <1>3, <1>7
<1>12. \A j \in Indexers : /\ m.stakes[j].tokensAllocated = ledger.stakes[j].tokensAllocated
                           /\ j # i => m.stakes[j] = ledger.stakes[j]
  BY <1>2, <1>3, <1>7
<1>. QED
  BY <1>a, <1>6, <1>7, <1>8, <1>9, <1>10, <1>11, <1>12

\* slash
LEMMA SlashedStep ==
    ASSUME IInv, NEW i \in Indexers, NEW tokens \in StakeAmounts \cup {0},
           NEW reward \in StakeAmounts \cup {0},
           NEW slasher \in Accounts, NEW beneficiary \in Accounts,
           Slash(slasher, i, tokens, reward, beneficiary)
    PROVE  GoodStep
<1>. DEFINE m == Slashed(ledger, i, tokens, reward, beneficiary)
<1>1. /\ CanSlash(ledger, slasher, i, tokens, reward) /\ Commit(m)
      /\ tokens \in Nat /\ reward \in Nat
  BY InputAssumption DEF Slash
<1>2. /\ Good(m) /\ ThawingKept(ledger, m) /\ DifferIn(ledger, m, {"stakes", "grt"})
      /\ Surplus(m) = Surplus(ledger) /\ ContractsKept(ledger, m)
      /\ \A j \in Indexers :
            /\ m.stakes[j].tokensAllocated = ledger.stakes[j].tokensAllocated
            /\ j # i => m.stakes[j] = ledger.stakes[j]
  BY <1>1, SlashedGood DEF NobodyPays
<1>. HIDE DEF m
<1>3. PoolsRewarded(ledger, m)
  BY <1>2, PoolsUntouched
<1>4. AllocationStep(ledger, m)
  BY <1>2, AllocationsUntouched, NoMove
<1>5. \A j \in Indexers : SecureKept(ledger, m, j) \/ SlashStep(j)
  <2>1. SlashStep(i)
    BY DEF SlashStep
  <2>2. \A j \in Indexers : /\ TokensSecureStake(ledger.stakes[j]) \in Int
                            /\ ledger.stakes[j].tokensStaked \in Int
    BY DEF IInv, Good, GoodStake, Stake, TokensSecureStake
  <2>. QED
    BY <1>2, <2>1, <2>2 DEF SecureKept
<1>6. Sound(m)
  <2>1. PauseKept(ledger, m)
    BY <1>1, UnpausedKept DEF CanSlash
  <2>. QED
    BY <1>2, <1>3, <1>4, <2>1 DEF Sound, PoolStep
<1>. QED
  BY <1>1, <1>2, <1>5, <1>6, CommittedStep

\* New cuts and a new cooldown: the pool's tokens and shares stay.
LEMMA SetDelegationParametersStep ==
    ASSUME IInv, NEW i \in Indexers, NEW r \in Nat, NEW q \in Nat, NEW c \in Nat,
           SetDelegationParameters(i, r, q, c)
    PROVE  GoodStep
<1>. DEFINE pool == ledger.delegationPools[i]
            p == [pool EXCEPT !.indexingRewardCut = r, !.queryFeeCut = q,
                              !.cooldownBlocks = c, !.updatedAtBlock = block]
            m == [ledger EXCEPT !.delegationPools[i] = p]
<1>1. Commit(m) /\ r <= MAX_PPM /\ q <= MAX_PPM
  BY DEF SetDelegationParameters
<1>2. Good(ledger) /\ pool \in DelegationPool /\ block \in Nat
  BY InvContext DEF IInv, Good, OpenLedger
<1>3. p \in DelegationPool /\ p.tokens = pool.tokens /\ p.shares = pool.shares
  <2>1. r \in 0 .. MAX_PPM /\ q \in 0 .. MAX_PPM
    BY <1>1, MaxPPM
  <2>. HIDE DEF pool
  <2>. QED
    BY <1>2, <2>1 DEF DelegationPool
<1>. HIDE DEF p
<1>4. /\ Good(m) /\ m.delegationPools = [ledger.delegationPools EXCEPT ![i] = p]
      /\ DifferIn(ledger, m, {"delegationPools"})
  BY <1>2, <1>3, PoolGood
<1>. HIDE DEF m
<1>5. PoolsRewarded(ledger, m)
  BY <1>2, <1>3, <1>4 DEF PoolsRewarded, DifferIn, Parts, Good, OpenLedger
<1>6. SameUse(ledger, m) /\ StakesGrow(ledger, m)
  <2>1. m.stakes = ledger.stakes
    BY <1>4 DEF DifferIn, Parts
  <2>. QED
    BY <1>2, <1>4, <2>1, StakesUntouched, SameStakes
<1>7. PauseKept(ledger, m)
  <2>1. m.allocations = ledger.allocations
    BY <1>4 DEF DifferIn, Parts
  <2>. QED
    BY <1>2, <1>4, <1>5, <1>6, <2>1, NothingPaidKept DEF SameUse, DifferIn, Parts
<1>8. AllocationStep(ledger, m)
  BY <1>4, <1>6, AllocationsUntouched, NoMove DEF SameUse
<1>9. Surplus(m) = Surplus(ledger)
  <2>1. Surplus(m) = Surplus(ledger) - (p.tokens - pool.tokens)
    BY <1>2, <1>4, PoolSurplus
  <2>2. p.tokens - pool.tokens = 0 /\ Surplus(ledger) \in Int
    BY <1>2, <1>3, OwedSums DEF DelegationPool
  <2>. QED
    BY <2>1, <2>2
<1>10. ContractsKept(ledger, m)
  BY <1>4 DEF ContractsKept, DifferIn, Parts
<1>. QED
  BY <1>1, <1>4, <1>5, <1>6, <1>7, <1>8, <1>9, <1>10, RewardedStep DEF SameUse

\* delegate
LEMMA DelegateStep ==
    ASSUME IInv, NEW d \in Delegators, NEW i \in Indexers, NEW tokens \in Nat,
           Delegate(d, i, tokens)
    PROVE  GoodStep
<1>. DEFINE l == Pull(ledger, d, tokens)
            amount == tokens - Portion(params["delegationTaxPercentage"], tokens)
            m == Delegated(l, d, i, tokens)
<1>1. /\ Commit(m) /\ SharesFor(ledger.delegationPools[i], amount) > 0
      /\ NotPartialPaused
  BY DEF Delegate, CanDelegate
<1>2. /\ Good(l) /\ DifferIn(ledger, l, {"grt"})
      /\ Surplus(l) = Surplus(ledger) + tokens /\ Surplus(ledger) \in Int
      /\ ContractsKept(ledger, l)
  <2>1. Good(ledger) /\ d \in Accounts /\ tokens \in Int
    BY AddressAssumption DEF IInv
  <2>2. Good(l) /\ DifferIn(ledger, l, {"grt"})
    BY <2>1, PullPushGood
  <2>3. Surplus(l) = Surplus(ledger) + tokens /\ ContractsKept(ledger, l)
    BY <2>1, PullPushMoves
  <2>. QED
    BY <2>1, <2>2, <2>3, OwedSums
<1>. HIDE DEF l
<1>3. /\ amount \in Nat /\ Good(m) /\ EntersPool(l, m, i, d, amount)
      /\ DifferIn(l, m, {"delegationPools", "delegations", "grt"})
      /\ Surplus(m) = Surplus(l) - tokens /\ ContractsKept(l, m)
  BY <1>2, InvContext, DelegatedGood DEF NobodyPays
<1>. HIDE DEF m, amount
<1>4. EntersPool(ledger, m, i, d, amount)
  BY <1>2, <1>3 DEF EntersPool, DifferIn, Parts
<1>5. Surplus(m) = Surplus(ledger)
  BY <1>2, <1>3
<1>6. PauseKept(ledger, m)
  BY <1>1, UnpausedKept
<1>7. PoolStep(ledger, m)
  BY <1>1, <1>3, <1>4 DEF PoolStep
<1>8. DifferIn(ledger, m, {"delegationPools", "delegations", "grt"})
  BY <1>2, <1>3 DEF DifferIn, Parts
<1>9. ContractsKept(ledger, m)
  BY <1>2, <1>3 DEF ContractsKept
<1>. QED
  BY <1>1, <1>3, <1>5, <1>6, <1>7, <1>8, <1>9, DelegatorStep

\* Undelegating: what has thawed is paid, the shares become locked tokens.
LEMMA UndelegateStep ==
    ASSUME IInv, NEW d \in Delegators, NEW i \in Indexers, NEW shares \in Nat,
           Undelegate(d, i, shares)
    PROVE  GoodStep
<1>. DEFINE g == ledger.delegations[i][d]
            l == IF WithdrawableDelegated(g) > 0 THEN DelegationPaid(ledger, d, i) ELSE ledger
            h == l.delegations[i][d]
            pool == ledger.delegationPools[i]
            until == epoch + params["delegationUnbondingPeriod"]
            k == DelegationLeave(h, shares, TokensFor(pool, shares), until)
            n == [l EXCEPT !.delegationPools[i] = PoolLeave(pool, shares)]
            m == [n EXCEPT !.delegations[i][d] = k]
            tokens == TokensFor(pool, shares)
<1>1. Good(ledger) /\ pool \in DelegationPool /\ g \in Delegation /\ until \in Nat
  BY InvContext DEF IInv, Good, OpenLedger
<1>2. shares \in 1 .. pool.shares /\ shares \in 0 .. g.shares
  BY <1>1 DEF Undelegate, DelegationPool, Delegation
<1>3. /\ Good(l) /\ DifferIn(ledger, l, {"delegations", "grt"})
      /\ l.delegations = ledger.delegations
         \/ l.delegations = [ledger.delegations EXCEPT ![i] =
                                [@ EXCEPT ![d] = DelegationUnlock(g)]]
      /\ Surplus(l) = Surplus(ledger) /\ ContractsKept(ledger, l)
  <2>1. CASE WithdrawableDelegated(g) > 0
    BY <1>1, <2>1, InvContext, DelegationPaidGood DEF NobodyPays
  <2>2. CASE ~(WithdrawableDelegated(g) > 0)
    BY <1>1, <2>2 DEF DifferIn, ContractsKept
  <2>. QED
    BY <2>1, <2>2
<1>4. l.delegationPools = ledger.delegationPools
  BY <1>3 DEF DifferIn, Parts
<1>5. Commit(m) /\ NotPartialPaused
  <2>1. n.delegations = l.delegations
    BY <1>3 DEF Good, OpenLedger
  <2>. QED
    BY <1>4, <2>1 DEF Undelegate
<1>. HIDE DEF l
<1>6. \A j \in Indexers, e \in Delegators :
         /\ l.delegations[j][e] \in Delegation
         /\ l.delegations[j][e].shares = ledger.delegations[j][e].shares
  <2>1. ledger.delegations \in [Indexers -> [Delegators -> Delegation]]
    BY <1>1 DEF Good, OpenLedger
  <2>2. DelegationUnlock(g) \in Delegation /\ DelegationUnlock(g).shares = g.shares
    BY <1>1 DEF DelegationUnlock, Delegation
  <2>. QED
    BY <1>3, <2>1, <2>2
<1>7. h \in Delegation /\ h.shares = g.shares
  BY <1>6
<1>. HIDE DEF h, until
<1>8. tokens \in Nat
  BY <1>1, <1>2, TokensForBounds DEF DelegationPool
<1>9. /\ k \in Delegation /\ k.shares = g.shares - shares
      /\ k.tokensLocked = h.tokensLocked + tokens
  BY <1>1, <1>2, <1>7, <1>8, DelegationLeaveIs
<1>. HIDE DEF k
<1>10. /\ Good(n) /\ DifferIn(l, n, {"delegationPools"})
       /\ n.delegationPools = [l.delegationPools EXCEPT ![i] = PoolLeave(pool, shares)]
       /\ PoolLeave(pool, shares).tokens = pool.tokens - tokens
  BY <1>1, <1>2, <1>3, PoolLeaveIs, PoolGood
<1>. HIDE DEF n
<1>11. /\ Good(m) /\ DifferIn(n, m, {"delegations"})
       /\ m.delegations = [n.delegations EXCEPT ![i] = [@ EXCEPT ![d] = k]]
  BY <1>9, <1>10, DelegationGood
<1>. HIDE DEF m
<1>12. LeavesPool(ledger, m, i, d, shares)
  <2>1. m.delegationPools = [ledger.delegationPools EXCEPT ![i] = PoolLeave(pool, shares)]
    BY <1>4, <1>10, <1>11 DEF DifferIn, Parts
  <2>2. m.delegations = [l.delegations EXCEPT ![i] = [@ EXCEPT ![d] = k]]
    BY <1>10, <1>11 DEF DifferIn, Parts
  <2>3. l.delegations \in [Indexers -> [Delegators -> Delegation]]
    BY <1>3 DEF Good, OpenLedger
  <2>4. \A j \in Indexers, e \in Delegators :
           m.delegations[j][e] = IF j = i /\ e = d THEN k ELSE l.delegations[j][e]
    BY <2>2, <2>3
  <2>. QED
    BY <1>2, <1>6, <1>9, <2>1, <2>4 DEF LeavesPool
<1>13. Surplus(m) = Surplus(ledger)
  <2>1. Surplus(n) = Surplus(l) - (PoolLeave(pool, shares).tokens - l.delegationPools[i].tokens)
    BY <1>3, <1>10, PoolSurplus
  <2>2. Surplus(m) = Surplus(n) - (k.tokensLocked - n.delegations[i][d].tokensLocked)
    BY <1>10, <1>11, DelegationSurplus
  <2>3. n.delegations[i][d] = h
    BY <1>10 DEF DifferIn, Parts, h
  <2>4. /\ l.delegationPools[i] = pool /\ pool.tokens \in Nat /\ h.tokensLocked \in Nat
        /\ Surplus(ledger) \in Int
    BY <1>1, <1>4, <1>7, OwedSums DEF DelegationPool, Delegation
  <2>. HIDE DEF pool, tokens
  <2>5. Surplus(n) = Surplus(ledger) + tokens
    BY <1>3, <1>8, <1>10, <2>1, <2>4
  <2>. QED
    BY <1>8, <1>9, <2>2, <2>3, <2>4, <2>5
<1>14. DifferIn(ledger, m, {"delegationPools", "delegations", "grt"})
  BY <1>3, <1>10, <1>11 DEF DifferIn, Parts
<1>15. PoolStep(ledger, m)
  BY <1>2, <1>12 DEF PoolStep
<1>16. ContractsKept(ledger, m)
  BY <1>3, <1>10, <1>11 DEF ContractsKept, DifferIn, Parts
<1>. QED
  BY <1>5, <1>11, <1>13, <1>14, <1>15, <1>16, UnpausedKept, DelegatorStep

\* A withdrawal to another pool is an entry into that pool, and otherwise no
\* pool changes; the locked tokens it takes are in no pool.
LEMMA WithdrawDelegatedStep ==
    ASSUME IInv, NEW d \in Delegators, NEW i \in Indexers, NEW to \in Indexers \cup {NoAddress},
           WithdrawDelegated(d, i, to)
    PROVE  GoodStep
<1>. DEFINE g == ledger.delegations[i][d]
            tokens == WithdrawableDelegated(g)
<1>1. Good(ledger) /\ ledger.delegations \in [Indexers -> [Delegators -> Delegation]]
  BY DEF IInv, Good, OpenLedger
<1>2. /\ g \in Delegation /\ tokens \in Nat /\ tokens > 0 /\ NotPaused
      /\ tokens = g.tokensLocked
  BY <1>1 DEF WithdrawDelegated, WithdrawableDelegated, Delegation
<1>3. CASE to = NoAddress
  <2>. DEFINE m == DelegationPaid(ledger, d, i)
  <2>1. Commit(m)
    BY <1>3 DEF WithdrawDelegated
  <2>2. /\ Good(m) /\ DifferIn(ledger, m, {"delegations", "grt"})
        /\ m.delegations = [ledger.delegations EXCEPT ![i] =
                              [@ EXCEPT ![d] = DelegationUnlock(g)]]
        /\ NobodyPays(ledger, m) /\ Surplus(m) = Surplus(ledger)
    BY <1>1, <1>2, InvContext, DelegationPaidGood
  <2>. HIDE DEF m
  <2>3. SameThawing(ledger, m)
    BY <2>2, StakesUntouched DEF SameUse
  <2>4. PoolsRewarded(ledger, m)
    <3>1. m.delegationPools = ledger.delegationPools
      BY <2>2 DEF DifferIn, Parts
    <3>2. \A j \in Indexers, e \in Delegators :
             m.delegations[j][e].shares = ledger.delegations[j][e].shares
      <4>1. DelegationUnlock(g).shares = g.shares
        BY <1>2 DEF DelegationUnlock, Delegation
      <4>. QED
        BY <1>1, <2>2, <4>1
    <3>. QED
      BY <3>1, <3>2 DEF PoolsRewarded
  <2>5. PauseKept(ledger, m)
    BY <1>2, <2>2, <2>3, <2>4, NotPausedKept
  <2>6. DifferIn(ledger, m, {"delegationPools", "delegations", "grt"})
    BY <2>2 DEF DifferIn, Parts
  <2>. QED
    BY <2>1, <2>2, <2>4, <2>5, <2>6, DelegatorStep DEF PoolStep, NobodyPays
<1>4. CASE to # NoAddress
  <2>. DEFINE l == Unlocked(ledger, d, i)
              m == Delegated(l, d, to, tokens)
              amount == tokens - Portion(params["delegationTaxPercentage"], tokens)
  <2>1. Commit(m) /\ SharesFor(ledger.delegationPools[to], amount) > 0 /\ to \in Indexers
    BY <1>4 DEF WithdrawDelegated, CanDelegate
  <2>2. /\ Good(l) /\ DifferIn(ledger, l, {"delegations"})
        /\ Surplus(l) = Surplus(ledger) + ledger.delegations[i][d].tokensLocked
    <3>1. Good(ledger) /\ i \in Indexers /\ d \in Delegators
      BY <1>1
    <3>2. Good(l) /\ DifferIn(ledger, l, {"delegations"})
      BY <3>1, UnlockedGood
    <3>3. Surplus(l) = Surplus(ledger) + ledger.delegations[i][d].tokensLocked
      BY <3>1, UnlockedSurplus
    <3>. QED
      BY <3>2, <3>3
  <2>. HIDE DEF l
  <2>3. /\ amount \in Nat /\ Good(m) /\ EntersPool(l, m, to, d, amount)
        /\ DifferIn(l, m, {"delegationPools", "delegations", "grt"})
        /\ NobodyPays(l, m) /\ Surplus(m) = Surplus(l) - tokens
    BY <1>2, <2>1, <2>2, InvContext, DelegatedGood
  <2>. HIDE DEF m, amount, tokens
  <2>4. ledger.delegationPools = l.delegationPools
    BY <2>2 DEF DifferIn, Parts
  <2>5. \A j \in Indexers, e \in Delegators :
           l.delegations[j][e].shares = ledger.delegations[j][e].shares
    <3>1. DelegationUnlock(g).shares = g.shares
      BY <1>2 DEF DelegationUnlock, Delegation
    <3>2. l.delegations = [ledger.delegations EXCEPT ![i] =
                             [@ EXCEPT ![d] = DelegationUnlock(g)]]
      BY <1>1, UnlockedGood DEF l
    <3>. QED
      BY <1>1, <3>1, <3>2
  <2>6. EntersPool(ledger, m, to, d, amount)
    BY <2>1, <2>3, <2>4, <2>5 DEF EntersPool
  <2>7. DifferIn(ledger, m, {"delegationPools", "delegations", "grt"})
    BY <2>2, <2>3 DEF DifferIn, Parts
  <2>8. PoolStep(ledger, m)
    BY <2>1, <2>3, <2>6 DEF PoolStep
  <2>9. Surplus(m) = Surplus(ledger)
    BY <1>1, <1>2, <2>2, <2>3, OwedSums
  <2>10. NobodyPays(ledger, m)
    BY <2>2, <2>3 DEF DifferIn, Parts, NobodyPays, ContractsKept
  <2>11. PauseKept(ledger, m)
    <3>1. m.stakes = ledger.stakes
      BY <2>7 DEF DifferIn, Parts
    <3>2. \A j \in Indexers : m.stakes[j].tokensLocked <= ledger.stakes[j].tokensLocked
      BY <1>1, <3>1 DEF Good, GoodStake, Stake
    <3>3. \A j \in Indexers, e \in Delegators :
             m.delegations[j][e].shares >= ledger.delegations[j][e].shares
      <4>1. SharesFor(ledger.delegationPools[to], amount) \in Nat
        BY <1>1, <2>1, <2>3, SharesForNat DEF Good, OpenLedger
      <4>2. \A j \in Indexers, e \in Delegators : ledger.delegations[j][e].shares \in Nat
        BY <1>1 DEF Delegation
      <4>. QED
        BY <2>6, <4>1, <4>2 DEF EntersPool
    <3>. QED
      BY <1>2, <2>10, <3>2, <3>3 DEF PauseKept, NotPaused, NobodyPays
  <2>. QED
    BY <2>1, <2>3, <2>7, <2>8, <2>9, <2>10, <2>11, DelegatorStep DEF NobodyPays
<1>. QED
  BY <1>3, <1>4

\* Locks that are untouched twice are untouched.
LEMMA SameThawingTransitive ==
    ASSUME NEW l, NEW m, NEW n, SameThawing(l, m), SameThawing(m, n)
    PROVE  SameThawing(l, n)
BY DEF SameThawing

\* A transaction is one call of _allocate, _closeAllocation or _claim,
LEMMA OneCallStep ==
    ASSUME IInv, NotPaused, NEW m, Commit(m), AllocationCall(ledger, m)
    PROVE  GoodStep
<1>1. PauseKept(ledger, m)
  BY NotPausedKept DEF AllocationCall
<1>2. AllocationStep(ledger, m)
  BY OneMove DEF AllocationCall
<1>. QED
  BY <1>1, <1>2, RewardedStep DEF AllocationCall, NobodyPays

\* or two of them.
LEMMA TwoCallsStep ==
    ASSUME IInv, NotPaused, NEW l, NEW m, Commit(m),
           AllocationCall(ledger, l), AllocationCall(l, m)
    PROVE  GoodStep
<1>1. Good(ledger) /\ Good(l) /\ Good(m)
  BY DEF IInv, AllocationCall
<1>2. /\ PoolsRewarded(ledger, l) /\ PoolsRewarded(l, m)
      /\ SameThawing(ledger, l) /\ SameThawing(l, m)
      /\ StakesGrow(ledger, l) /\ StakesGrow(l, m)
      /\ NobodyPays(ledger, l) /\ NobodyPays(l, m)
  BY DEF AllocationCall
<1>3. PoolsRewarded(ledger, m)
  BY <1>1, <1>2, PoolsRewardedTransitive
<1>4. SameThawing(ledger, m)
  BY <1>2, SameThawingTransitive
<1>5. StakesGrow(ledger, m)
  BY <1>1, <1>2, StakesGrowTransitive
<1>6. NobodyPays(ledger, m)
  BY <1>1, <1>2, NobodyPaysTransitive
<1>7. PauseKept(ledger, m)
  BY <1>3, <1>4, <1>6, NotPausedKept
<1>8. AllocationStep(ledger, m) /\ Surplus(m) = Surplus(ledger)
  BY DEF AllocationStep, AllocationCall
<1>. QED
  BY <1>1, <1>3, <1>4, <1>5, <1>6, <1>7, <1>8, RewardedStep DEF NobodyPays

\* allocate
LEMMA AllocateStep ==
    ASSUME IInv, NEW sender, NEW i \in Indexers, NEW s \in Subgraphs, NEW tokens \in Nat,
           NEW id \in AllocationIDs, Allocate(sender, i, s, tokens, id)
    PROVE  GoodStep
<1>. DEFINE m == Allocated(ledger, i, s, tokens, id)
<1>1. NotPaused /\ CanAllocate(ledger, sender, i, tokens, id) /\ Commit(m)
  BY DEF Allocate
<1>2. AllocationCall(ledger, m)
  BY <1>1, InvContext, AllocatedCall DEF IInv
<1>. QED
  BY <1>1, <1>2, OneCallStep

\* Rewards are whole numbers.
LEMMA RewardsForNat ==
    ASSUME NEW l, NEW sender, NEW id, NEW rewards \in RewardsFor(l, sender, id)
    PROVE  rewards \in Nat
BY InputAssumption DEF RewardsFor

\* closeAllocation
LEMMA CloseAllocationStep ==
    ASSUME IInv, NEW sender, NEW id \in AllocationIDs, CloseAllocation(sender, id)
    PROVE  GoodStep
<1>1. PICK rewards \in RewardsFor(ledger, sender, id) : Commit(Closed(ledger, id, rewards))
  BY DEF CloseAllocation
<1>2. NotPaused /\ rewards \in Nat /\ CanClose(ledger, sender, id)
  BY RewardsForNat DEF CloseAllocation
<1>3. AllocationCall(ledger, Closed(ledger, id, rewards))
  BY <1>2, InvContext, ClosedCall DEF IInv
<1>. QED
  BY <1>1, <1>2, <1>3, OneCallStep

\* closeAllocationMany of two, which may be of different indexers.
LEMMA CloseAllocationManyStep ==
    ASSUME IInv, NEW sender, NEW id1 \in AllocationIDs, NEW id2 \in AllocationIDs,
           CloseAllocationMany(sender, id1, id2)
    PROVE  GoodStep
<1>1. PICK r1 \in RewardsFor(ledger, sender, id1) :
         LET l == Closed(ledger, id1, r1)
         IN  /\ CanClose(l, sender, id2)
             /\ \E r2 \in RewardsFor(l, sender, id2) : Commit(Closed(l, id2, r2))
  BY DEF CloseAllocationMany
<1>. DEFINE l == Closed(ledger, id1, r1)
<1>2. PICK r2 \in RewardsFor(l, sender, id2) : Commit(Closed(l, id2, r2))
  BY <1>1
<1>3. NotPaused /\ r1 \in Nat /\ CanClose(ledger, sender, id1)
  BY RewardsForNat DEF CloseAllocationMany
<1>4. AllocationCall(ledger, l)
  BY <1>3, InvContext, ClosedCall DEF IInv
<1>5. CanClose(l, sender, id2) /\ r2 \in Nat
  BY <1>1, <1>2, RewardsForNat
<1>. HIDE DEF l
<1>6. AllocationCall(l, Closed(l, id2, r2))
  BY <1>4, <1>5, InvContext, ClosedCall DEF AllocationCall
<1>. QED
  BY <1>2, <1>3, <1>4, <1>6, TwoCallsStep

\* closeAndAllocate
LEMMA CloseAndAllocateStep ==
    ASSUME IInv, NEW sender, NEW closing \in AllocationIDs, NEW i \in Indexers,
           NEW s \in Subgraphs, NEW tokens \in Nat, NEW id \in AllocationIDs,
           CloseAndAllocate(sender, closing, i, s, tokens, id)
    PROVE  GoodStep
<1>1. PICK rewards \in RewardsFor(ledger, sender, closing) :
         LET l == Closed(ledger, closing, rewards)
         IN  /\ CanAllocate(l, sender, i, tokens, id)
             /\ Commit(Allocated(l, i, s, tokens, id))
  BY DEF CloseAndAllocate
<1>. DEFINE l == Closed(ledger, closing, rewards)
<1>2. NotPaused /\ rewards \in Nat /\ CanClose(ledger, sender, closing)
  BY RewardsForNat DEF CloseAndAllocate
<1>3. AllocationCall(ledger, l)
  BY <1>2, InvContext, ClosedCall DEF IInv
<1>4. CanAllocate(l, sender, i, tokens, id) /\ Commit(Allocated(l, i, s, tokens, id))
  BY <1>1
<1>. HIDE DEF l
<1>5. AllocationCall(l, Allocated(l, i, s, tokens, id))
  BY <1>3, <1>4, InvContext, AllocatedCall DEF AllocationCall
<1>. QED
  BY <1>2, <1>3, <1>4, <1>5, TwoCallsStep

\* claim
LEMMA ClaimStep ==
    ASSUME IInv, NEW sender, NEW id \in AllocationIDs, NEW restake, Claim(sender, id, restake)
    PROVE  GoodStep
<1>1. PICK rebate \in RebatesFor(ledger, id) :
         Commit(Claimed(ledger, sender, id, rebate, restake))
  BY DEF Claim
<1>2. NotPaused /\ CanClaim(ledger, id)
  BY DEF Claim
<1>3. AllocationCall(ledger, Claimed(ledger, sender, id, rebate, restake))
  BY <1>2, InvContext, ClaimedCall DEF IInv
<1>. QED
  BY <1>1, <1>2, <1>3, OneCallStep

\* claimMany of two.
LEMMA ClaimManyStep ==
    ASSUME IInv, NEW sender, NEW id1 \in AllocationIDs, NEW id2 \in AllocationIDs,
           NEW restake, ClaimMany(sender, id1, id2, restake)
    PROVE  GoodStep
<1>1. PICK r1 \in RebatesFor(ledger, id1) :
         LET l == Claimed(ledger, sender, id1, r1, restake)
         IN  /\ CanClaim(l, id2)
             /\ \E r2 \in RebatesFor(l, id2) : Commit(Claimed(l, sender, id2, r2, restake))
  BY DEF ClaimMany
<1>. DEFINE l == Claimed(ledger, sender, id1, r1, restake)
<1>2. PICK r2 \in RebatesFor(l, id2) : Commit(Claimed(l, sender, id2, r2, restake))
  BY <1>1
<1>3. NotPaused /\ CanClaim(ledger, id1) /\ CanClaim(l, id2)
  BY <1>1 DEF ClaimMany
<1>4. AllocationCall(ledger, l)
  BY <1>3, InvContext, ClaimedCall DEF IInv
<1>. HIDE DEF l
<1>5. AllocationCall(l, Claimed(l, sender, id2, r2, restake))
  BY <1>3, <1>4, InvContext, ClaimedCall DEF AllocationCall
<1>. QED
  BY <1>2, <1>3, <1>4, <1>5, TwoCallsStep

\* Fees put on an allocation of l (the ledger o) and then in the pool it closed into (q).
FeesBooked(l, o, q, id, fees) ==
    /\ DifferIn(l, o, {"allocations"})
    /\ o.allocations = [l.allocations EXCEPT ![id] =
          [l.allocations[id] EXCEPT !.collectedFees = l.allocations[id].collectedFees + fees]]
    /\ DifferIn(o, q, {"rebates"})
    /\ LET e == l.allocations[id].closedAtEpoch
       IN  q.rebates = [o.rebates EXCEPT ![e] = [o.rebates[e] EXCEPT !.fees =
                                                    o.rebates[e].fees + fees]]

\* Fees in the rebate pool of a closed allocation are owed as they were to the open one.
LEMMA CollectionSurplus ==
    ASSUME NEW l, Good(l), NEW id \in AllocationIDs, NEW fees \in Nat, NEW o, NEW q,
           Good(o), Good(q), FeesBooked(l, o, q, id, fees)
    PROVE  /\ StateOf(l, id) = "Active" => Surplus(o) = Surplus(l) - fees
           /\ StateOf(l, id) # "Active" => Surplus(o) = Surplus(l)
           /\ StateOf(l, id) = "Closed" => Surplus(q) = Surplus(l) - fees
<1>. DEFINE alloc == l.allocations[id]
            a == [alloc EXCEPT !.collectedFees = alloc.collectedFees + fees]
            Fees(x) == IF IsActive(x) THEN x.collectedFees ELSE 0
            e == alloc.closedAtEpoch
            p == o.rebates[e]
            r == [p EXCEPT !.fees = p.fees + fees]
<1>1. alloc \in Allocation /\ alloc.collectedFees \in Nat /\ e \in Epochs
  BY DEF Good, OpenLedger, Allocation
<1>2. /\ IsActive(alloc) <=> StateOf(l, id) = "Active"
      /\ IsActive(a) <=> IsActive(alloc)
      /\ a.collectedFees = alloc.collectedFees + fees
  BY <1>1 DEF IsActive, StateOf, AllocationState, Allocation
<1>3. p \in Pool /\ p.fees \in Nat /\ p.claimedRewards \in Nat
  BY <1>1 DEF Good, OpenLedger, Pool
<1>4. r.fees = p.fees + fees /\ r.claimedRewards = p.claimedRewards
  BY <1>3 DEF Pool
<1>5. /\ DifferIn(l, o, {"allocations"}) /\ o.allocations = [l.allocations EXCEPT ![id] = a]
      /\ DifferIn(o, q, {"rebates"}) /\ q.rebates = [o.rebates EXCEPT ![e] = r]
  BY DEF FeesBooked
<1>. HIDE DEF a, r, p, e
<1>6. Surplus(o) = Surplus(l) - (Fees(a) - Fees(alloc))
  BY <1>5, AllocationSurplus
<1>7. Surplus(q) = Surplus(o) - (UnclaimedFees(r) - UnclaimedFees(p))
  BY <1>1, <1>5, RebatesSurplus DEF p
<1>8. Surplus(q) = Surplus(o) - fees
  BY <1>3, <1>4, <1>7, OwedSums DEF UnclaimedFees
<1>. HIDE DEF alloc
<1>9. /\ StateOf(l, id) = "Active" => Surplus(o) = Surplus(l) - fees
      /\ StateOf(l, id) # "Active" => Surplus(o) = Surplus(l)
  BY <1>1, <1>2, <1>6, OwedSums
<1>. QED
  BY <1>8, <1>9

\* collect: the fees go to the allocation, and to its pool once it is closed.
LEMMA CollectStep ==
    ASSUME IInv, NEW holder \in Accounts, NEW tokens \in Nat, NEW id \in AllocationIDs,
           NEW curated \in BOOLEAN, Collect(holder, tokens, id, curated)
    PROVE  GoodStep
<1>. DEFINE state == StateOf(ledger, id)
            alloc == ledger.allocations[id]
            tax == Portion(UsedProtocolPercentage(state), tokens)
            curation == IF curated THEN Portion(params["curationPercentage"], tokens - tax)
                        ELSE 0
            fees == tokens - tax - curation
            l == Pull(ledger, holder, tokens)
            n == Gone(l, tax + curation)
            a == [n.allocations[id] EXCEPT !.collectedFees = @ + fees]
            o == [n EXCEPT !.allocations[id] = a]
            e == alloc.closedAtEpoch
            p == [o.rebates[e] EXCEPT !.fees = @ + fees]
            q == [o EXCEPT !.rebates[e] = p]
            m == IF state = "Closed" THEN q ELSE o
<1>1. Commit(m)
  BY DEF Collect, ProtocolTax, CurationFees
<1>2. /\ UsedProtocolPercentage(state) \in 0 .. MAX_PPM
      /\ params["curationPercentage"] \in 0 .. MAX_PPM
  BY MaxPPM DEF UsedProtocolPercentage, IInv, TypeOK, Params, Settings, PercentageSettings
<1>3. /\ tax \in 0 .. tokens
      /\ state \notin {"Active", "Closed"} => tax = tokens
  <2>. HIDE DEF state
  <2>1. tax \in 0 .. tokens
    BY <1>2, PortionBounds
  <2>2. state \notin {"Active", "Closed"} => tax = tokens
    BY PortionWhole DEF UsedProtocolPercentage
  <2>. QED
    BY <2>1, <2>2
<1>. HIDE DEF state, tax
<1>4. curation \in 0 .. (tokens - tax)
  <2>1. tokens - tax \in Nat
    BY <1>3
  <2>2. Portion(params["curationPercentage"], tokens - tax) \in 0 .. (tokens - tax)
    BY <1>2, <2>1, PortionBounds
  <2>. QED
    BY <2>1, <2>2
<1>. HIDE DEF curation
<1>5. /\ fees \in Nat /\ tax + curation \in Int /\ fees = tokens - (tax + curation)
      /\ state \notin {"Active", "Closed"} => fees = 0
  BY <1>3, <1>4
<1>. HIDE DEF fees
<1>6. /\ Good(ledger) /\ Good(l) /\ DifferIn(ledger, l, {"grt"})
      /\ Surplus(l) = Surplus(ledger) + tokens
  BY PullPushGood, PullPushMoves DEF IInv
<1>j. ContractsKept(ledger, l)
  BY PullPushMoves DEF IInv
<1>7. \A h \in Accounts : /\ l.grt[h] <= ledger.grt[h]
                          /\ h # holder => l.grt[h] = ledger.grt[h]
  <2>1. /\ ledger.grt \in [Holders -> Int] /\ holder \in Holders
        /\ Accounts \subseteq Holders /\ StakingAddress \notin Accounts
    BY <1>6, AddressAssumption DEF Good, OpenLedger, Holders
  <2>2. l.grt = [[ledger.grt EXCEPT ![holder] = ledger.grt[holder] - tokens]
                   EXCEPT ![StakingAddress] = @ + tokens]
    BY <1>6, <2>1 DEF Pull, Transfer, Good, OpenLedger
  <2>3. \A h \in Accounts : l.grt[h] = IF h = holder THEN ledger.grt[h] - tokens
                                       ELSE ledger.grt[h]
    BY <2>1, <2>2
  <2>. QED
    BY <2>1, <2>3
<1>. HIDE DEF l
<1>8. /\ Good(n) /\ DifferIn(l, n, {"grt"})
      /\ Surplus(n) = Surplus(l) - (tax + curation)
  BY <1>5, <1>6, MintedGoneGood, MintedGoneMoves
<1>k. ContractsKept(l, n)
  BY <1>5, <1>6, MintedGoneMoves DEF NobodyPays
<1>9. \A h \in Accounts : n.grt[h] = l.grt[h]
  BY <1>6, AddressAssumption DEF Gone, Good, OpenLedger, Holders
<1>. HIDE DEF n
<1>10. a \in Allocation
  <2>. DEFINE b == n.allocations[id]
  <2>1. b \in Allocation
    BY <1>8 DEF Good, OpenLedger
  <2>2. b.collectedFees + fees \in Nat
    BY <1>5, <2>1 DEF Allocation
  <2>. HIDE DEF b
  <2>. QED
    BY <2>1, <2>2 DEF Allocation, b
<1>11. /\ n.allocations = ledger.allocations /\ n.rebates = ledger.rebates
       /\ a = [alloc EXCEPT !.collectedFees = alloc.collectedFees + fees]
  <2>1. n.allocations = ledger.allocations /\ n.rebates = ledger.rebates
    BY <1>6, <1>8 DEF DifferIn, Parts
  <2>2. alloc \in Allocation
    BY <1>6 DEF Good, OpenLedger
  <2>. QED
    BY <2>1, <2>2 DEF Allocation
<1>12. /\ Good(o) /\ DifferIn(n, o, {"allocations"})
       /\ o.allocations = [n.allocations EXCEPT ![id] = a]
  <2>. HIDE DEF a
  <2>. QED
    BY <1>8, <1>10, AllocationGood
<1>13. alloc \in Allocation
  BY DEF IInv, Good, OpenLedger
<1>14. e \in Epochs
  BY <1>13 DEF Allocation
<1>. HIDE DEF o, e
<1>15. p \in Pool
  <2>. DEFINE b == o.rebates[e]
  <2>1. b \in Pool
    BY <1>12, <1>14 DEF Good, OpenLedger
  <2>2. b.fees + fees \in Nat
    BY <1>5, <2>1 DEF Pool
  <2>. HIDE DEF b
  <2>. QED
    BY <2>1, <2>2 DEF Pool, b
<1>16. /\ Good(q) /\ DifferIn(o, q, {"rebates"})
       /\ q.rebates = [o.rebates EXCEPT ![e] = p]
  <2>. HIDE DEF p
  <2>. QED
    BY <1>12, <1>14, <1>15, RebatesGood
<1>. HIDE DEF q
<1>17. o.rebates = ledger.rebates
  BY <1>12, <1>11 DEF DifferIn, Parts
<1>18. p = [ledger.rebates[e] EXCEPT !.fees = ledger.rebates[e].fees + fees]
  BY <1>6, <1>14, <1>17 DEF Good, OpenLedger, Pool
<1>19. /\ state = "Active" => Surplus(o) = Surplus(n) - fees
       /\ state # "Active" => Surplus(o) = Surplus(n)
       /\ state = "Closed" => Surplus(q) = Surplus(n) - fees
  <2>1. StateOf(n, id) = state
    BY <1>11 DEF StateOf, state
  <2>2. /\ o.allocations = [n.allocations EXCEPT ![id] =
              [n.allocations[id] EXCEPT !.collectedFees = n.allocations[id].collectedFees + fees]]
        /\ e = n.allocations[id].closedAtEpoch
        /\ q.rebates = [o.rebates EXCEPT ![e] =
                           [o.rebates[e] EXCEPT !.fees = o.rebates[e].fees + fees]]
    BY <1>12, <1>16, <1>11, <1>17, <1>18 DEF e
  <2>. HIDE DEF e
  <2>. QED
    <3>1. FeesBooked(n, o, q, id, fees)
      BY <1>12, <1>16, <2>2 DEF FeesBooked
    <3>2. /\ StateOf(n, id) = "Active" => Surplus(o) = Surplus(n) - fees
          /\ StateOf(n, id) # "Active" => Surplus(o) = Surplus(n)
          /\ StateOf(n, id) = "Closed" => Surplus(q) = Surplus(n) - fees
      BY <1>5, <1>8, <1>12, <1>16, <3>1, CollectionSurplus
    <3>. HIDE DEF state
    <3>. QED
      BY <2>1, <3>2
<1>20. Collects(ledger, m, id, fees)
  <2>1. DifferIn(ledger, o, {"grt", "allocations"})
    BY <1>6, <1>8, <1>12 DEF DifferIn, Parts
  <2>2. DifferIn(ledger, m, {"grt", "allocations", "rebates"})
    BY <1>16, <2>1 DEF DifferIn, Parts
  <2>3. state # "Null"
    BY DEF Collect, state
  <2>4. m.allocations = [ledger.allocations EXCEPT ![id] =
           [alloc EXCEPT !.collectedFees = alloc.collectedFees + fees]]
    <3>1. o.allocations = [ledger.allocations EXCEPT ![id] =
             [alloc EXCEPT !.collectedFees = alloc.collectedFees + fees]]
      BY <1>12, <1>11
    <3>2. m.allocations = o.allocations
      BY <1>16 DEF DifferIn, Parts
    <3>. QED
      BY <3>1, <3>2
  <2>5. m.rebates = IF state = "Closed"
                    THEN [ledger.rebates EXCEPT ![e] =
                            [ledger.rebates[e] EXCEPT !.fees = ledger.rebates[e].fees + fees]]
                    ELSE ledger.rebates
    BY <1>16, <1>17, <1>18
  <2>6. /\ m.subgraphAllocations = ledger.subgraphAllocations
        /\ m.stakes = ledger.stakes
    BY <2>2 DEF DifferIn, Parts
  <2>. HIDE DEF m
  <2>. QED
    BY <1>5, <2>3, <2>4, <2>5, <2>6 DEF Collects, state, e
<1>21. Good(m) /\ DifferIn(o, m, {"rebates"})
  BY <1>12, <1>16 DEF DifferIn
<1>22. Surplus(m) = Surplus(ledger)
  <2>1. Surplus(m) = Surplus(n) - fees
    <3>1. Surplus(n) \in Int
      BY <1>8, OwedSums
    <3>2. CASE state = "Active"
      BY <1>19, <3>2
    <3>3. CASE state = "Closed"
      BY <1>19, <3>3
    <3>4. CASE state \notin {"Active", "Closed"}
      BY <1>5, <1>19, <3>1, <3>4
    <3>. QED
      BY <3>2, <3>3, <3>4
  <2>2. Surplus(ledger) \in Int
    BY <1>6, OwedSums
  <2>. HIDE DEF m
  <2>. QED
    BY <1>3, <1>4, <1>5, <1>6, <1>8, <2>1, <2>2
<1>. HIDE DEF m
<1>23. DifferIn(ledger, m, {"grt", "allocations", "rebates"})
  BY <1>6, <1>8, <1>12, <1>21 DEF DifferIn, Parts
<1>24. PoolsRewarded(ledger, m) /\ SameThawing(ledger, m)
  BY <1>23, PoolsUntouched, StakesUntouched DEF SameUse
<1>25. StakesGrow(ledger, m)
  <2>1. m.stakes = ledger.stakes
    BY <1>23 DEF DifferIn, Parts
  <2>. QED
    BY <1>6, <2>1, SameStakes
<1>26. AllocationStep(ledger, m)
  <2>1. AllocationMove(ledger, m)
    BY <1>5, <1>20 DEF AllocationMove
  <2>. QED
    BY <1>21, <2>1, OneMove
<1>27. PauseKept(ledger, m)
  <2>1. m.grt = n.grt
    BY <1>12, <1>21 DEF DifferIn, Parts
  <2>2. holder \in assetHolders
    BY DEF Collect
  <2>3. \A h \in Accounts : ledger.grt[h] \in Int
    BY <1>6 DEF Good, OpenLedger, Holders
  <2>4. /\ \A h \in Accounts : m.grt[h] <= ledger.grt[h]
        /\ \A h \in Accounts \ assetHolders : m.grt[h] >= ledger.grt[h]
    BY <1>7, <1>9, <2>1, <2>2, <2>3
  <2>5. \A x \in AllocationIDs :
          /\ m.allocations[x].indexer = ledger.allocations[x].indexer
          /\ m.allocations[x].closedAtEpoch = ledger.allocations[x].closedAtEpoch
    BY <1>6, <1>13, <1>20 DEF Collects, Good, OpenLedger, Allocation
  <2>. QED
    BY <1>24, <2>4, <2>5, NothingPaidKept
<1>28. ContractsKept(ledger, m)
  BY <1>j, <1>k, <1>12, <1>21 DEF ContractsKept, DifferIn, Parts
<1>. QED
  BY <1>1, <1>21, <1>24, <1>22, <1>25, <1>26, <1>27, <1>28, RewardedStep

\* Roles, settings, switches and the clock: the ledger is not touched.
LEMMA SetOperatorStep ==
    ASSUME IInv, NEW i \in Indexers, NEW operator \in Operators, NEW allowed \in BOOLEAN,
           SetOperator(i, operator, allowed)
    PROVE  GoodStep
<1>1. operatorAuth' \in [Indexers -> SUBSET Operators]
  BY DEF SetOperator, IInv, TypeOK
<1>2. TypeOK' /\ ledger' = ledger /\ epoch' = epoch
  BY <1>1 DEF SetOperator, IInv, TypeOK, ClockTypeOK, clock, config, pauses
<1>. QED
  BY <1>2, SameLedgerGood

\* setRewardsDestination
LEMMA SetRewardsDestinationStep ==
    ASSUME IInv, NEW i \in Indexers, NEW to \in Destinations, SetRewardsDestination(i, to)
    PROVE  GoodStep
<1>1. rewardsDestination' \in [Indexers -> Destinations \cup {NoAddress}]
  BY DEF SetRewardsDestination, IInv, TypeOK
<1>2. TypeOK' /\ ledger' = ledger /\ epoch' = epoch
  BY <1>1 DEF SetRewardsDestination, IInv, TypeOK, ClockTypeOK, clock, config, pauses
<1>. QED
  BY <1>2, SameLedgerGood

\* The setters of the settings, with their checks,
LEMMA SetParameterStep ==
    ASSUME IInv, NEW x \in Settings, NEW v \in Nat, SetParameter(x, v)
    PROVE  GoodStep
<1>1. params' \in Params
  <2>1. params \in Params /\ Accepts(x, v) /\ params' = [params EXCEPT ![x] = v]
    BY DEF SetParameter, IInv, TypeOK
  <2>2. params' \in [Settings -> Nat]
    BY <2>1 DEF Params
  <2>3. \A y \in Settings : params'[y] = IF y = x THEN v ELSE params[y]
    BY <2>1 DEF Params
  <2>4. \A y \in PositiveSettings : params'[y] > 0
    BY <2>1, <2>3 DEF Params, Accepts, Settings
  <2>5. \A y \in PercentageSettings : params'[y] <= MAX_PPM
    BY <2>1, <2>3 DEF Params, Accepts, Settings
  <2>. QED
    BY <2>2, <2>4, <2>5 DEF Params
<1>2. TypeOK' /\ ledger' = ledger /\ epoch' = epoch
  BY <1>1 DEF SetParameter, IInv, TypeOK, ClockTypeOK, clock, access, pauses
<1>. QED
  BY <1>2, SameLedgerGood

\* of the two numbers of alpha,
LEMMA SetRebateRatioStep ==
    ASSUME IInv, NEW n \in Nat, NEW d \in Nat, SetRebateRatio(n, d)
    PROVE  GoodStep
<1>1. params' \in Params
  <2>. DEFINE p == [params EXCEPT !["alphaNumerator"] = n, !["alphaDenominator"] = d]
  <2>1. params \in Params /\ n > 0 /\ d > 0 /\ params' = p
    BY DEF SetRebateRatio, IInv, TypeOK
  <2>2. p \in [Settings -> Nat]
    BY <2>1 DEF Params
  <2>3. \A y \in Settings : \/ p[y] = params[y]
                            \/ y = "alphaNumerator" /\ p[y] = n
                            \/ y = "alphaDenominator" /\ p[y] = d
    BY <2>1 DEF Params
  <2>. HIDE DEF p
  <2>4. \A y \in PositiveSettings : p[y] > 0
    BY <2>1, <2>3 DEF Params, Settings
  <2>5. \A y \in PercentageSettings : p[y] <= MAX_PPM
    BY <2>1, <2>3 DEF Params, Settings, PercentageSettings
  <2>. QED
    BY <2>1, <2>2, <2>4, <2>5 DEF Params
<1>2. TypeOK' /\ ledger' = ledger /\ epoch' = epoch
  BY <1>1 DEF SetRebateRatio, IInv, TypeOK, ClockTypeOK, clock, access, pauses
<1>. QED
  BY <1>2, SameLedgerGood

\* and of the slashers and asset holders.
LEMMA SetRoleStep ==
    ASSUME IInv, NEW a \in RoleChoices, NEW allowed \in BOOLEAN,
           SetSlasher(a, allowed) \/ SetAssetHolder(a, allowed)
    PROVE  GoodStep
<1>1. a \in Accounts
  BY InputAssumption
<1>2. CASE SetSlasher(a, allowed)
  <2>1. slashers' \subseteq Accounts \cup Contracts
    BY <1>1, <1>2 DEF SetSlasher, IInv, TypeOK
  <2>2. TypeOK' /\ ledger' = ledger /\ epoch' = epoch
    BY <1>2, <2>1 DEF SetSlasher, IInv, TypeOK, ClockTypeOK, clock, access, pauses
  <2>. QED
    BY <2>2, SameLedgerGood
<1>3. CASE SetAssetHolder(a, allowed)
  <2>1. assetHolders' \subseteq Accounts
    BY <1>1, <1>3 DEF SetAssetHolder, IInv, TypeOK
  <2>2. TypeOK' /\ ledger' = ledger /\ epoch' = epoch
    BY <1>3, <2>1 DEF SetAssetHolder, IInv, TypeOK, ClockTypeOK, clock, access, pauses
  <2>. QED
    BY <2>2, SameLedgerGood
<1>. QED
  BY <1>2, <1>3

\* The pause switches of the Controller.
LEMMA PauseStep ==
    ASSUME IInv, NEW toPause \in BOOLEAN, SetPaused(toPause) \/ SetPartialPaused(toPause)
    PROVE  GoodStep
<1>1. TypeOK' /\ ledger' = ledger /\ epoch' = epoch
  BY DEF SetPaused, SetPartialPaused, IInv, TypeOK, ClockTypeOK, clock, access, config
<1>. QED
  BY <1>1, SameLedgerGood

\* Time passes.
LEMMA ClockStep ==
    ASSUME IInv, NextBlock \/ SkipEpochs
    PROVE  GoodStep
<1>1. ClockTypeOK'
  <2>1. CASE NextBlock
    BY <2>1 DEF NextBlock, Tick, ClockTypeOK
  <2>2. CASE SkipEpochs
    <3>1. block \in Blocks /\ epoch \in Nat /\ MaxEpoch \in Nat
      BY ClockAssumption DEF IInv, TypeOK, ClockTypeOK, Epochs
    <3>. QED
      BY <2>2, <3>1 DEF SkipEpochs, Skip, ClockTypeOK, Epochs
  <2>. QED
    BY <2>1, <2>2
<1>2. TypeOK' /\ ledger' = ledger
  BY <1>1 DEF NextBlock, SkipEpochs, IInv, TypeOK, access, config, pauses
<1>3. epoch' = epoch \/ epoch' > epoch
  <2>1. epoch \in Nat /\ MaxEpoch \in Nat
    BY ClockAssumption DEF IInv, TypeOK, ClockTypeOK, Epochs
  <2>. QED
    BY <2>1 DEF NextBlock, Tick, SkipEpochs, Skip
<1>. QED
  BY <1>2, <1>3, SameLedgerGood

\* Nothing happens.
LEMMA StutterStep ==
    ASSUME IInv, UNCHANGED vars
    PROVE  GoodStep
<1>1. TypeOK' /\ ledger' = ledger /\ epoch' = epoch
  BY DEF IInv, TypeOK, ClockTypeOK, vars, clock, access, config, pauses
<1>. QED
  BY <1>1, SameLedgerGood

-----------------------------------------------------------------------------
(* The specification *)

\* Every step keeps the invariant and what is promised of steps.
LEMMA NextStep ==
    ASSUME IInv, [Next]_vars
    PROVE  GoodStep
<1>1. CASE NextBlock
  BY <1>1, ClockStep
<1>2. CASE IndexerSteps
  <2>1. PICK i \in Indexers :
          \/ \E sender \in Accounts, tokens \in StakeAmounts : StakeTo(sender, i, tokens)
          \/ \E tokens \in StakeAmounts : Unstake(i, tokens)
          \/ Withdraw(i)
          \/ \E operator \in Operators, allowed \in BOOLEAN : SetOperator(i, operator, allowed)
          \/ \E to \in Destinations : SetRewardsDestination(i, to)
          \/ \E r, q \in CutChoices, c \in CooldownChoices :
                SetDelegationParameters(i, r, q, c)
    BY <1>2 DEF IndexerSteps
  <2>2. /\ StakeAmounts \subseteq Nat /\ CutChoices \subseteq Nat
        /\ CooldownChoices \subseteq Nat
    BY InputAssumption
  <2>. QED
    BY <2>1, <2>2, StakeToStep, UnstakeStep, WithdrawStep, SetOperatorStep,
       SetRewardsDestinationStep, SetDelegationParametersStep
<1>3. CASE SlasherSteps
  <2>1. PICK slasher \in Accounts, to \in Accounts, i \in Indexers,
             tokens \in StakeAmounts \cup {0}, reward \in StakeAmounts \cup {0} :
               Slash(slasher, i, tokens, reward, to)
    BY <1>3 DEF SlasherSteps
  <2>. QED
    BY <2>1, SlashedStep
<1>4. CASE DelegatorSteps
  <2>1. PICK d \in Delegators, i \in Indexers :
          \/ \E tokens \in DelegateAmounts : Delegate(d, i, tokens)
          \/ \E shares \in ShareAmounts : Undelegate(d, i, shares)
          \/ \E to \in Indexers \cup {NoAddress} : WithdrawDelegated(d, i, to)
    BY <1>4 DEF DelegatorSteps
  <2>2. DelegateAmounts \subseteq Nat /\ ShareAmounts \subseteq Nat
    BY InputAssumption
  <2>. QED
    BY <2>1, <2>2, DelegateStep, UndelegateStep, WithdrawDelegatedStep
<1>5. CASE AllocationSteps
  <2>1. PICK sender \in Accounts, id \in AllocationIDs :
          \/ \E i \in Indexers, s \in Subgraphs, tokens \in AllocateAmounts :
                Allocate(sender, i, s, tokens, id)
          \/ CloseAllocation(sender, id)
          \/ \E id2 \in AllocationIDs : CloseAllocationMany(sender, id, id2)
          \/ \E i \in Indexers, s \in Subgraphs, tokens \in AllocateAmounts,
                id2 \in AllocationIDs : CloseAndAllocate(sender, id, i, s, tokens, id2)
          \/ \E tokens \in FeeAmounts, curated \in BOOLEAN :
                Collect(sender, tokens, id, curated)
    BY <1>5 DEF AllocationSteps
  <2>2. AllocateAmounts \subseteq Nat /\ FeeAmounts \subseteq Nat
    BY InputAssumption
  <2>3. CASE \E i \in Indexers, s \in Subgraphs, tokens \in AllocateAmounts :
                Allocate(sender, i, s, tokens, id)
    BY <2>2, <2>3, AllocateStep
  <2>4. CASE CloseAllocation(sender, id) \/ \E id2 \in AllocationIDs :
                CloseAllocationMany(sender, id, id2)
    BY <2>4, CloseAllocationStep, CloseAllocationManyStep
  <2>5. CASE \E i \in Indexers, s \in Subgraphs, tokens \in AllocateAmounts,
                id2 \in AllocationIDs : CloseAndAllocate(sender, id, i, s, tokens, id2)
    BY <2>2, <2>5, CloseAndAllocateStep
  <2>6. CASE \E tokens \in FeeAmounts, curated \in BOOLEAN :
                Collect(sender, tokens, id, curated)
    BY <2>2, <2>6, CollectStep
  <2>. QED
    BY <2>1, <2>3, <2>4, <2>5, <2>6
<1>6. CASE ClaimSteps
  BY <1>6, ClaimStep, ClaimManyStep DEF ClaimSteps
<1>7. CASE GovernorSteps
  <2>1. \A x \in Settings : SettingChoices[x] \subseteq Nat
    BY InputAssumption
  <2>2. \A r \in RatioChoices : r[1] \in Nat /\ r[2] \in Nat
    BY InputAssumption
  <2>3. CASE SkipEpochs
    BY <2>3, ClockStep
  <2>4. CASE \E x \in Settings : \E v \in SettingChoices[x] : SetParameter(x, v)
    BY <2>1, <2>4, SetParameterStep
  <2>5. CASE \E r \in RatioChoices : SetRebateRatio(r[1], r[2])
    BY <2>2, <2>5, SetRebateRatioStep
  <2>6. CASE \E a \in RoleChoices, allowed \in BOOLEAN :
                SetSlasher(a, allowed) \/ SetAssetHolder(a, allowed)
    BY <2>6, SetRoleStep
  <2>7. CASE \E toPause \in BOOLEAN : \/ "paused" \in PauseChoices /\ SetPaused(toPause)
                                      \/ "partialPaused" \in PauseChoices
                                         /\ SetPartialPaused(toPause)
    BY <2>7, PauseStep
  <2>. QED
    BY <1>7, <2>3, <2>4, <2>5, <2>6, <2>7 DEF GovernorSteps
<1>8. CASE UNCHANGED vars
  BY <1>8, StutterStep
<1>. QED
  BY <1>1, <1>2, <1>3, <1>4, <1>5, <1>6, <1>7, <1>8 DEF Next

\* initialize() leaves a good ledger.
LEMMA InitGood == Init => IInv
<1>. SUFFICES ASSUME Init PROVE IInv
  OBVIOUS
<1>1. block \in Blocks /\ epoch \in Epochs
  BY ClockAssumption DEF Init, ClockInit, Blocks, Epochs
<1>2. EmptyStake \in Stake /\ GoodStake(EmptyStake)
  BY DEF EmptyStake, Stake, GoodStake, SecureStakeDefined
<1>3. EmptyDelegationPool \in DelegationPool
  <2>1. 0 \in 0 .. MAX_PPM
    BY MaxPPM
  <2>. QED
    BY <2>1 DEF EmptyDelegationPool, DelegationPool
<1>4. EmptyDelegation \in Delegation
  BY DEF EmptyDelegation, Delegation
<1>5. NoAllocation \in Allocation
  BY ClockAssumption DEF NoAllocation, Allocation, Epochs
<1>6. NoPool \in Pool
  BY CounterSizeAssumption DEF NoPool, Pool
<1>7. [h \in Holders |-> IF h \in Accounts THEN InitialGRT[h] ELSE 0] \in [Holders -> Nat]
  BY InitialAssumption
<1>8. ledger \in Ledger
  BY <1>2, <1>3, <1>4, <1>5, <1>6, <1>7 DEF Init, Ledger
<1>9. Good(ledger)
  <2>1. ledger \in OpenLedger
    BY <1>8 DEF Ledger, OpenLedger
  <2>2. \A i \in Indexers : ledger.stakes[i] = EmptyStake
    BY DEF Init
  <2>. QED
    BY <1>2, <2>1, <2>2 DEF Good
<1>10. params \in Params
  BY InitialAssumption DEF Init, Params
<1>11. TypeOK
  BY <1>1, <1>8, <1>10, InitialAssumption, InputAssumption DEF Init, TypeOK, ClockTypeOK
<1>. QED
  BY <1>9, <1>11 DEF IInv

\* The inductive invariant holds in every reachable state of Staking.sol.
THEOREM Invariant == Spec => []IInv
<1>1. IInv /\ [Next]_vars => IInv'
  BY NextStep DEF GoodStep
<1>. QED
  BY <1>1, InitGood, PTL DEF Spec

\* The variables keep their types: no amount of a stake, a pool, an allocation, a
\* rebate pool or a balance is ever negative, whatever the handlers subtract.
THEOREM TypeCorrect == Spec => []TypeOK
<1>1. IInv => TypeOK
  BY DEF IInv
<1>. QED
  BY <1>1, Invariant, PTL

\* No more tokens are locked than staked, whatever a slash takes: the checked
\* subtractions of tokensSecureStake and withdrawTokens (Stakes.sol) never revert.
THEOREM LocksCovered == Spec => []LockedWithinStake
<1>1. IInv => LockedWithinStake
  BY DEF IInv, Good, GoodStake, LockedWithinStake
<1>. QED
  BY <1>1, Invariant, PTL

\* Locked tokens have a deadline and a deadline has locked tokens, so none of them
\* are stuck in tokensWithdrawable (Stakes.sol:189-194).
THEOREM LocksHaveDeadlines == Spec => []LockHasDeadline
<1>1. IInv => LockHasDeadline
  BY DEF IInv, Good, GoodStake, LockHasDeadline
<1>. QED
  BY <1>1, Invariant, PTL

\* So however unstakes, withdrawals and slashes follow each other, what is locked is
\* staked and has a deadline: every stake can leave (Stakes.sol:94-119, 189-194).
THEOREM StakesStaySound == Spec => []StakesSound
BY LocksCovered, LocksHaveDeadlines, PTL DEF StakesSound

\* The averaging of lockTokens and the unlocking of a slash never release tokens
\* before their old deadline or a full thawing period, whichever is earlier.
THEOREM ThawingNotCutShort == Spec => NoEarlyThaw
<1>1. IInv /\ [Next]_vars =>
         [\A i \in Indexers :
             LET s == ledger.stakes[i]
                 t == ledger'.stakes[i]
             IN  /\ s.tokensLocked > 0 /\ t.tokensLocked > 0 =>
                       t.tokensLockedUntil >= MathMin(s.tokensLockedUntil,
                                                      block + params["thawingPeriod"])
                 /\ t.tokensLocked > s.tokensLocked => t.tokensLockedUntil > block]_vars
  BY NextStep DEF GoodStep, Sound, ThawingKept
<1>. QED
  BY <1>1, Invariant, PTL DEF Spec, NoEarlyThaw

-----------------------------------------------------------------------------
(* The books *)

\* Closed, and not yet claimed.
IsWaiting(alloc) == /\ alloc.indexer # NoAddress
                    /\ alloc.tokens # 0
                    /\ alloc.closedAtEpoch # 0

\* The allocated tokens, by the indexer they are of and the deployment they are on.
TokensOf(l, i) == [id \in AllocationIDs |->
                      IF IsActive(l.allocations[id]) /\ l.allocations[id].indexer = i
                      THEN l.allocations[id].tokens ELSE 0]
TokensOn(l, s) == [id \in AllocationIDs |->
                      IF IsActive(l.allocations[id])
                         /\ l.allocations[id].subgraphDeploymentID = s
                      THEN l.allocations[id].tokens ELSE 0]

AllocationsBooked(l) ==
    /\ \A i \in Indexers :
          l.stakes[i].tokensAllocated = SumFunctionOnSet(TokensOf(l, i), AllocationIDs)
    /\ \A s \in Subgraphs :
          l.subgraphAllocations[s] = SumFunctionOnSet(TokensOn(l, s), AllocationIDs)

SharesOf(l, i) == [d \in Delegators |-> l.delegations[i][d].shares]

SharesBooked(l) ==
    \A i \in Indexers :
        l.delegationPools[i].shares = SumFunctionOnSet(SharesOf(l, i), Delegators)

\* The allocations that wait for their rebates of epoch e, and what they put into
\* the pool.
WaitingIn(l, e) == {id \in AllocationIDs : /\ IsWaiting(l.allocations[id])
                                           /\ l.allocations[id].closedAtEpoch = e}
FeesIn(l, e)   == [id \in AllocationIDs |-> IF id \in WaitingIn(l, e)
                                            THEN l.allocations[id].collectedFees ELSE 0]
StakesIn(l, e) == [id \in AllocationIDs |-> IF id \in WaitingIn(l, e)
                                            THEN l.allocations[id].effectiveAllocation ELSE 0]

PoolBooked(l, e) ==
    LET pool == l.rebates[e]
    IN  /\ pool.unclaimedAllocationsCount = Cardinality(WaitingIn(l, e))
        /\ WaitingIn(l, e) = {} => pool.effectiveAllocatedStake = 0
        /\ SumFunctionOnSet(FeesIn(l, e), AllocationIDs) <= pool.fees
        /\ SumFunctionOnSet(StakesIn(l, e), AllocationIDs) <= pool.effectiveAllocatedStake
        /\ pool.claimedRewards <= pool.fees

\* What waits has an effective allocation: a close needs an epoch and some tokens.
RebatesBooked(l) ==
    /\ \A e \in Epochs : PoolBooked(l, e)
    /\ \A id \in AllocationIDs :
          IsWaiting(l.allocations[id]) => l.allocations[id].effectiveAllocation > 0

\* The inductive invariant of the books,
Books == /\ IInv
         /\ Surplus(ledger) = 0
         /\ SharesBooked(ledger)
         /\ AllocationsBooked(ledger)

\* and with it that of the rebate pools.
RebateBooks == Books /\ RebatesBooked(ledger)

-----------------------------------------------------------------------------
(* The shares of the pools *)

\* A pool and its delegator move by the same number of shares.
LEMMA SharesKept ==
    ASSUME NEW l, NEW m, Good(l), Good(m), PoolStep(l, m), SharesBooked(l)
    PROVE  SharesBooked(m)
<1>. DEFINE Total(n, j) == SumFunctionOnSet(SharesOf(n, j), Delegators)
            Shares(n, j) == n.delegationPools[j].shares
<1>. SUFFICES ASSUME NEW j \in Indexers PROVE Shares(m, j) = Total(m, j)
  BY DEF SharesBooked
<1>1. /\ Shares(l, j) = Total(l, j)
      /\ Shares(l, j) \in Nat /\ Shares(m, j) \in Nat
      /\ \A d \in Delegators : SharesOf(l, j)[d] \in Int /\ SharesOf(m, j)[d] \in Int
      /\ IsFiniteSet(Delegators)
  BY FiniteSets DEF SharesBooked, Good, OpenLedger, DelegationPool, Delegation, SharesOf
<1>. DEFINE Moves(d, n) == /\ Shares(m, j) = Shares(l, j) + n
                           /\ \A x \in Delegators : SharesOf(m, j)[x] =
                                 SharesOf(l, j)[x] + IF x = d THEN n ELSE 0
<1>2. ASSUME NEW d \in Delegators, NEW n \in Int, Moves(d, n)
      PROVE  Shares(m, j) = Total(m, j)
  <2>1. /\ \A x \in Delegators \ {d} : SharesOf(m, j)[x] = SharesOf(l, j)[x]
        /\ SharesOf(m, j)[d] - SharesOf(l, j)[d] = n
    BY <1>1, <1>2
  <2>2. Total(m, j) = Total(l, j) + (SharesOf(m, j)[d] - SharesOf(l, j)[d])
    BY <1>1, <2>1, SumAfterUpdate
  <2>. QED
    BY <1>1, <1>2, <2>1, <2>2
<1>3. ASSUME Shares(m, j) = Shares(l, j),
             \A d \in Delegators : SharesOf(m, j)[d] = SharesOf(l, j)[d]
      PROVE  Shares(m, j) = Total(m, j)
  <2>1. SharesOf(m, j) = SharesOf(l, j)
    BY <1>3 DEF SharesOf
  <2>. QED
    BY <1>1, <1>3, <2>1
<1>4. CASE PoolsRewarded(l, m)
  BY <1>3, <1>4 DEF PoolsRewarded, SharesOf
<1>5. CASE \E i \in Indexers, d \in Delegators, tokens \in Nat :
              /\ SharesFor(l.delegationPools[i], tokens) > 0
              /\ EntersPool(l, m, i, d, tokens)
  <2>1. PICK i \in Indexers, d \in Delegators, tokens \in Nat :
                /\ SharesFor(l.delegationPools[i], tokens) > 0
                /\ EntersPool(l, m, i, d, tokens)
    BY <1>5
  <2>. DEFINE pool == l.delegationPools[i]
              n == SharesFor(pool, tokens)
  <2>2. pool \in DelegationPool /\ n \in Nat
    BY SharesForNat DEF Good, OpenLedger
  <2>3. PoolEnter(pool, tokens).shares = pool.shares + n
    BY <2>2 DEF PoolEnter, DelegationPool
  <2>. HIDE DEF n
  <2>4. /\ \A k \in Indexers : m.delegationPools[k] = IF k = i THEN PoolEnter(pool, tokens)
                                                      ELSE l.delegationPools[k]
        /\ \A x \in Delegators : m.delegations[j][x].shares =
              IF j = i /\ x = d THEN l.delegations[i][d].shares + n
              ELSE l.delegations[j][x].shares
    BY <2>1 DEF EntersPool, Good, OpenLedger, n
  <2>5. CASE j = i
    <3>1. Moves(d, n)
      BY <1>1, <2>3, <2>4, <2>5 DEF SharesOf
    <3>. QED
      BY <1>2, <2>2, <3>1
  <2>6. CASE j # i
    BY <1>3, <2>4, <2>6 DEF SharesOf
  <2>. QED
    BY <2>5, <2>6
<1>6. CASE \E i \in Indexers, d \in Delegators, shares \in Nat \ {0} :
              LeavesPool(l, m, i, d, shares)
  <2>1. PICK i \in Indexers, d \in Delegators, shares \in Nat \ {0} :
                LeavesPool(l, m, i, d, shares)
    BY <1>6
  <2>. DEFINE pool == l.delegationPools[i]
  <2>2. pool \in DelegationPool /\ shares \in 1 .. pool.shares
    BY <2>1 DEF LeavesPool, Good, OpenLedger
  <2>3. PoolLeave(pool, shares).shares = pool.shares - shares
    BY <2>2, PoolLeaveIs
  <2>4. /\ \A k \in Indexers : m.delegationPools[k] = IF k = i THEN PoolLeave(pool, shares)
                                                      ELSE l.delegationPools[k]
        /\ \A x \in Delegators : m.delegations[j][x].shares =
              IF j = i /\ x = d THEN l.delegations[i][d].shares - shares
              ELSE l.delegations[j][x].shares
    BY <2>1 DEF LeavesPool, Good, OpenLedger
  <2>5. CASE j = i
    <3>1. Moves(d, 0 - shares)
      BY <1>1, <2>3, <2>4, <2>5 DEF SharesOf
    <3>. QED
      BY <1>2, <3>1
  <2>6. CASE j # i
    BY <1>3, <2>4, <2>6 DEF SharesOf
  <2>. QED
    BY <2>5, <2>6
<1>. QED
  BY <1>4, <1>5, <1>6 DEF PoolStep

-----------------------------------------------------------------------------
(* The allocated tokens *)

\* The summands are numbers.
LEMMA TokensNat ==
    ASSUME NEW l, Good(l)
    PROVE  /\ \A i \in Indexers, id \in AllocationIDs : TokensOf(l, i)[id] \in Int
           /\ \A s \in Subgraphs, id \in AllocationIDs : TokensOn(l, s)[id] \in Int
BY DEF Good, OpenLedger, Allocation, TokensOf, TokensOn

\* The totals move with the one allocation that changes.
LEMMA BookedAfter ==
    ASSUME NEW l, NEW m, Good(l), Good(m), AllocationsBooked(l),
           NEW id \in AllocationIDs, NEW a, m.allocations = [l.allocations EXCEPT ![id] = a],
           \A i \in Indexers : m.stakes[i].tokensAllocated =
              l.stakes[i].tokensAllocated + (TokensOf(m, i)[id] - TokensOf(l, i)[id]),
           \A s \in Subgraphs : m.subgraphAllocations[s] =
              l.subgraphAllocations[s] + (TokensOn(m, s)[id] - TokensOn(l, s)[id])
    PROVE  AllocationsBooked(m)
<1>1. \A x \in AllocationIDs \ {id} : m.allocations[x] = l.allocations[x]
  BY DEF Good, OpenLedger
<1>2. IsFiniteSet(AllocationIDs)
  BY FiniteSets
<1>3. ASSUME NEW i \in Indexers
      PROVE  m.stakes[i].tokensAllocated = SumFunctionOnSet(TokensOf(m, i), AllocationIDs)
  <2>. DEFINE f == TokensOf(l, i)
              h == TokensOf(m, i)
  <2>1. \A x \in AllocationIDs \ {id} : h[x] = f[x]
    BY <1>1 DEF TokensOf
  <2>2. \A x \in AllocationIDs : f[x] \in Int /\ h[x] \in Int
    BY TokensNat
  <2>3. l.stakes[i].tokensAllocated = SumFunctionOnSet(f, AllocationIDs)
    BY DEF AllocationsBooked
  <2>4. m.stakes[i].tokensAllocated = l.stakes[i].tokensAllocated + (h[id] - f[id])
    OBVIOUS
  <2>. HIDE DEF f, h
  <2>5. SumFunctionOnSet(h, AllocationIDs) = SumFunctionOnSet(f, AllocationIDs) + (h[id] - f[id])
    BY <1>2, <2>1, <2>2, SumAfterUpdate
  <2>. QED
    BY <2>3, <2>4, <2>5 DEF h
<1>4. ASSUME NEW s \in Subgraphs
      PROVE  m.subgraphAllocations[s] = SumFunctionOnSet(TokensOn(m, s), AllocationIDs)
  <2>. DEFINE f == TokensOn(l, s)
              h == TokensOn(m, s)
  <2>1. \A x \in AllocationIDs \ {id} : h[x] = f[x]
    BY <1>1 DEF TokensOn
  <2>2. \A x \in AllocationIDs : f[x] \in Int /\ h[x] \in Int
    BY TokensNat
  <2>3. l.subgraphAllocations[s] = SumFunctionOnSet(f, AllocationIDs)
    BY DEF AllocationsBooked
  <2>4. m.subgraphAllocations[s] = l.subgraphAllocations[s] + (h[id] - f[id])
    OBVIOUS
  <2>. HIDE DEF f, h
  <2>5. SumFunctionOnSet(h, AllocationIDs) = SumFunctionOnSet(f, AllocationIDs) + (h[id] - f[id])
    BY <1>2, <2>1, <2>2, SumAfterUpdate
  <2>. QED
    BY <2>3, <2>4, <2>5 DEF h
<1>. QED
  BY <1>3, <1>4 DEF AllocationsBooked

\* Each way to move an allocation keeps the totals.
LEMMA AllocationsKept ==
    ASSUME Context, NEW l, NEW m, Good(l), Good(m), AllocationMove(l, m), AllocationsBooked(l)
    PROVE  AllocationsBooked(m)
<1>1. /\ l.allocations \in [AllocationIDs -> Allocation]
      /\ m.allocations \in [AllocationIDs -> Allocation]
  BY DEF Good, OpenLedger
<1>2. \A i \in Indexers : l.stakes[i].tokensAllocated \in Nat
  BY DEF Good, GoodStake, Stake
<1>3. l.subgraphAllocations \in [Subgraphs -> Nat]
  BY DEF Good, OpenLedger
<1>4. CASE SameAllocations(l, m)
  BY <1>4 DEF SameAllocations, AllocationsBooked, TokensOf, TokensOn
<1>5. ASSUME NEW i \in Indexers, NEW s \in Subgraphs, NEW tokens \in Nat \ {0},
             NEW id \in AllocationIDs,
             l.allocations[id].indexer = NoAddress, Opens(l, m, i, s, tokens, id)
      PROVE  AllocationsBooked(m)
  <2>. DEFINE a == [indexer              |-> i,
                    subgraphDeploymentID |-> s,
                    tokens               |-> tokens,
                    createdAtEpoch       |-> epoch,
                    closedAtEpoch        |-> 0,
                    collectedFees        |-> 0,
                    effectiveAllocation  |-> 0]
  <2>1. m.allocations = [l.allocations EXCEPT ![id] = a]
    BY <1>5 DEF Opens
  <2>2. i # NoAddress
    BY AddressAssumption
  <2>3. \A j \in Indexers : /\ TokensOf(m, j)[id] = IF j = i THEN tokens ELSE 0
                            /\ TokensOf(l, j)[id] = 0
    BY <1>1, <1>5, <2>1, <2>2 DEF TokensOf, IsActive
  <2>4. \A x \in Subgraphs : /\ TokensOn(m, x)[id] = IF x = s THEN tokens ELSE 0
                             /\ TokensOn(l, x)[id] = 0
    BY <1>1, <1>5, <2>1, <2>2 DEF TokensOn, IsActive
  <2>. HIDE DEF a
  <2>5. \A j \in Indexers : m.stakes[j].tokensAllocated =
           l.stakes[j].tokensAllocated + (TokensOf(m, j)[id] - TokensOf(l, j)[id])
    BY <1>5, <1>2, <2>3 DEF Opens
  <2>6. \A x \in Subgraphs : m.subgraphAllocations[x] =
           l.subgraphAllocations[x] + (TokensOn(m, x)[id] - TokensOn(l, x)[id])
    <3>1. \A x \in Subgraphs : m.subgraphAllocations[x] =
             l.subgraphAllocations[x] + IF x = s THEN tokens ELSE 0
      <4>1. m.subgraphAllocations = [l.subgraphAllocations EXCEPT
                                       ![s] = l.subgraphAllocations[s] + tokens]
        BY <1>5 DEF Opens
      <4>. QED
        BY <1>3, <4>1
    <3>. SUFFICES ASSUME NEW x \in Subgraphs
         PROVE  m.subgraphAllocations[x] =
                   l.subgraphAllocations[x] + (TokensOn(m, x)[id] - TokensOn(l, x)[id])
      OBVIOUS
    <3>2. l.subgraphAllocations[x] \in Nat
      BY <1>3
    <3>3. TokensOn(m, x)[id] - TokensOn(l, x)[id] = IF x = s THEN tokens ELSE 0
      BY <2>4
    <3>4. m.subgraphAllocations[x] = l.subgraphAllocations[x] + IF x = s THEN tokens ELSE 0
      BY <3>1
    <3>. QED
      BY <3>3, <3>4
  <2>. QED
    BY <2>1, <2>5, <2>6, BookedAfter
<1>6. ASSUME NEW id \in AllocationIDs, NEW effective \in Nat \ {0},
             l.allocations[id].createdAtEpoch < epoch, Closes(l, m, id, effective)
      PROVE  AllocationsBooked(m)
  <2>. DEFINE alloc == l.allocations[id]
              a == [alloc EXCEPT !.closedAtEpoch = epoch, !.effectiveAllocation = effective]
  <2>1. m.allocations = [l.allocations EXCEPT ![id] = a] /\ IsActive(alloc)
    BY <1>6 DEF Closes
  <2>2. alloc \in Allocation /\ alloc.tokens \in Nat /\ epoch # 0
    BY <1>1, <1>6, ClockAssumption DEF Allocation, Epochs, Context, ClockTypeOK
  <2>3. ~IsActive(a) /\ m.allocations[id] = a
    BY <1>1, <2>1, <2>2 DEF IsActive, Allocation
  <2>. HIDE DEF a
  <2>4. \A j \in Indexers :
           /\ TokensOf(m, j)[id] = 0
           /\ TokensOf(l, j)[id] = IF j = alloc.indexer THEN alloc.tokens ELSE 0
    BY <2>1, <2>3 DEF TokensOf
  <2>5. \A x \in Subgraphs :
           /\ TokensOn(m, x)[id] = 0
           /\ TokensOn(l, x)[id] = IF x = alloc.subgraphDeploymentID THEN alloc.tokens ELSE 0
    BY <2>1, <2>3 DEF TokensOn
  <2>6. \A j \in Indexers : m.stakes[j].tokensAllocated =
           l.stakes[j].tokensAllocated + (TokensOf(m, j)[id] - TokensOf(l, j)[id])
    <3>1. \A j \in Indexers : m.stakes[j].tokensAllocated =
             l.stakes[j].tokensAllocated - IF j = alloc.indexer THEN alloc.tokens ELSE 0
      BY <1>6 DEF Closes
    <3>. HIDE DEF alloc
    <3>. QED
      BY <1>2, <2>2, <2>4, <3>1
  <2>7. \A x \in Subgraphs : m.subgraphAllocations[x] =
           l.subgraphAllocations[x] + (TokensOn(m, x)[id] - TokensOn(l, x)[id])
    <3>1. m.subgraphAllocations = [l.subgraphAllocations EXCEPT
                                     ![alloc.subgraphDeploymentID] = @ - alloc.tokens]
      BY <1>6 DEF Closes
    <3>. HIDE DEF alloc
    <3>2. \A x \in Subgraphs : m.subgraphAllocations[x] =
             l.subgraphAllocations[x]
                - IF x = alloc.subgraphDeploymentID THEN alloc.tokens ELSE 0
      BY <1>3, <2>2, <3>1
    <3>. SUFFICES ASSUME NEW x \in Subgraphs
         PROVE  m.subgraphAllocations[x] =
                   l.subgraphAllocations[x] + (TokensOn(m, x)[id] - TokensOn(l, x)[id])
      OBVIOUS
    <3>. DEFINE gone == IF x = alloc.subgraphDeploymentID THEN alloc.tokens ELSE 0
    <3>3. l.subgraphAllocations[x] \in Nat /\ gone \in Nat
      BY <1>3, <2>2
    <3>4. TokensOn(m, x)[id] = 0 /\ TokensOn(l, x)[id] = gone
      BY <2>5
    <3>5. m.subgraphAllocations[x] = l.subgraphAllocations[x] - gone
      BY <3>2
    <3>. HIDE DEF gone
    <3>. QED
      BY <3>3, <3>4, <3>5
  <2>. QED
    BY <2>1, <2>6, <2>7, BookedAfter
<1>7. ASSUME NEW id \in AllocationIDs, NEW rebate \in Nat, CanClaim(l, id),
             Claims(l, m, id, rebate)
      PROVE  AllocationsBooked(m)
  <2>. DEFINE a == Purged(l.allocations[id])
  <2>1. m.allocations = [l.allocations EXCEPT ![id] = a] /\ m.allocations[id] = a
    BY <1>1, <1>7 DEF Claims
  <2>2. ~IsActive(l.allocations[id]) /\ ~IsActive(a)
    BY <1>7 DEF CanClaim, StateOf, AllocationState, IsActive, Purged, NoAllocation
  <2>. HIDE DEF a
  <2>3. /\ \A j \in Indexers : TokensOf(m, j)[id] = 0 /\ TokensOf(l, j)[id] = 0
        /\ \A x \in Subgraphs : TokensOn(m, x)[id] = 0 /\ TokensOn(l, x)[id] = 0
    BY <2>1, <2>2 DEF TokensOf, TokensOn
  <2>4. /\ \A j \in Indexers : m.stakes[j].tokensAllocated =
              l.stakes[j].tokensAllocated + (TokensOf(m, j)[id] - TokensOf(l, j)[id])
        /\ \A x \in Subgraphs : m.subgraphAllocations[x] =
              l.subgraphAllocations[x] + (TokensOn(m, x)[id] - TokensOn(l, x)[id])
    BY <1>7, <1>2, <1>3, <2>3 DEF Claims
  <2>. QED
    BY <2>1, <2>4, BookedAfter
<1>8. ASSUME NEW id \in AllocationIDs, NEW fees \in Nat, Collects(l, m, id, fees)
      PROVE  AllocationsBooked(m)
  <2>. DEFINE alloc == l.allocations[id]
              a == [alloc EXCEPT !.collectedFees = alloc.collectedFees + fees]
  <2>1. m.allocations = [l.allocations EXCEPT ![id] = a] /\ m.allocations[id] = a
    BY <1>1, <1>8 DEF Collects
  <2>2. /\ IsActive(a) <=> IsActive(alloc)
        /\ a.tokens = alloc.tokens /\ alloc.tokens \in Nat /\ a.indexer = alloc.indexer
        /\ a.subgraphDeploymentID = alloc.subgraphDeploymentID
    BY <1>1 DEF IsActive, Allocation
  <2>. HIDE DEF a
  <2>3. /\ \A j \in Indexers : TokensOf(m, j)[id] = TokensOf(l, j)[id]
        /\ \A x \in Subgraphs : TokensOn(m, x)[id] = TokensOn(l, x)[id]
    BY <2>1, <2>2 DEF TokensOf, TokensOn
  <2>4. /\ \A j \in Indexers : m.stakes[j].tokensAllocated =
              l.stakes[j].tokensAllocated + (TokensOf(m, j)[id] - TokensOf(l, j)[id])
        /\ \A x \in Subgraphs : m.subgraphAllocations[x] =
              l.subgraphAllocations[x] + (TokensOn(m, x)[id] - TokensOn(l, x)[id])
    BY <1>8, <1>2, <1>3, <2>3, TokensNat DEF Collects
  <2>. QED
    BY <2>1, <2>4, BookedAfter
<1>. QED
  BY <1>4, <1>5, <1>6, <1>7, <1>8 DEF AllocationMove

-----------------------------------------------------------------------------
(* The rebate pools *)

\* A pool counts, and sums, finitely many numbers.
LEMMA WaitingNat ==
    ASSUME NEW l, Good(l), NEW e
    PROVE  /\ IsFiniteSet(WaitingIn(l, e)) /\ Cardinality(WaitingIn(l, e)) \in Nat
           /\ Cardinality(WaitingIn(l, e)) <= Cardinality(AllocationIDs)
           /\ Cardinality(AllocationIDs) \in Nat
           /\ \A id \in AllocationIDs : FeesIn(l, e)[id] \in Int /\ StakesIn(l, e)[id] \in Int
           /\ SumFunctionOnSet(FeesIn(l, e), AllocationIDs) \in Int
           /\ SumFunctionOnSet(StakesIn(l, e), AllocationIDs) \in Int
<1>1. WaitingIn(l, e) \in SUBSET AllocationIDs /\ IsFiniteSet(AllocationIDs)
  BY FiniteSets DEF WaitingIn
<1>2. \A id \in AllocationIDs : FeesIn(l, e)[id] \in Int /\ StakesIn(l, e)[id] \in Int
  BY DEF Good, OpenLedger, Allocation, FeesIn, StakesIn
<1>3. /\ SumFunctionOnSet(FeesIn(l, e), AllocationIDs) \in Int
      /\ SumFunctionOnSet(StakesIn(l, e), AllocationIDs) \in Int
  BY <1>1, <1>2, SumIsInt
<1>. QED
  BY <1>1, <1>2, <1>3, FS_Subset, FS_CardinalityType

\* A pool is untouched if the allocation that changes does not wait for it.
LEMMA PoolAway ==
    ASSUME NEW l, NEW m, Good(l), NEW e \in Epochs, PoolBooked(l, e),
           NEW id \in AllocationIDs, NEW a, m.allocations = [l.allocations EXCEPT ![id] = a],
           id \notin WaitingIn(l, e), ~(IsWaiting(a) /\ a.closedAtEpoch = e),
           m.rebates[e] = l.rebates[e]
    PROVE  PoolBooked(m, e)
<1>1. \A x \in AllocationIDs : m.allocations[x] = IF x = id THEN a ELSE l.allocations[x]
  BY DEF Good, OpenLedger
<1>2. WaitingIn(m, e) = WaitingIn(l, e)
  BY <1>1 DEF WaitingIn
<1>3. FeesIn(m, e) = FeesIn(l, e) /\ StakesIn(m, e) = StakesIn(l, e)
  BY <1>1, <1>2 DEF FeesIn, StakesIn
<1>. QED
  BY <1>2, <1>3 DEF PoolBooked

\* The sums over the allocations of a pool move with the one that changes.
LEMMA PoolSumsAfter ==
    ASSUME NEW l, NEW m, Good(l), Good(m), NEW e \in Epochs,
           NEW id \in AllocationIDs, NEW a, m.allocations = [l.allocations EXCEPT ![id] = a]
    PROVE  /\ SumFunctionOnSet(FeesIn(m, e), AllocationIDs) =
                 SumFunctionOnSet(FeesIn(l, e), AllocationIDs)
                    + (FeesIn(m, e)[id] - FeesIn(l, e)[id])
           /\ SumFunctionOnSet(StakesIn(m, e), AllocationIDs) =
                 SumFunctionOnSet(StakesIn(l, e), AllocationIDs)
                    + (StakesIn(m, e)[id] - StakesIn(l, e)[id])
           /\ WaitingIn(m, e) = IF IsWaiting(a) /\ a.closedAtEpoch = e
                                THEN WaitingIn(l, e) \cup {id} ELSE WaitingIn(l, e) \ {id}
           /\ m.allocations[id] = a
<1>. DEFINE f == FeesIn(l, e)
            g == FeesIn(m, e)
            h == StakesIn(l, e)
            k == StakesIn(m, e)
<1>1. \A x \in AllocationIDs : m.allocations[x] = IF x = id THEN a ELSE l.allocations[x]
  BY DEF Good, OpenLedger
<1>2. \A x \in AllocationIDs \ {id} : x \in WaitingIn(m, e) <=> x \in WaitingIn(l, e)
  BY <1>1 DEF WaitingIn
<1>3. \A x \in AllocationIDs \ {id} : g[x] = f[x] /\ k[x] = h[x]
  BY <1>1, <1>2 DEF FeesIn, StakesIn
<1>4. /\ \A x \in AllocationIDs : f[x] \in Int /\ h[x] \in Int
      /\ \A x \in AllocationIDs : g[x] \in Int /\ k[x] \in Int
  BY WaitingNat
<1>5. WaitingIn(m, e) = IF IsWaiting(a) /\ a.closedAtEpoch = e
                        THEN WaitingIn(l, e) \cup {id} ELSE WaitingIn(l, e) \ {id}
  BY <1>1 DEF WaitingIn
<1>6. IsFiniteSet(AllocationIDs)
  BY FiniteSets
<1>. HIDE DEF f, g, h, k
<1>7. SumFunctionOnSet(g, AllocationIDs) = SumFunctionOnSet(f, AllocationIDs) + (g[id] - f[id])
  BY <1>3, <1>4, <1>6, SumAfterUpdate
<1>8. SumFunctionOnSet(k, AllocationIDs) = SumFunctionOnSet(h, AllocationIDs) + (k[id] - h[id])
  BY <1>3, <1>4, <1>6, SumAfterUpdate
<1>. QED
  BY <1>1, <1>5, <1>7, <1>8 DEF f, g, h, k

\* Fewer allocations than the counter of a pool can count.
Countable == Cardinality(AllocationIDs) < CounterSize

\* A close adds to the pool of its epoch, which may be a new one.
LEMMA ClosesKeepsPools ==
    ASSUME Countable, Context, NEW l, NEW m, Good(l), Good(m), RebatesBooked(l),
           NEW id \in AllocationIDs, NEW effective \in Nat \ {0},
           l.allocations[id].createdAtEpoch < epoch, Closes(l, m, id, effective)
    PROVE  RebatesBooked(m)
<1>. DEFINE alloc == l.allocations[id]
            a == [alloc EXCEPT !.closedAtEpoch = epoch, !.effectiveAllocation = effective]
            b == l.rebates[epoch]
            pool == IF PoolExists(b) THEN b
                    ELSE InitPool(b, params["alphaNumerator"], params["alphaDenominator"])
            p == AddToPool(pool, alloc.collectedFees, effective)
<1>1. /\ m.allocations = [l.allocations EXCEPT ![id] = a] /\ IsActive(alloc)
      /\ m.rebates = [l.rebates EXCEPT ![epoch] = p]
  BY DEF Closes
<1>2. /\ alloc \in Allocation /\ epoch # 0 /\ epoch \in Epochs
      /\ alloc.collectedFees \in Nat /\ alloc.tokens # 0 /\ alloc.indexer # NoAddress
      /\ b \in Pool
  BY <1>1, ClockAssumption DEF Good, OpenLedger, Allocation, Epochs, Context, ClockTypeOK, IsActive
<1>3. /\ IsWaiting(a) /\ a.closedAtEpoch = epoch
      /\ a.collectedFees = alloc.collectedFees /\ a.effectiveAllocation = effective
  BY <1>2 DEF IsWaiting, Allocation
<1>4. ~IsWaiting(alloc)
  BY <1>1 DEF IsWaiting, IsActive
<1>5. /\ p.fees = b.fees + alloc.collectedFees
      /\ p.effectiveAllocatedStake = b.effectiveAllocatedStake + effective
      /\ p.claimedRewards = b.claimedRewards
      /\ p.unclaimedAllocationsCount = (b.unclaimedAllocationsCount + 1) % CounterSize
  <2>. DEFINE fees == alloc.collectedFees
  <2>. HIDE DEF b, fees
  <2>1. /\ pool \in Pool /\ pool.fees = b.fees /\ pool.claimedRewards = b.claimedRewards
        /\ pool.effectiveAllocatedStake = b.effectiveAllocatedStake
        /\ pool.unclaimedAllocationsCount = b.unclaimedAllocationsCount
    <3>1. params["alphaNumerator"] \in Nat /\ params["alphaDenominator"] \in Nat
      BY DEF Context, Params, Settings, PositiveSettings
    <3>. QED
      BY <1>2, <3>1 DEF InitPool, Pool
  <2>. HIDE DEF pool
  <2>2. /\ AddToPool(pool, fees, effective).fees = pool.fees + fees
        /\ AddToPool(pool, fees, effective).effectiveAllocatedStake =
              pool.effectiveAllocatedStake + effective
        /\ AddToPool(pool, fees, effective).claimedRewards = pool.claimedRewards
        /\ AddToPool(pool, fees, effective).unclaimedAllocationsCount =
              (pool.unclaimedAllocationsCount + 1) % CounterSize
    BY <2>1 DEF AddToPool, Pool
  <2>. QED
    BY <2>1, <2>2 DEF fees
<1>6. b.fees \in Nat /\ b.effectiveAllocatedStake \in Nat /\ b.claimedRewards \in Nat
  BY <1>2 DEF Pool
<1>7. \A e \in Epochs : m.rebates[e] = IF e = epoch THEN p ELSE l.rebates[e]
  BY <1>1 DEF Good, OpenLedger
<1>8. PoolBooked(l, epoch)
  BY <1>2 DEF RebatesBooked
<1>. HIDE DEF a, p, b
<1>9. ASSUME NEW e \in Epochs, e # epoch
      PROVE  PoolBooked(m, e)
  <2>1. id \notin WaitingIn(l, e) /\ PoolBooked(l, e)
    BY <1>4 DEF WaitingIn, RebatesBooked
  <2>2. ~(IsWaiting(a) /\ a.closedAtEpoch = e) /\ m.rebates[e] = l.rebates[e]
    BY <1>3, <1>7, <1>9
  <2>. QED
    BY <1>1, <2>1, <2>2, PoolAway
<1>10. PoolBooked(m, epoch)
  <2>. DEFINE W == WaitingIn(l, epoch)
              F(n) == SumFunctionOnSet(FeesIn(n, epoch), AllocationIDs)
              S(n) == SumFunctionOnSet(StakesIn(n, epoch), AllocationIDs)
  <2>1. id \notin W
    BY <1>4 DEF WaitingIn
  <2>2. /\ F(m) = F(l) + (FeesIn(m, epoch)[id] - FeesIn(l, epoch)[id])
        /\ S(m) = S(l) + (StakesIn(m, epoch)[id] - StakesIn(l, epoch)[id])
        /\ WaitingIn(m, epoch) = W \cup {id}
        /\ m.allocations[id] = a
    BY <1>1, <1>2, <1>3, PoolSumsAfter
  <2>3. /\ FeesIn(m, epoch)[id] = alloc.collectedFees /\ FeesIn(l, epoch)[id] = 0
        /\ StakesIn(m, epoch)[id] = effective /\ StakesIn(l, epoch)[id] = 0
    BY <1>3, <2>1, <2>2 DEF FeesIn, StakesIn
  <2>4. /\ F(l) \in Int /\ S(l) \in Int /\ F(l) <= b.fees /\ S(l) <= b.effectiveAllocatedStake
        /\ b.unclaimedAllocationsCount = Cardinality(W) /\ b.claimedRewards <= b.fees
    BY <1>8, WaitingNat DEF PoolBooked, b
  <2>5. Cardinality(W \cup {id}) = Cardinality(W) + 1
    BY <2>1, WaitingNat, FS_AddElement
  <2>6. (Cardinality(W) + 1) % CounterSize = Cardinality(W) + 1
    <3>1. /\ Cardinality(W) \in Nat /\ Cardinality(W) + 1 <= Cardinality(AllocationIDs)
          /\ Cardinality(AllocationIDs) \in Nat
      BY <2>2, <2>5, WaitingNat
    <3>2. Cardinality(W) + 1 \in 0 .. CounterSize - 1 /\ CounterSize \in Nat \ {0}
      BY <3>1, CounterSizeAssumption DEF Countable
    <3>. QED
      BY <3>2
  <2>7. m.rebates[epoch] = p
    BY <1>2, <1>7
  <2>8. p.unclaimedAllocationsCount = Cardinality(WaitingIn(m, epoch))
    BY <1>5, <2>2, <2>4, <2>5, <2>6
  <2>. HIDE DEF W, F, S
  <2>9. F(m) <= p.fees /\ S(m) <= p.effectiveAllocatedStake /\ p.claimedRewards <= p.fees
    BY <1>2, <1>5, <1>6, <2>2, <2>3, <2>4
  <2>. QED
    BY <2>2, <2>7, <2>8, <2>9 DEF PoolBooked, F, S
<1>11. ASSUME NEW x \in AllocationIDs, IsWaiting(m.allocations[x])
       PROVE  m.allocations[x].effectiveAllocation > 0
  <2>1. m.allocations[x] = IF x = id THEN a ELSE l.allocations[x]
    BY <1>1 DEF Good, OpenLedger
  <2>. QED
    BY <1>3, <1>11, <2>1 DEF RebatesBooked
<1>. QED
  BY <1>9, <1>10, <1>11 DEF RebatesBooked

\* A claim takes out of its pool, and the last one removes it.
LEMMA ClaimsKeepsPools ==
    ASSUME Countable, Context, NEW l, NEW m, Good(l), Good(m), RebatesBooked(l),
           NEW id \in AllocationIDs, NEW rebate \in Nat, CanClaim(l, id),
           rebate <= UnclaimedFees(l.rebates[l.allocations[id].closedAtEpoch]),
           Claims(l, m, id, rebate)
    PROVE  RebatesBooked(m)
<1>. DEFINE alloc == l.allocations[id]
            at == alloc.closedAtEpoch
            a == Purged(alloc)
            b == l.rebates[at]
            pool == Redeem(b, rebate)
            p == IF pool.unclaimedAllocationsCount = 0 THEN NoPool ELSE pool
            W == WaitingIn(l, at)
            F(n) == SumFunctionOnSet(FeesIn(n, at), AllocationIDs)
            S(n) == SumFunctionOnSet(StakesIn(n, at), AllocationIDs)
<1>1. /\ m.allocations = [l.allocations EXCEPT ![id] = a]
      /\ m.rebates = [l.rebates EXCEPT ![at] = p]
  BY DEF Claims
<1>2. /\ alloc \in Allocation /\ at \in Epochs /\ b \in Pool
      /\ alloc.collectedFees \in Nat /\ alloc.effectiveAllocation \in Nat
  BY DEF Good, OpenLedger, Allocation
<1>3. IsWaiting(alloc)
  BY DEF CanClaim, StateOf, AllocationState, IsWaiting
<1>4. ~IsWaiting(a)
  BY DEF IsWaiting, Purged, NoAllocation
<1>5. /\ b.fees \in Nat /\ b.effectiveAllocatedStake \in Nat /\ b.claimedRewards \in Nat
  BY <1>2 DEF Pool
<1>6. /\ pool.fees = b.fees /\ pool.effectiveAllocatedStake = b.effectiveAllocatedStake
      /\ pool.claimedRewards = b.claimedRewards + rebate
      /\ pool.unclaimedAllocationsCount = (b.unclaimedAllocationsCount - 1) % CounterSize
  <2>. HIDE DEF b
  <2>. QED
    BY <1>2 DEF Redeem, Pool
<1>7. b.claimedRewards + rebate <= b.fees
  <2>1. rebate <= b.fees - b.claimedRewards
    BY DEF UnclaimedFees
  <2>. HIDE DEF b
  <2>. QED
    BY <1>5, <2>1
<1>8. \A e \in Epochs : m.rebates[e] = IF e = at THEN p ELSE l.rebates[e]
  <2>. HIDE DEF p, at
  <2>. QED
    BY <1>1 DEF Good, OpenLedger
<1>9. id \in W
  BY <1>3 DEF WaitingIn
<1>. HIDE DEF a, at
<1>10. /\ F(m) = F(l) + (FeesIn(m, at)[id] - FeesIn(l, at)[id])
       /\ S(m) = S(l) + (StakesIn(m, at)[id] - StakesIn(l, at)[id])
       /\ WaitingIn(m, at) = W \ {id}
       /\ m.allocations[id] = a
  BY <1>1, <1>2, <1>4, PoolSumsAfter
<1>11. /\ FeesIn(m, at)[id] = 0 /\ FeesIn(l, at)[id] = alloc.collectedFees
       /\ StakesIn(m, at)[id] = 0 /\ StakesIn(l, at)[id] = alloc.effectiveAllocation
  BY <1>9, <1>10 DEF FeesIn, StakesIn
<1>12. /\ F(l) \in Int /\ S(l) \in Int /\ F(l) <= b.fees /\ S(l) <= b.effectiveAllocatedStake
       /\ b.unclaimedAllocationsCount = Cardinality(W)
  BY <1>2, WaitingNat DEF RebatesBooked, PoolBooked
<1>13. /\ Cardinality(W \ {id}) = Cardinality(W) - 1
       /\ IsFiniteSet(W \ {id})
       /\ Cardinality(W \ {id}) \in Nat
       /\ Cardinality(W) \in Nat /\ Cardinality(W) <= Cardinality(AllocationIDs)
       /\ Cardinality(AllocationIDs) \in Nat
  BY <1>9, WaitingNat, FS_RemoveElement, FS_CardinalityType
<1>. DEFINE c == Cardinality(W \ {id})
<1>14. pool.unclaimedAllocationsCount = c
  <2>1. c \in 0 .. CounterSize - 1 /\ CounterSize \in Nat \ {0}
    BY <1>13, CounterSizeAssumption DEF Countable
  <2>2. c % CounterSize = c
    BY <2>1
  <2>. QED
    BY <1>6, <1>12, <1>13, <2>2
<1>15. PoolBooked(m, at)
  <2>1. m.rebates[at] = p
    BY <1>2, <1>8
  <2>2. F(m) <= b.fees /\ S(m) <= b.effectiveAllocatedStake
    <3>. HIDE DEF F, S, b
    <3>. QED
      BY <1>2, <1>5, <1>10, <1>11, <1>12
  <2>3. CASE c = 0
    <3>1. p = NoPool
      BY <1>14, <2>3
    <3>2. WaitingIn(m, at) = {}
      BY <1>10, <1>13, <2>3, FS_EmptySet
    <3>3. F(m) = 0 /\ S(m) = 0
      <4>1. \A x \in AllocationIDs : FeesIn(m, at)[x] = 0 /\ StakesIn(m, at)[x] = 0
        BY <3>2 DEF FeesIn, StakesIn
      <4>. QED
        BY <4>1, FiniteSets, SumOfZeros
    <3>4. Cardinality(WaitingIn(m, at)) = 0
      BY <3>2, FS_EmptySet
    <3>. QED
      BY <2>1, <3>1, <3>2, <3>3, <3>4 DEF PoolBooked, NoPool
  <2>4. CASE c # 0
    <3>1. p = pool
      BY <1>14, <2>4
    <3>2. WaitingIn(m, at) # {}
      BY <1>10, <2>4, FS_EmptySet
    <3>3. Cardinality(WaitingIn(m, at)) = c
      BY <1>10
    <3>. HIDE DEF pool, c
    <3>. QED
      BY <1>6, <1>7, <1>14, <2>1, <2>2, <3>1, <3>2, <3>3 DEF PoolBooked
  <2>. QED
    BY <2>3, <2>4
<1>16. ASSUME NEW e \in Epochs, e # at
       PROVE  PoolBooked(m, e)
  <2>1. id \notin WaitingIn(l, e) /\ PoolBooked(l, e)
    BY <1>16 DEF WaitingIn, RebatesBooked, at
  <2>2. ~(IsWaiting(a) /\ a.closedAtEpoch = e) /\ m.rebates[e] = l.rebates[e]
    BY <1>4, <1>8, <1>16
  <2>. QED
    <3>1. /\ Good(l) /\ e \in Epochs /\ PoolBooked(l, e) /\ id \in AllocationIDs
          /\ m.allocations = [l.allocations EXCEPT ![id] = a]
          /\ id \notin WaitingIn(l, e) /\ ~(IsWaiting(a) /\ a.closedAtEpoch = e)
          /\ m.rebates[e] = l.rebates[e]
      BY <1>1, <1>4, <1>8, <1>16, <2>1, <2>2
    <3>. HIDE DEF a
    <3>. QED
      BY <3>1, PoolAway
<1>17. ASSUME NEW x \in AllocationIDs, IsWaiting(m.allocations[x])
       PROVE  m.allocations[x].effectiveAllocation > 0
  <2>1. m.allocations[x] = IF x = id THEN a ELSE l.allocations[x]
    BY <1>1 DEF Good, OpenLedger
  <2>. QED
    BY <1>4, <1>17, <2>1 DEF RebatesBooked
<1>. QED
  BY <1>15, <1>16, <1>17 DEF RebatesBooked

\* Fees for a closed allocation are added to it and to its pool.
LEMMA CollectsKeepsPools ==
    ASSUME Context, NEW l, NEW m, Good(l), Good(m), RebatesBooked(l),
           NEW id \in AllocationIDs, NEW fees \in Nat, Collects(l, m, id, fees)
    PROVE  RebatesBooked(m)
<1>. DEFINE alloc == l.allocations[id]
            state == StateOf(l, id)
            at == alloc.closedAtEpoch
            a == [alloc EXCEPT !.collectedFees = alloc.collectedFees + fees]
            b == l.rebates[at]
            p == [b EXCEPT !.fees = b.fees + fees]
            W == WaitingIn(l, at)
            F(n) == SumFunctionOnSet(FeesIn(n, at), AllocationIDs)
            S(n) == SumFunctionOnSet(StakesIn(n, at), AllocationIDs)
<1>1. /\ m.allocations = [l.allocations EXCEPT ![id] = a]
      /\ m.rebates = IF state = "Closed" THEN [l.rebates EXCEPT ![at] = p] ELSE l.rebates
      /\ state \notin {"Active", "Closed"} => fees = 0
  BY DEF Collects
<1>2. /\ alloc \in Allocation /\ at \in Epochs /\ b \in Pool
      /\ alloc.collectedFees \in Nat /\ alloc.effectiveAllocation \in Nat
  BY DEF Good, OpenLedger, Allocation
<1>3. /\ IsWaiting(a) <=> IsWaiting(alloc)
      /\ a.closedAtEpoch = at /\ a.collectedFees = alloc.collectedFees + fees
      /\ a.effectiveAllocation = alloc.effectiveAllocation
  BY <1>2 DEF IsWaiting, Allocation
<1>4. state \in {"Active", "Claimed", "Null"} => ~IsWaiting(alloc)
  BY DEF StateOf, AllocationState, IsWaiting
<1>5. /\ state = "Closed" => IsWaiting(alloc)
      /\ state \in {"Active", "Claimed", "Null", "Closed", "Finalized"}
  BY DEF StateOf, AllocationState, IsWaiting
<1>6. /\ b.fees \in Nat /\ b.effectiveAllocatedStake \in Nat /\ b.claimedRewards \in Nat
  BY <1>2 DEF Pool
<1>7. /\ p.fees = b.fees + fees /\ p.effectiveAllocatedStake = b.effectiveAllocatedStake
      /\ p.claimedRewards = b.claimedRewards
      /\ p.unclaimedAllocationsCount = b.unclaimedAllocationsCount
  <2>. HIDE DEF b
  <2>. QED
    BY <1>2 DEF Pool
<1>8. \A e \in Epochs : m.rebates[e] = IF e = at /\ state = "Closed" THEN p ELSE l.rebates[e]
  <2>. HIDE DEF p, at, state
  <2>. QED
    BY <1>1 DEF Good, OpenLedger
<1>. HIDE DEF a, state, p
<1>9. ASSUME NEW e \in Epochs, e # at \/ ~IsWaiting(alloc)
      PROVE  PoolBooked(m, e)
  <2>1. id \notin WaitingIn(l, e) /\ PoolBooked(l, e)
    BY <1>9 DEF WaitingIn, RebatesBooked
  <2>2. ~(IsWaiting(a) /\ a.closedAtEpoch = e) /\ m.rebates[e] = l.rebates[e]
    BY <1>3, <1>5, <1>8, <1>9
  <2>. QED
    BY <1>1, <2>1, <2>2, PoolAway
<1>10. CASE IsWaiting(alloc)
  <2>1. id \in W
    BY <1>10 DEF WaitingIn
  <2>. HIDE DEF at
  <2>2. /\ F(m) = F(l) + (FeesIn(m, at)[id] - FeesIn(l, at)[id])
        /\ S(m) = S(l) + (StakesIn(m, at)[id] - StakesIn(l, at)[id])
        /\ WaitingIn(m, at) = W \cup {id}
        /\ m.allocations[id] = a
    BY <1>1, <1>2, <1>3, <1>10, PoolSumsAfter
  <2>3. WaitingIn(m, at) = W /\ W # {}
    BY <2>1, <2>2
  <2>4. /\ FeesIn(m, at)[id] = alloc.collectedFees + fees
        /\ FeesIn(l, at)[id] = alloc.collectedFees
        /\ StakesIn(m, at)[id] = StakesIn(l, at)[id]
    BY <1>3, <2>1, <2>2, <2>3 DEF FeesIn, StakesIn
  <2>5. /\ F(l) \in Int /\ S(l) \in Int /\ F(l) <= b.fees /\ S(l) <= b.effectiveAllocatedStake
        /\ b.unclaimedAllocationsCount = Cardinality(W) /\ b.claimedRewards <= b.fees
        /\ StakesIn(l, at)[id] \in Int
    BY <1>2, WaitingNat DEF RebatesBooked, PoolBooked
  <2>. DEFINE q == m.rebates[at]
  <2>6. /\ q.fees = b.fees + fees /\ q.effectiveAllocatedStake = b.effectiveAllocatedStake
        /\ q.claimedRewards = b.claimedRewards
        /\ q.unclaimedAllocationsCount = b.unclaimedAllocationsCount
    <3>1. CASE state = "Closed"
      BY <1>2, <1>7, <1>8, <3>1
    <3>2. CASE state # "Closed"
      <4>1. fees = 0 /\ q = b
        BY <1>1, <1>2, <1>4, <1>5, <1>8, <1>10, <3>2
      <4>. HIDE DEF b, q
      <4>. QED
        BY <1>6, <4>1
    <3>. QED
      BY <3>1, <3>2
  <2>. HIDE DEF F, S, W, b
  <2>7. /\ F(m) <= q.fees /\ S(m) <= q.effectiveAllocatedStake /\ q.claimedRewards <= q.fees
        /\ q.unclaimedAllocationsCount = Cardinality(WaitingIn(m, at))
        /\ WaitingIn(m, at) # {}
    <3>. HIDE DEF q
    <3>1. F(m) = F(l) + fees /\ S(m) = S(l)
      BY <1>2, <2>2, <2>4, <2>5
    <3>2. /\ F(m) <= q.fees /\ S(m) <= q.effectiveAllocatedStake
          /\ q.claimedRewards <= q.fees
      BY <1>6, <2>5, <2>6, <3>1
    <3>. QED
      BY <2>3, <2>5, <2>6, <3>2
  <2>8. PoolBooked(m, at)
    BY <2>7 DEF PoolBooked, F, S
  <2>9. \A e \in Epochs : PoolBooked(m, e)
    BY <1>9, <2>8
  <2>10. ASSUME NEW x \in AllocationIDs, IsWaiting(m.allocations[x])
         PROVE  m.allocations[x].effectiveAllocation > 0
    <3>1. m.allocations[x] = IF x = id THEN a ELSE l.allocations[x]
      BY <1>1 DEF Good, OpenLedger
    <3>. QED
      BY <1>3, <2>10, <3>1 DEF RebatesBooked
  <2>. QED
    BY <2>9, <2>10 DEF RebatesBooked
<1>11. CASE ~IsWaiting(alloc)
  <2>1. ASSUME NEW x \in AllocationIDs, IsWaiting(m.allocations[x])
        PROVE  m.allocations[x].effectiveAllocation > 0
    <3>1. m.allocations[x] = IF x = id THEN a ELSE l.allocations[x]
      BY <1>1 DEF Good, OpenLedger
    <3>. QED
      BY <1>3, <1>11, <2>1, <3>1 DEF RebatesBooked
  <2>. QED
    BY <1>9, <1>11, <2>1 DEF RebatesBooked
<1>. QED
  BY <1>10, <1>11

\* Each way to move an allocation keeps the pools.
LEMMA RebatesKept ==
    ASSUME Countable, Context, NEW l, NEW m, Good(l), Good(m), AllocationMove(l, m),
           RebatesBooked(l)
    PROVE  RebatesBooked(m)
<1>1. CASE SameAllocations(l, m)
  BY <1>1 DEF SameAllocations, RebatesBooked, PoolBooked, WaitingIn, FeesIn, StakesIn
<1>2. ASSUME NEW i \in Indexers, NEW s \in Subgraphs, NEW tokens \in Nat \ {0},
             NEW id \in AllocationIDs,
             l.allocations[id].indexer = NoAddress, Opens(l, m, i, s, tokens, id)
      PROVE  RebatesBooked(m)
  <2>. DEFINE a == [indexer              |-> i,
                    subgraphDeploymentID |-> s,
                    tokens               |-> tokens,
                    createdAtEpoch       |-> epoch,
                    closedAtEpoch        |-> 0,
                    collectedFees        |-> 0,
                    effectiveAllocation  |-> 0]
  <2>1. m.allocations = [l.allocations EXCEPT ![id] = a] /\ m.rebates = l.rebates
    BY <1>2 DEF Opens
  <2>2. ~IsWaiting(a) /\ ~IsWaiting(l.allocations[id])
    BY <1>2 DEF IsWaiting
  <2>. HIDE DEF a
  <2>3. ASSUME NEW e \in Epochs PROVE PoolBooked(m, e)
    <3>1. /\ id \notin WaitingIn(l, e) /\ PoolBooked(l, e)
          /\ ~(IsWaiting(a) /\ a.closedAtEpoch = e) /\ m.rebates[e] = l.rebates[e]
      BY <2>1, <2>2 DEF WaitingIn, RebatesBooked
    <3>. QED
      BY <2>1, <3>1, PoolAway
  <2>4. ASSUME NEW x \in AllocationIDs, IsWaiting(m.allocations[x])
        PROVE  m.allocations[x].effectiveAllocation > 0
    <3>1. m.allocations[x] = IF x = id THEN a ELSE l.allocations[x]
      BY <2>1 DEF Good, OpenLedger
    <3>. QED
      BY <2>2, <2>4, <3>1 DEF RebatesBooked
  <2>. QED
    BY <2>3, <2>4 DEF RebatesBooked
<1>3. ASSUME NEW id \in AllocationIDs, NEW effective \in Nat \ {0},
             l.allocations[id].createdAtEpoch < epoch, Closes(l, m, id, effective)
      PROVE  RebatesBooked(m)
  BY <1>3, ClosesKeepsPools
<1>4. ASSUME NEW id \in AllocationIDs, NEW rebate \in Nat, CanClaim(l, id),
             rebate <= UnclaimedFees(l.rebates[l.allocations[id].closedAtEpoch]),
             Claims(l, m, id, rebate)
      PROVE  RebatesBooked(m)
  BY <1>4, ClaimsKeepsPools
<1>5. ASSUME NEW id \in AllocationIDs, NEW fees \in Nat, Collects(l, m, id, fees)
      PROVE  RebatesBooked(m)
  BY <1>5, CollectsKeepsPools
<1>. QED
  BY <1>1, <1>2, <1>3, <1>4, <1>5 DEF AllocationMove

-----------------------------------------------------------------------------
(* The books are kept *)

\* The books are empty after initialize().
LEMMA InitBooks ==
    ASSUME Init
    PROVE  RebateBooks
<1>1. IInv
  BY InitGood
<1>2. IsFiniteSet(Indexers) /\ IsFiniteSet(Delegators) /\ IsFiniteSet(Pairs)
      /\ IsFiniteSet(AllocationIDs) /\ IsFiniteSet(Epochs)
  BY FiniteSets
<1>3. /\ \A i \in Indexers : /\ ledger.stakes[i] = EmptyStake
                             /\ ledger.delegationPools[i] = EmptyDelegationPool
                             /\ \A d \in Delegators :
                                   ledger.delegations[i][d] = EmptyDelegation
      /\ \A id \in AllocationIDs : ledger.allocations[id] = NoAllocation
      /\ \A s \in Subgraphs : ledger.subgraphAllocations[s] = 0
      /\ \A e \in Epochs : ledger.rebates[e] = NoPool
      /\ ledger.grt[StakingAddress] = 0
  BY AddressAssumption DEF Init, Holders
<1>4. ~IsActive(NoAllocation) /\ ~IsWaiting(NoAllocation)
  BY DEF IsActive, IsWaiting, NoAllocation
<1>5. Surplus(ledger) = 0
  <2>1. SumFunctionOnSet(HeldFor(ledger), Indexers) = 0
    <3>1. \A i \in Indexers : HeldFor(ledger)[i] = 0
      BY <1>3 DEF HeldFor, EmptyStake, EmptyDelegationPool
    <3>. QED
      BY <1>2, <3>1, SumOfZeros
  <2>2. SumFunctionOnSet(ThawingFor(ledger), Pairs) = 0
    <3>1. \A x \in Pairs : ThawingFor(ledger)[x] = 0
      BY <1>3 DEF ThawingFor, Pairs, EmptyDelegation
    <3>. QED
      BY <1>2, <3>1, SumOfZeros
  <2>3. SumFunctionOnSet(FeesOf(ledger), AllocationIDs) = 0
    <3>1. \A id \in AllocationIDs : FeesOf(ledger)[id] = 0
      BY <1>3, <1>4 DEF FeesOf
    <3>. QED
      BY <1>2, <3>1, SumOfZeros
  <2>4. SumFunctionOnSet(RebatesOf(ledger), Epochs) = 0
    <3>1. \A e \in Epochs : RebatesOf(ledger)[e] = 0
      BY <1>3 DEF RebatesOf, UnclaimedFees, NoPool
    <3>. QED
      BY <1>2, <3>1, SumOfZeros
  <2>. QED
    BY <1>3, <2>1, <2>2, <2>3, <2>4 DEF Surplus, Owed
<1>6. SharesBooked(ledger)
  <2>1. \A i \in Indexers, d \in Delegators : SharesOf(ledger, i)[d] = 0
    BY <1>3 DEF SharesOf, EmptyDelegation
  <2>2. \A i \in Indexers : SumFunctionOnSet(SharesOf(ledger, i), Delegators) = 0
    BY <1>2, <2>1, SumOfZeros
  <2>. QED
    BY <1>3, <2>2 DEF SharesBooked, EmptyDelegationPool
<1>7. AllocationsBooked(ledger)
  <2>1. \A i \in Indexers : SumFunctionOnSet(TokensOf(ledger, i), AllocationIDs) = 0
    <3>1. \A i \in Indexers, id \in AllocationIDs : TokensOf(ledger, i)[id] = 0
      BY <1>3, <1>4 DEF TokensOf
    <3>. QED
      BY <1>2, <3>1, SumOfZeros
  <2>2. \A s \in Subgraphs : SumFunctionOnSet(TokensOn(ledger, s), AllocationIDs) = 0
    <3>1. \A s \in Subgraphs, id \in AllocationIDs : TokensOn(ledger, s)[id] = 0
      BY <1>3, <1>4 DEF TokensOn
    <3>. QED
      BY <1>2, <3>1, SumOfZeros
  <2>. QED
    BY <1>3, <2>1, <2>2 DEF AllocationsBooked, EmptyStake
<1>8. RebatesBooked(ledger)
  <2>1. ASSUME NEW e \in Epochs PROVE PoolBooked(ledger, e)
    <3>1. WaitingIn(ledger, e) = {}
      BY <1>3, <1>4 DEF WaitingIn
    <3>2. Cardinality(WaitingIn(ledger, e)) = 0
      BY <3>1, FS_EmptySet
    <3>3. \A id \in AllocationIDs : FeesIn(ledger, e)[id] = 0 /\ StakesIn(ledger, e)[id] = 0
      BY <3>1 DEF FeesIn, StakesIn
    <3>4. /\ SumFunctionOnSet(FeesIn(ledger, e), AllocationIDs) = 0
          /\ SumFunctionOnSet(StakesIn(ledger, e), AllocationIDs) = 0
      BY <1>2, <3>3, SumOfZeros
    <3>. QED
      BY <1>3, <3>1, <3>2, <3>4 DEF PoolBooked, NoPool
  <2>. QED
    BY <1>3, <1>4, <2>1 DEF RebatesBooked
<1>. QED
  BY <1>1, <1>5, <1>6, <1>7, <1>8 DEF RebateBooks, Books

\* A step keeps the books, since it moves allocations twice at most, whatever
\* contracts it is a step of.
LEMMA BooksAfter ==
    ASSUME Books, GoodStep
    PROVE  Books'
<1>1. /\ IInv /\ IInv' /\ Good(ledger) /\ Good(ledger')
      /\ PoolStep(ledger, ledger') /\ AllocationStep(ledger, ledger')
      /\ Surplus(ledger') = 0
  BY DEF GoodStep, Sound, Books, IInv
<1>2. SharesBooked(ledger')
  BY <1>1, SharesKept DEF Books
<1>3. AllocationsBooked(ledger')
  <2>1. PICK n : Good(n) /\ AllocationMove(ledger, n) /\ AllocationMove(n, ledger')
    BY <1>1 DEF AllocationStep
  <2>2. AllocationsBooked(n)
    BY <1>1, <2>1, InvContext, AllocationsKept DEF Books
  <2>. QED
    BY <1>1, <2>1, <2>2, InvContext, AllocationsKept
<1>. QED
  BY <1>1, <1>2, <1>3 DEF Books

LEMMA BooksStep ==
    ASSUME Books, [Next]_vars
    PROVE  Books'
BY NextStep, BooksAfter DEF Books

\* It keeps the rebate pools too.
LEMMA RebateBooksStep ==
    ASSUME Countable, RebateBooks, [Next]_vars
    PROVE  RebateBooks'
<1>1. Books'
  BY BooksStep DEF RebateBooks
<1>2. GoodStep /\ IInv
  BY NextStep DEF RebateBooks, Books
<1>3. Good(ledger) /\ Good(ledger') /\ AllocationStep(ledger, ledger')
  BY <1>2 DEF GoodStep, Sound, IInv
<1>4. PICK n : Good(n) /\ AllocationMove(ledger, n) /\ AllocationMove(n, ledger')
  BY <1>3 DEF AllocationStep
<1>5. RebatesBooked(n)
  BY <1>2, <1>3, <1>4, InvContext, RebatesKept DEF RebateBooks
<1>6. RebatesBooked(ledger')
  BY <1>2, <1>3, <1>4, <1>5, InvContext, RebatesKept
<1>. QED
  BY <1>1, <1>6 DEF RebateBooks

\* The books are kept in every reachable state of Staking.sol.
THEOREM BooksInvariant == Spec => []Books
<1>1. Init => Books
  BY InitBooks DEF RebateBooks
<1>2. Books /\ [Next]_vars => Books'
  BY BooksStep
<1>. QED
  BY <1>1, <1>2, PTL DEF Spec

\* Active as the properties say it and as the code tests it.
LEMMA ActiveIs ==
    /\ AllocationsIn({"Active"}) \in SUBSET AllocationIDs
    /\ \A id \in AllocationIDs :
          id \in AllocationsIn({"Active"}) <=> IsActive(ledger.allocations[id])
BY DEF AllocationsIn, StateOf, AllocationState, IsActive

\* With nothing over, the contract holds what it owes.
LEMMA BooksSolvent ==
    ASSUME Books
    PROVE  Solvent
<1>1. Good(ledger) /\ Surplus(ledger) = 0
  BY DEF Books, IInv
<1>. DEFINE R == AllocationsIn({"Active"})
            f == [id \in R |-> ledger.allocations[id].collectedFees]
            h == FeesOf(ledger)
<1>2. R \in SUBSET AllocationIDs /\ IsFiniteSet(AllocationIDs)
  BY ActiveIs, FiniteSets
<1>3. \A id \in R : f[id] \in Int
  BY <1>1, <1>2 DEF Good, OpenLedger, Allocation
<1>4. \A id \in AllocationIDs : h[id] = IF id \in R THEN f[id] ELSE 0
  BY ActiveIs DEF FeesOf
<1>5. DOMAIN f = R
  OBVIOUS
<1>. HIDE DEF R, f, h
<1>6. SumFunctionOnSet(f, R) = SumFunctionOnSet(h, AllocationIDs)
  BY <1>2, <1>3, <1>4, SumOverPart
<1>7. SumFunction(f) = SumFunctionOnSet(h, AllocationIDs)
  BY <1>5, <1>6 DEF SumFunction
<1>8. /\ SumFunction([i \in Indexers |-> ledger.stakes[i].tokensStaked
                                         + ledger.delegationPools[i].tokens])
            = SumFunctionOnSet(HeldFor(ledger), Indexers)
      /\ SumFunction([p \in Indexers \X Delegators |->
                         ledger.delegations[p[1]][p[2]].tokensLocked])
            = SumFunctionOnSet(ThawingFor(ledger), Pairs)
      /\ SumFunction([e \in Epochs |-> UnclaimedFees(ledger.rebates[e])])
            = SumFunctionOnSet(RebatesOf(ledger), Epochs)
  BY DEF SumFunction, HeldFor, ThawingFor, RebatesOf, Pairs
<1>9. Liabilities = Owed(ledger)
  BY <1>7, <1>8 DEF Liabilities, Owed, f, h, R
<1>10. ledger.grt[StakingAddress] \in Int /\ Owed(ledger) \in Int
  BY <1>1, OwedSums
<1>. QED
  BY <1>1, <1>9, <1>10 DEF Surplus, Solvent

\* The totals as the properties say them, over the active allocations only.
LEMMA BooksAllocated ==
    ASSUME Books
    PROVE  AllocatedAddsUp
<1>1. Good(ledger) /\ AllocationsBooked(ledger)
  BY DEF Books, IInv
<1>2. ASSUME NEW ids \in SUBSET AllocationIDs, NEW h,
             \A id \in AllocationIDs :
                h[id] = IF id \in ids THEN ledger.allocations[id].tokens ELSE 0
      PROVE  AllocatedTokens(ids) = SumFunctionOnSet(h, AllocationIDs)
  <2>. DEFINE f == [id \in ids |-> ledger.allocations[id].tokens]
  <2>1. (\A id \in ids : f[id] \in Int) /\ DOMAIN f = ids
    BY <1>1 DEF Good, OpenLedger, Allocation
  <2>2. \A id \in AllocationIDs : h[id] = IF id \in ids THEN f[id] ELSE 0
    BY <1>2
  <2>3. AllocatedTokens(ids) = SumFunction(f)
    BY DEF AllocatedTokens
  <2>. HIDE DEF f
  <2>4. SumFunctionOnSet(f, ids) = SumFunctionOnSet(h, AllocationIDs)
    BY <2>1, <2>2, FiniteSets, SumOverPart
  <2>. QED
    BY <2>1, <2>3, <2>4 DEF SumFunction
<1>. DEFINE R == AllocationsIn({"Active"})
            Of(i) == {id \in R : ledger.allocations[id].indexer = i}
            On(s) == {id \in R : ledger.allocations[id].subgraphDeploymentID = s}
<1>3. ASSUME NEW i \in Indexers
      PROVE  ledger.stakes[i].tokensAllocated = AllocatedTokens(Of(i))
  <2>1. Of(i) \in SUBSET AllocationIDs
    BY ActiveIs
  <2>2. \A id \in AllocationIDs :
           TokensOf(ledger, i)[id] = IF id \in Of(i) THEN ledger.allocations[id].tokens ELSE 0
    BY ActiveIs DEF TokensOf
  <2>. HIDE DEF Of
  <2>3. AllocatedTokens(Of(i)) = SumFunctionOnSet(TokensOf(ledger, i), AllocationIDs)
    BY <1>2, <2>1, <2>2
  <2>. QED
    BY <1>1, <2>3 DEF AllocationsBooked
<1>4. ASSUME NEW s \in Subgraphs
      PROVE  ledger.subgraphAllocations[s] = AllocatedTokens(On(s))
  <2>1. On(s) \in SUBSET AllocationIDs
    BY ActiveIs
  <2>2. \A id \in AllocationIDs :
           TokensOn(ledger, s)[id] = IF id \in On(s) THEN ledger.allocations[id].tokens ELSE 0
    BY ActiveIs DEF TokensOn
  <2>. HIDE DEF On
  <2>3. AllocatedTokens(On(s)) = SumFunctionOnSet(TokensOn(ledger, s), AllocationIDs)
    BY <1>2, <2>1, <2>2
  <2>. QED
    BY <1>1, <2>3 DEF AllocationsBooked
<1>. QED
  BY <1>3, <1>4 DEF AllocatedAddsUp

\* What the books say of the running totals.
LEMMA BooksAddUp ==
    ASSUME Books
    PROVE  TotalsAddUp
<1>1. \A i \in Indexers :
         SumFunction([d \in Delegators |-> ledger.delegations[i][d].shares])
            = SumFunctionOnSet(SharesOf(ledger, i), Delegators)
  BY DEF SumFunction, SharesOf
<1>2. SharesAddUp
  BY <1>1 DEF Books, SharesBooked, SharesAddUp
<1>. QED
  BY <1>2, BooksSolvent, BooksAllocated DEF TotalsAddUp

\* The contract holds exactly what it owes, and every running total is the sum of
\* its parts, whatever deposits, slashes, taxes, rewards, closings and claims come
\* in which order: no subtraction of a close reverts and no tokens are stranded
\* (Staking.sol:1163-1216).
THEOREM TotalsStayExact == Spec => []TotalsAddUp
BY BooksAddUp, BooksInvariant, PTL

\* The pools as the properties say them.
LEMMA BooksRebates ==
    ASSUME RebateBooks
    PROVE  RebatesSound
<1>1. Good(ledger) /\ RebatesBooked(ledger)
  BY DEF RebateBooks, Books, IInv
<1>. SUFFICES ASSUME NEW e \in Epochs
     PROVE  LET pool   == ledger.rebates[e]
                fees   == [id \in AwaitingClaim(e) |-> ledger.allocations[id].collectedFees]
                stakes == [id \in AwaitingClaim(e) |->
                              ledger.allocations[id].effectiveAllocation]
            IN  /\ pool.unclaimedAllocationsCount = Cardinality(AwaitingClaim(e))
                /\ PoolExists(pool) <=> AwaitingClaim(e) # {}
                /\ SumFunction(fees) <= pool.fees
                /\ SumFunction(stakes) <= pool.effectiveAllocatedStake
                /\ pool.claimedRewards <= pool.fees
  BY DEF RebatesSound, RebateCountExact, RebateTotalsCover
<1>. DEFINE W == WaitingIn(ledger, e)
            pool == ledger.rebates[e]
            fees == [id \in W |-> ledger.allocations[id].collectedFees]
            stakes == [id \in W |-> ledger.allocations[id].effectiveAllocation]
            F == FeesIn(ledger, e)
            S == StakesIn(ledger, e)
<1>2. AwaitingClaim(e) = W
  BY DEF AwaitingClaim, AllocationsIn, StateOf, AllocationState, WaitingIn, IsWaiting
<1>3. /\ PoolBooked(ledger, e)
      /\ \A id \in W : ledger.allocations[id].effectiveAllocation > 0
  BY <1>1 DEF RebatesBooked, WaitingIn
<1>4. /\ W \in SUBSET AllocationIDs /\ DOMAIN fees = W /\ DOMAIN stakes = W
      /\ \A id \in W : fees[id] \in Int /\ stakes[id] \in Nat
  BY <1>1 DEF WaitingIn, Good, OpenLedger, Allocation
<1>5. /\ \A id \in AllocationIDs : F[id] = IF id \in W THEN fees[id] ELSE 0
      /\ \A id \in AllocationIDs : S[id] = IF id \in W THEN stakes[id] ELSE 0
  BY DEF FeesIn, StakesIn
<1>6. \A id \in W : stakes[id] > 0
  BY <1>3
<1>7. pool.effectiveAllocatedStake \in Nat
  BY <1>1 DEF Good, OpenLedger, Pool
<1>. HIDE DEF fees, stakes, F, S, W, pool
<1>8. SumFunctionOnSet(fees, W) = SumFunctionOnSet(F, AllocationIDs)
  BY <1>4, <1>5, FiniteSets, SumOverPart
<1>9. SumFunctionOnSet(stakes, W) = SumFunctionOnSet(S, AllocationIDs)
  BY <1>4, <1>5, FiniteSets, SumOverPart
<1>10. SumFunction(fees) <= pool.fees /\ SumFunction(stakes) <= pool.effectiveAllocatedStake
  BY <1>3, <1>4, <1>8, <1>9 DEF SumFunction, PoolBooked, F, S, pool
<1>11. PoolExists(pool) <=> W # {}
  <2>1. CASE W = {}
    BY <1>3, <2>1 DEF PoolBooked, PoolExists, W, pool
  <2>2. CASE W # {}
    <3>1. PICK id \in W : TRUE
      BY <2>2
    <3>2. IsFiniteSet(W)
      BY <1>4, FiniteSets, FS_Subset
    <3>3. stakes[id] <= SumFunctionOnSet(stakes, W)
      BY <1>4, <3>1, <3>2, SumCoversEach
    <3>4. SumFunctionOnSet(stakes, W) \in Nat
      BY <1>4, <3>2, SumIsNat
    <3>5. SumFunctionOnSet(stakes, W) <= pool.effectiveAllocatedStake
      BY <1>3, <1>9 DEF PoolBooked, S, pool
    <3>. QED
      BY <1>4, <1>6, <1>7, <2>2, <3>1, <3>3, <3>4, <3>5 DEF PoolExists
  <2>. QED
    BY <2>1, <2>2
<1>. QED
  BY <1>2, <1>3, <1>10, <1>11 DEF PoolBooked, W, pool, fees, stakes

\* With fewer allocation keys than a uint32 counts, the rebate pools are booked in
\* every reachable state.
THEOREM RebateInvariant ==
    ASSUME Countable
    PROVE  Spec => []RebateBooks
<1>1. Init => RebateBooks
  BY InitBooks
<1>2. RebateBooks /\ [Next]_vars => RebateBooks'
  BY RebateBooksStep
<1>. QED
  BY <1>1, <1>2, PTL DEF Spec

\* Then a rebate pool exists, and counts, exactly while allocations of its epoch
\* have still to claim, its totals cover theirs, and no more is claimed than was
\* collected: no pool is deleted under a claim (Staking.sol:1271-1275), and
\* Cobbs.sol is never given a ratio above 1.
THEOREM RebatesStaySound ==
    ASSUME Countable
    PROVE  Spec => []RebatesSound
<1>1. RebateBooks => RebatesSound
  BY BooksRebates
<1>. QED
  BY <1>1, RebateInvariant, PTL

-----------------------------------------------------------------------------
(* What no transaction may do *)

\* Paused, no account is paid and no allocation opens, closes or is claimed;
\* partially paused, none puts tokens in and none starts to leave, whichever
\* function is called (notPaused and notPartialPaused in Managed.sol).
THEOREM PausesHold == Spec => PauseRespected
<1>1. IInv /\ [Next]_vars =>
        [/\ paused =>
              /\ \A h \in Accounts : ledger'.grt[h] <= ledger.grt[h]
              /\ \A id \in AllocationIDs :
                    LET Opened(l) == l.allocations[id].indexer
                        Closing(l) == l.allocations[id].closedAtEpoch
                    IN  Opened(ledger') = Opened(ledger) /\ Closing(ledger') = Closing(ledger)
         /\ paused \/ partialPaused =>
              /\ \A i \in Indexers :
                    ledger'.stakes[i].tokensLocked <= ledger.stakes[i].tokensLocked
              /\ \A i \in Indexers, d \in Delegators :
                    ledger'.delegations[i][d].shares >= ledger.delegations[i][d].shares
              /\ \A h \in Accounts \ assetHolders : ledger'.grt[h] >= ledger.grt[h]]_vars
  BY NextStep DEF GoodStep, Sound, PauseKept
<1>. QED
  BY <1>1, Invariant, PTL DEF Spec, PauseRespected

\* An indexer is left with some stake below the minimum by a slash only, or by a
\* new minimum: no stake, unstake, withdrawal or claim does it.
THEOREM MinimumHolds == Spec => MinimumStakeKept
<1>1. IInv /\ [Next]_vars =>
        [\A i \in Indexers :
            LET Secure(l) == TokensSecureStake(l.stakes[i])
                minimum   == params["minimumIndexerStake"]
            IN  (Secure(ledger) >= minimum /\ Secure(ledger') \in 1 .. (minimum - 1))
                    => SlashStep(i)]_vars
  <2>. SUFFICES ASSUME IInv, [Next]_vars, NEW i \in Indexers,
                       TokensSecureStake(ledger.stakes[i]) >= params["minimumIndexerStake"],
                       TokensSecureStake(ledger'.stakes[i])
                          \in 1 .. (params["minimumIndexerStake"] - 1)
       PROVE  SlashStep(i)
    OBVIOUS
  <2>. DEFINE secure == TokensSecureStake(ledger.stakes[i])
              later == TokensSecureStake(ledger'.stakes[i])
              minimum == params["minimumIndexerStake"]
  <2>1. minimum \in Nat /\ secure \in Int
    BY DEF IInv, TypeOK, Params, Settings, PositiveSettings, Good, GoodStake, Stake,
           TokensSecureStake
  <2>2. SlashStep(i) \/ later >= secure \/ later = 0 \/ later >= minimum
    BY NextStep DEF GoodStep, SecureKept, LeavesEnough
  <2>. HIDE DEF secure, later, minimum
  <2>3. secure >= minimum /\ later \in 1 .. (minimum - 1)
    BY DEF secure, later, minimum
  <2>. QED
    BY <2>1, <2>2, <2>3
<1>. QED
  BY <1>1, Invariant, PTL DEF Spec, MinimumStakeKept

\* How a transaction turns the record a of an allocation into b: not at all but for
\* its fees, or once to the next of its states.
Stays(a, b)  == /\ b.indexer = a.indexer
                /\ b.subgraphDeploymentID = a.subgraphDeploymentID
                /\ b.tokens = a.tokens
                /\ b.createdAtEpoch = a.createdAtEpoch
                /\ b.closedAtEpoch = a.closedAtEpoch
Starts(a, b) == /\ a.indexer = NoAddress
                /\ b.indexer # NoAddress
                /\ b.tokens # 0
                /\ b.createdAtEpoch = epoch
                /\ b.closedAtEpoch = 0
Ends(a, b)   == /\ IsActive(a)
                /\ a.createdAtEpoch < epoch
                /\ b.indexer = a.indexer
                /\ b.subgraphDeploymentID = a.subgraphDeploymentID
                /\ b.tokens = a.tokens
                /\ b.createdAtEpoch = a.createdAtEpoch
                /\ b.closedAtEpoch = epoch
Pays(a, b)   == /\ AllocationState(a) = "Finalized"
                /\ b.indexer = a.indexer
                /\ b.subgraphDeploymentID = a.subgraphDeploymentID
                /\ b.tokens = 0
Turns(a, b) == Stays(a, b) \/ Starts(a, b) \/ Ends(a, b) \/ Pays(a, b)

\* A move turns each allocation in one of these ways.
LEMMA MoveTurns ==
    ASSUME Context, NEW l, NEW m, Good(l), Good(m), AllocationMove(l, m),
           NEW x \in AllocationIDs
    PROVE  Turns(l.allocations[x], m.allocations[x])
<1>. DEFINE a == l.allocations[x]
            b == m.allocations[x]
<1>1. l.allocations \in [AllocationIDs -> Allocation] /\ a \in Allocation
  BY DEF Good, OpenLedger
<1>2. b = a => Turns(a, b)
  BY DEF Turns, Stays
<1>3. CASE SameAllocations(l, m)
  BY <1>2, <1>3 DEF SameAllocations
<1>4. ASSUME NEW i \in Indexers, NEW s \in Subgraphs, NEW tokens \in Nat \ {0},
             NEW id \in AllocationIDs,
             l.allocations[id].indexer = NoAddress, Opens(l, m, i, s, tokens, id)
      PROVE  Turns(a, b)
  <2>1. b = IF x = id THEN [indexer              |-> i,
                            subgraphDeploymentID |-> s,
                            tokens               |-> tokens,
                            createdAtEpoch       |-> epoch,
                            closedAtEpoch        |-> 0,
                            collectedFees        |-> 0,
                            effectiveAllocation  |-> 0] ELSE a
    BY <1>1, <1>4 DEF Opens
  <2>2. CASE x = id
    <3>1. i # NoAddress
      BY AddressAssumption
    <3>2. Starts(a, b)
      BY <1>4, <2>1, <2>2, <3>1 DEF Starts
    <3>. QED
      BY <3>2 DEF Turns
  <2>. QED
    BY <1>2, <2>1, <2>2
<1>5. ASSUME NEW id \in AllocationIDs, NEW effective \in Nat \ {0},
             l.allocations[id].createdAtEpoch < epoch, Closes(l, m, id, effective)
      PROVE  Turns(a, b)
  <2>1. /\ b = IF x = id
               THEN [a EXCEPT !.closedAtEpoch = epoch, !.effectiveAllocation = effective]
               ELSE a
        /\ IsActive(l.allocations[id])
    <3>1. /\ m.allocations = [l.allocations EXCEPT ![id] = [l.allocations[id] EXCEPT
                                 !.closedAtEpoch = epoch, !.effectiveAllocation = effective]]
          /\ IsActive(l.allocations[id])
      BY <1>5 DEF Closes
    <3>. QED
      BY <1>1, <3>1
  <2>2. CASE x = id
    <3>1. Ends(a, b)
      BY <1>1, <1>5, <2>1, <2>2 DEF Ends, Allocation
    <3>. QED
      BY <3>1 DEF Turns
  <2>. QED
    BY <1>2, <2>1, <2>2
<1>6. ASSUME NEW id \in AllocationIDs, NEW rebate \in Nat, CanClaim(l, id),
             Claims(l, m, id, rebate)
      PROVE  Turns(a, b)
  <2>1. b = IF x = id THEN Purged(a) ELSE a
    BY <1>1, <1>6 DEF Claims
  <2>2. CASE x = id
    <3>1. Pays(a, b)
      BY <1>6, <2>1, <2>2 DEF Pays, Purged, NoAllocation, CanClaim, StateOf
    <3>. QED
      BY <3>1 DEF Turns
  <2>. QED
    BY <1>2, <2>1, <2>2
<1>7. ASSUME NEW id \in AllocationIDs, NEW fees \in Nat, Collects(l, m, id, fees)
      PROVE  Turns(a, b)
  <2>1. b = IF x = id THEN [a EXCEPT !.collectedFees = a.collectedFees + fees] ELSE a
    BY <1>1, <1>7 DEF Collects
  <2>2. CASE x = id
    <3>1. Stays(a, b)
      BY <1>1, <2>1, <2>2 DEF Stays, Allocation
    <3>. QED
      BY <3>1 DEF Turns
  <2>. QED
    BY <1>2, <2>1, <2>2
<1>. QED
  BY <1>3, <1>4, <1>5, <1>6, <1>7 DEF AllocationMove

\* An allocation closed in this epoch is not final yet.
LEMMA NotYetFinal ==
    ASSUME Context
    PROVE  ~(EpochsSince(epoch) >= params["channelDisputeEpochs"])
<1>1. epoch \in Nat /\ params["channelDisputeEpochs"] \in Nat \ {0}
  BY ClockAssumption DEF Context, ClockTypeOK, Epochs, Params, Settings, PositiveSettings
<1>. QED
  BY <1>1 DEF EpochsSince

\* Two turns in a transaction are one: what opens or closes in it is neither closed
\* nor claimed in it.
LEMMA TurnsTransitive ==
    ASSUME Context, NEW a \in Allocation, NEW b \in Allocation, NEW c,
           Turns(a, b), Turns(b, c)
    PROVE  Turns(a, c)
<1>1. epoch \in Nat /\ a.createdAtEpoch \in Nat /\ b.createdAtEpoch \in Nat
  BY ClockAssumption DEF Context, ClockTypeOK, Epochs, Allocation
<1>2. CASE Stays(a, b)
  <2>1. CASE Stays(b, c)
    BY <1>2, <2>1 DEF Stays, Turns
  <2>2. CASE Starts(b, c)
    BY <1>2, <2>2 DEF Stays, Starts, Turns
  <2>3. CASE Ends(b, c)
    BY <1>2, <2>3 DEF Stays, Ends, IsActive, Turns
  <2>4. CASE Pays(b, c)
    BY <1>2, <2>4 DEF Stays, Pays, AllocationState, Turns
  <2>. QED
    BY <2>1, <2>2, <2>3, <2>4 DEF Turns
<1>3. CASE Starts(a, b)
  <2>1. CASE Stays(b, c)
    BY <1>3, <2>1 DEF Stays, Starts, Turns
  <2>2. ~Starts(b, c) /\ ~Pays(b, c)
    BY <1>3 DEF Starts, Pays, AllocationState
  <2>3. ~Ends(b, c)
    BY <1>1, <1>3 DEF Starts, Ends
  <2>. QED
    BY <2>1, <2>2, <2>3 DEF Turns
<1>4. CASE Ends(a, b)
  <2>1. CASE Stays(b, c)
    BY <1>4, <2>1 DEF Stays, Ends, Turns
  <2>2. b.indexer # NoAddress /\ b.tokens # 0 /\ b.closedAtEpoch = epoch /\ epoch # 0
    BY <1>1, <1>4 DEF Ends, IsActive
  <2>3. ~Starts(b, c) /\ ~Ends(b, c)
    BY <2>2 DEF Starts, Ends, IsActive
  <2>4. ~Pays(b, c)
    BY <2>2, NotYetFinal DEF Pays, AllocationState
  <2>. QED
    BY <2>1, <2>3, <2>4 DEF Turns
<1>5. CASE Pays(a, b)
  <2>1. CASE Stays(b, c)
    BY <1>5, <2>1 DEF Stays, Pays, Turns
  <2>2. b.indexer # NoAddress /\ b.tokens = 0
    BY <1>5 DEF Pays, AllocationState
  <2>3. ~Starts(b, c) /\ ~Ends(b, c) /\ ~Pays(b, c)
    BY <2>2 DEF Starts, Ends, Pays, IsActive, AllocationState
  <2>. QED
    BY <2>1, <2>3 DEF Turns
<1>. QED
  BY <1>2, <1>3, <1>4, <1>5 DEF Turns

\* So does a step.
LEMMA StepTurns ==
    ASSUME Context, NEW l, NEW m, Good(l), Good(m), AllocationStep(l, m),
           NEW x \in AllocationIDs
    PROVE  Turns(l.allocations[x], m.allocations[x])
<1>1. PICK n : Good(n) /\ AllocationMove(l, n) /\ AllocationMove(n, m)
  BY DEF AllocationStep
<1>2. Turns(l.allocations[x], n.allocations[x]) /\ Turns(n.allocations[x], m.allocations[x])
  BY <1>1, MoveTurns
<1>3. l.allocations[x] \in Allocation /\ n.allocations[x] \in Allocation
  BY <1>1 DEF Good, OpenLedger
<1>. QED
  BY <1>2, <1>3, TurnsTransitive

\* The states that a turn leads to.
LEMMA TurnsInOrder ==
    ASSUME Context, NEW a \in Allocation, NEW b, Turns(a, b)
    PROVE  /\ AllocationState(a) = "Null" => AllocationState(b) \in {"Null", "Active"}
           /\ AllocationState(a) = "Active" => AllocationState(b) \in {"Active", "Closed"}
           /\ AllocationState(a) = "Closed" => AllocationState(b) = "Closed"
           /\ AllocationState(a) = "Finalized" =>
                 AllocationState(b) \in {"Finalized", "Claimed"}
           /\ AllocationState(a) = "Claimed" => AllocationState(b) = "Claimed"
           /\ AllocationState(a) \in {"Null", "Active", "Closed", "Finalized", "Claimed"}
           /\ a.indexer # NoAddress => /\ b.indexer = a.indexer
                                       /\ b.subgraphDeploymentID = a.subgraphDeploymentID
<1>1. epoch \in Nat /\ a.createdAtEpoch \in Nat
  BY ClockAssumption DEF Context, ClockTypeOK, Epochs, Allocation
<1>2. AllocationState(a) \in {"Null", "Active", "Closed", "Finalized", "Claimed"}
  BY DEF AllocationState
<1>3. CASE Stays(a, b)
  <2>1. AllocationState(b) = AllocationState(a)
    BY <1>3 DEF Stays, AllocationState
  <2>. QED
    BY <1>2, <1>3, <2>1 DEF Stays
<1>4. CASE Starts(a, b)
  <2>1. AllocationState(a) = "Null" /\ AllocationState(b) = "Active" /\ a.indexer = NoAddress
    BY <1>4 DEF Starts, AllocationState
  <2>. QED
    BY <2>1
<1>5. CASE Ends(a, b)
  <2>1. AllocationState(a) = "Active" /\ AllocationState(b) = "Closed"
    BY <1>1, <1>5, NotYetFinal DEF Ends, IsActive, AllocationState
  <2>. QED
    BY <1>5, <2>1 DEF Ends
<1>6. CASE Pays(a, b)
  <2>1. AllocationState(a) = "Finalized" /\ AllocationState(b) = "Claimed"
    BY <1>6 DEF Pays, AllocationState
  <2>. QED
    BY <1>6, <2>1 DEF Pays
<1>. QED
  BY <1>3, <1>4, <1>5, <1>6 DEF Turns

\* An allocation goes through its states in order, one of them in a transaction at
\* most, its identifier is never used again and it never changes hands
\* (Staking.sol:1124-1125 and 1257-1260).
THEOREM LifecycleInOrder == Spec => AllocationLifecycle
<1>1. IInv /\ [Next]_vars =>
        [\A id \in AllocationIDs :
            LET a == ledger.allocations[id]
                b == ledger'.allocations[id]
            IN  /\ StateOf(ledger, id)' \in Successors(StateOf(ledger, id))
                /\ a.indexer # NoAddress =>
                      /\ b.indexer = a.indexer
                      /\ b.subgraphDeploymentID = a.subgraphDeploymentID]_vars
  <2>. SUFFICES ASSUME IInv, [Next]_vars, NEW id \in AllocationIDs
       PROVE  LET a == ledger.allocations[id]
                  b == ledger'.allocations[id]
              IN  /\ StateOf(ledger, id)' \in Successors(StateOf(ledger, id))
                  /\ a.indexer # NoAddress =>
                        /\ b.indexer = a.indexer
                        /\ b.subgraphDeploymentID = a.subgraphDeploymentID
    OBVIOUS
  <2>. DEFINE a == ledger.allocations[id]
              b == ledger'.allocations[id]
  <2>1. GoodStep /\ Context /\ Good(ledger)
    BY NextStep, InvContext DEF IInv
  <2>2. /\ a \in Allocation /\ a.closedAtEpoch \in Nat /\ epoch \in Nat
        /\ params["channelDisputeEpochs"] \in Nat
    BY <2>1, ClockAssumption DEF Good, OpenLedger, Allocation, Epochs, Context, ClockTypeOK,
       Params, Settings, PositiveSettings
  <2>3. CASE epoch' = epoch /\ params' = params
    <3>1. StateOf(ledger, id) = AllocationState(a) /\ StateOf(ledger, id)' = AllocationState(b)
      BY <2>3 DEF StateOf, AllocationState, EpochsSince
    <3>2. Turns(a, b)
      BY <2>1, StepTurns DEF GoodStep, Sound, IInv
    <3>. HIDE DEF a, b
    <3>. QED
      BY <2>1, <2>2, <3>1, <3>2, TurnsInOrder DEF Successors, a, b
  <2>4. CASE ledger' = ledger /\ (epoch' = epoch \/ epoch' > epoch)
    <3>1. b = a /\ epoch' >= epoch /\ epoch' \in Nat
      BY <2>1, <2>2, <2>4, ClockAssumption
      DEF GoodStep, IInv, TypeOK, ClockTypeOK, Epochs
    <3>. DEFINE AsOf(e, p) ==
                  IF a.indexer = NoAddress THEN "Null"
                  ELSE IF a.tokens = 0 THEN "Claimed"
                  ELSE IF a.closedAtEpoch = 0 THEN "Active"
                  ELSE IF (IF a.closedAtEpoch < e THEN e - a.closedAtEpoch ELSE 0)
                             >= p["channelDisputeEpochs"]
                  THEN "Finalized" ELSE "Closed"
    <3>2. StateOf(ledger, id) = AsOf(epoch, params)
      BY DEF StateOf, AllocationState, EpochsSince
    <3>3. StateOf(ledger, id)' = AsOf(epoch', params')
      BY <3>1 DEF StateOf, AllocationState, EpochsSince
    <3>4. params' = params /\ AsOf(epoch, params) = "Finalized" =>
             AsOf(epoch', params') = "Finalized"
      BY <2>2, <3>1
    <3>5. AsOf(epoch', params') \in Successors(AsOf(epoch, params))
      <4>1. /\ AsOf(epoch, params) \in {"Null", "Claimed", "Active"} =>
                  AsOf(epoch', params') = AsOf(epoch, params)
            /\ AsOf(epoch, params) \in {"Closed", "Finalized"} =>
                  AsOf(epoch', params') \in {"Closed", "Finalized"}
            /\ AsOf(epoch, params) \in {"Null", "Claimed", "Active", "Closed", "Finalized"}
        OBVIOUS
      <4>. HIDE DEF AsOf
      <4>. QED
        BY <3>4, <4>1 DEF Successors
    <3>. QED
      BY <3>1, <3>2, <3>3, <3>5
  <2>. QED
    BY <2>1, <2>3, <2>4 DEF GoodStep
<1>. QED
  BY <1>1, Invariant, PTL DEF Spec, AllocationLifecycle

\* The fees of a final allocation, and of the pool it shares, are the same in m as
\* in l.
SameFinalFees(l, m, x) ==
    LET e == l.allocations[x].closedAtEpoch
    IN  /\ m.allocations[x].collectedFees = l.allocations[x].collectedFees
        /\ m.allocations[x].closedAtEpoch = e
        /\ m.rebates[e].fees = l.rebates[e].fees

\* No move touches the fees of an allocation that is final before and after.
LEMMA MoveFreezes ==
    ASSUME Countable, Context, NEW l, NEW m, Good(l), Good(m), RebatesBooked(l),
           AllocationMove(l, m), NEW x \in AllocationIDs,
           StateOf(l, x) = "Finalized", StateOf(m, x) = "Finalized"
    PROVE  SameFinalFees(l, m, x)
<1>. DEFINE a == l.allocations[x]
            e == a.closedAtEpoch
<1>1. /\ l.allocations \in [AllocationIDs -> Allocation] /\ a \in Allocation /\ e \in Epochs
      /\ l.rebates \in [Epochs -> Pool] /\ a.collectedFees \in Nat
  BY DEF Good, OpenLedger, Allocation
<1>2. a.indexer # NoAddress /\ a.tokens # 0 /\ e # 0 /\ e # epoch /\ ~IsActive(a)
  BY NotYetFinal DEF StateOf, AllocationState, IsActive
<1>3. m.allocations[x].tokens # 0
  BY DEF StateOf, AllocationState
<1>4. ASSUME m.allocations[x] = a, m.rebates[e].fees = l.rebates[e].fees
      PROVE  SameFinalFees(l, m, x)
  BY <1>4 DEF SameFinalFees
<1>5. CASE SameAllocations(l, m)
  BY <1>4, <1>5 DEF SameAllocations
<1>6. ASSUME NEW i \in Indexers, NEW s \in Subgraphs, NEW tokens \in Nat \ {0},
             NEW id \in AllocationIDs,
             l.allocations[id].indexer = NoAddress, Opens(l, m, i, s, tokens, id)
      PROVE  SameFinalFees(l, m, x)
  <2>1. x # id
    BY <1>2, <1>6
  <2>. QED
    BY <1>1, <1>4, <1>6, <2>1 DEF Opens
<1>7. ASSUME NEW id \in AllocationIDs, NEW effective \in Nat \ {0},
             l.allocations[id].createdAtEpoch < epoch, Closes(l, m, id, effective)
      PROVE  SameFinalFees(l, m, x)
  <2>1. x # id
    BY <1>2, <1>7 DEF Closes
  <2>2. m.allocations[x] = a
    BY <1>1, <1>7, <2>1 DEF Closes
  <2>3. m.rebates[e] = l.rebates[e]
    BY <1>1, <1>2, <1>7 DEF Closes
  <2>. QED
    BY <1>4, <2>2, <2>3
<1>8. ASSUME NEW id \in AllocationIDs, NEW rebate \in Nat, CanClaim(l, id),
             rebate <= UnclaimedFees(l.rebates[l.allocations[id].closedAtEpoch]),
             Claims(l, m, id, rebate)
      PROVE  SameFinalFees(l, m, x)
  <2>. DEFINE at == l.allocations[id].closedAtEpoch
              b == l.rebates[at]
              pool == Redeem(b, rebate)
              p == IF pool.unclaimedAllocationsCount = 0 THEN NoPool ELSE pool
  <2>1. /\ m.allocations = [l.allocations EXCEPT ![id] = Purged(l.allocations[id])]
        /\ m.rebates = [l.rebates EXCEPT ![at] = p]
    BY <1>8 DEF Claims
  <2>2. x # id
    BY <1>1, <1>3, <2>1 DEF Purged, NoAllocation
  <2>3. m.allocations[x] = a
    BY <1>1, <2>1, <2>2
  <2>4. CASE at # e
    <3>1. m.rebates[e] = l.rebates[e]
      <4>. HIDE DEF p, at
      <4>. QED
        BY <1>1, <2>1, <2>4
    <3>. QED
      BY <1>4, <2>3, <3>1
  <2>5. CASE at = e
    \* The pool is not deleted, for x waits beside id.
    <3>. DEFINE W == WaitingIn(l, at)
    <3>1. x \in W /\ id \in W
      BY <1>2, <1>8, <2>5 DEF WaitingIn, IsWaiting, CanClaim, StateOf, AllocationState
    <3>2. /\ IsFiniteSet(W) /\ Cardinality(W) \in Nat
          /\ Cardinality(W) <= Cardinality(AllocationIDs) /\ Cardinality(AllocationIDs) \in Nat
      BY WaitingNat
    <3>. DEFINE c == Cardinality(W \ {id})
    <3>3. /\ c = Cardinality(W) - 1 /\ IsFiniteSet(W \ {id}) /\ c \in Nat
      BY <3>1, <3>2, FS_RemoveElement, FS_CardinalityType
    <3>4. c # 0
      <4>1. W \ {id} # {}
        BY <2>2, <3>1
      <4>. QED
        BY <3>3, <4>1, FS_EmptySet
    <3>5. b.unclaimedAllocationsCount = Cardinality(W) /\ b \in Pool
      BY <1>1, <2>5 DEF RebatesBooked, PoolBooked
    <3>6. pool.fees = b.fees /\ pool.unclaimedAllocationsCount = c
      <4>1. c % CounterSize = c
        <5>1. c \in 0 .. CounterSize - 1 /\ CounterSize \in Nat \ {0}
          BY <3>2, <3>3, CounterSizeAssumption DEF Countable
        <5>. HIDE DEF c
        <5>. QED
          BY <5>1
      <4>2. /\ pool.fees = b.fees
            /\ pool.unclaimedAllocationsCount = (b.unclaimedAllocationsCount - 1) % CounterSize
        <5>. HIDE DEF b
        <5>. QED
          BY <3>5 DEF Redeem, Pool
      <4>. QED
        BY <3>3, <3>5, <4>1, <4>2
    <3>7. m.rebates[e] = p
      <4>. HIDE DEF p
      <4>. QED
        BY <1>1, <2>1, <2>5
    <3>8. m.rebates[e].fees = l.rebates[e].fees
      <4>. HIDE DEF pool, c
      <4>. QED
        BY <2>5, <3>4, <3>6, <3>7
    <3>. QED
      BY <1>4, <2>3, <3>8
  <2>. QED
    BY <2>4, <2>5
<1>9. ASSUME NEW id \in AllocationIDs, NEW fees \in Nat, Collects(l, m, id, fees)
      PROVE  SameFinalFees(l, m, x)
  <2>. DEFINE alloc == l.allocations[id]
              state == StateOf(l, id)
              at == alloc.closedAtEpoch
  <2>1. /\ m.allocations = [l.allocations EXCEPT
              ![id] = [alloc EXCEPT !.collectedFees = alloc.collectedFees + fees]]
        /\ state # "Closed" => m.rebates = l.rebates
        /\ state \notin {"Active", "Closed"} => fees = 0
        /\ state # "Null"
    BY <1>9 DEF Collects
  <2>2. state = "Closed" => at # e
    BY <1>2 DEF StateOf, AllocationState
  <2>3. m.rebates[e] = l.rebates[e]
    <3>1. CASE state # "Closed"
      BY <2>1, <3>1
    <3>2. CASE state = "Closed"
      <4>1. \E p : m.rebates = [l.rebates EXCEPT ![at] = p]
        BY <1>9, <3>2 DEF Collects
      <4>. HIDE DEF at, state
      <4>. QED
        BY <1>1, <2>2, <3>2, <4>1
    <3>. QED
      BY <3>1, <3>2
  <2>4. /\ m.allocations[x].collectedFees = a.collectedFees
        /\ m.allocations[x].closedAtEpoch = e
    <3>1. CASE x = id
      <4>1. fees = 0
        BY <2>1, <3>1
      <4>2. m.allocations[x] = [a EXCEPT !.collectedFees = a.collectedFees + fees]
        BY <1>1, <2>1, <3>1
      <4>. HIDE DEF a
      <4>3. /\ m.allocations[x].collectedFees = a.collectedFees + 0
            /\ m.allocations[x].closedAtEpoch = a.closedAtEpoch
        BY <1>1, <4>1, <4>2 DEF Allocation
      <4>. QED
        BY <1>1, <4>3
    <3>2. CASE x # id
      BY <1>1, <2>1, <3>2
    <3>. QED
      BY <3>1, <3>2
  <2>. QED
    BY <2>3, <2>4 DEF SameFinalFees
<1>. QED
  BY <1>5, <1>6, <1>7, <1>8, <1>9 DEF AllocationMove

\* Nor does a step, in which nothing becomes final between two moves.
LEMMA StepFreezes ==
    ASSUME Countable, Context, NEW l, NEW m, Good(l), Good(m), RebatesBooked(l),
           AllocationStep(l, m), NEW x \in AllocationIDs,
           StateOf(l, x) = "Finalized", StateOf(m, x) = "Finalized"
    PROVE  SameFinalFees(l, m, x)
<1>1. PICK n : Good(n) /\ AllocationMove(l, n) /\ AllocationMove(n, m)
  BY DEF AllocationStep
<1>2. Turns(l.allocations[x], n.allocations[x]) /\ Turns(n.allocations[x], m.allocations[x])
  BY <1>1, MoveTurns
<1>3. l.allocations[x] \in Allocation /\ n.allocations[x] \in Allocation
  BY <1>1 DEF Good, OpenLedger
<1>4. StateOf(n, x) = "Finalized"
  <2>1. StateOf(n, x) \in {"Finalized", "Claimed"}
    BY <1>2, <1>3, TurnsInOrder DEF StateOf
  <2>2. StateOf(n, x) # "Claimed"
    BY <1>2, <1>3, TurnsInOrder DEF StateOf
  <2>. QED
    BY <2>1, <2>2
<1>5. RebatesBooked(n)
  BY <1>1, RebatesKept
<1>6. SameFinalFees(l, n, x)
  BY <1>1, <1>4, MoveFreezes
<1>7. SameFinalFees(n, m, x)
  BY <1>1, <1>4, <1>5, MoveFreezes
<1>. QED
  BY <1>6, <1>7 DEF SameFinalFees

\* Once an allocation is final its fees, and those of the pool it shares, stay as
\* they are until it is claimed: the order of the claims changes no one's share
\* (Staking.sol:1271-1275).
THEOREM FinalFeesStayFrozen ==
    ASSUME Countable
    PROVE  Spec => FinalFeesFrozen
<1>1. RebateBooks /\ [Next]_vars =>
        [\A id \in AllocationIDs :
            LET e == ledger.allocations[id].closedAtEpoch
            IN  StateOf(ledger, id) = "Finalized" /\ StateOf(ledger, id)' = "Finalized" =>
                  /\ ledger'.allocations[id].collectedFees = ledger.allocations[id].collectedFees
                  /\ ledger'.rebates[e].fees = ledger.rebates[e].fees]_vars
  <2>. SUFFICES ASSUME RebateBooks, [Next]_vars, NEW id \in AllocationIDs,
                       StateOf(ledger, id) = "Finalized", StateOf(ledger, id)' = "Finalized"
       PROVE  LET e == ledger.allocations[id].closedAtEpoch
              IN  /\ ledger'.allocations[id].collectedFees = ledger.allocations[id].collectedFees
                  /\ ledger'.rebates[e].fees = ledger.rebates[e].fees
    OBVIOUS
  <2>1. IInv /\ GoodStep /\ Context /\ Good(ledger) /\ RebatesBooked(ledger)
    BY NextStep, InvContext DEF RebateBooks, Books, IInv
  <2>2. Good(ledger') /\ AllocationStep(ledger, ledger')
    BY <2>1 DEF GoodStep, Sound, IInv
  <2>3. CASE ledger' = ledger
    BY <2>3
  <2>4. CASE epoch' = epoch /\ params' = params
    <3>1. StateOf(ledger', id) = "Finalized"
      BY <2>4 DEF StateOf, AllocationState, EpochsSince
    <3>2. SameFinalFees(ledger, ledger', id)
      BY <2>1, <2>2, <3>1, StepFreezes
    <3>. QED
      BY <3>2 DEF SameFinalFees
  <2>. QED
    BY <2>1, <2>3, <2>4 DEF GoodStep
<1>. QED
  BY <1>1, RebateInvariant, PTL DEF Spec, FinalFeesFrozen

-----------------------------------------------------------------------------
(* The price of a share *)

\* The shares issued for t tokens are worth t tokens at most.
LEMMA IssuedBounds ==
    ASSUME NEW T \in Nat \ {0}, NEW S \in Nat \ {0}, NEW t \in Nat, S <= T
    PROVE  LET issued == (t * S) \div T
           IN  issued \in 0 .. t /\ issued * T <= t * S
<1>. DEFINE issued == (t * S) \div T
<1>1. t * S \in Nat /\ t * S <= t * T
  OBVIOUS
<1>2. issued \in Nat /\ issued * T <= t * S
  BY <1>1, DivBounds
<1>. HIDE DEF issued
<1>3. issued * T <= t * T
  BY <1>1, <1>2
<1>4. issued <= t
  BY <1>2, <1>3
<1>. QED
  BY <1>2, <1>4 DEF issued

\* The tokens paid for s shares are worth s shares at most, and s tokens at least;
\* the last shares take all the tokens.
LEMMA ReceivedBounds ==
    ASSUME NEW T \in Nat, NEW S \in Nat \ {0}, NEW s \in 1 .. S, S <= T
    PROVE  LET received == (s * T) \div S
           IN  /\ received \in s .. T
               /\ received * S <= s * T
               /\ received - s <= T - S
               /\ s = S => received = T
<1>. DEFINE received == (s * T) \div S
<1>1. s * T \in Nat /\ s * S <= s * T /\ s * T <= S * T
  OBVIOUS
<1>2. /\ received \in Nat /\ received * S <= s * T
      /\ s * T < received * S + S
  BY <1>1, DivBounds
<1>. HIDE DEF received
<1>3. received >= s
  <2>1. s * S < (received + 1) * S
    BY <1>1, <1>2
  <2>. QED
    BY <1>2, <2>1
<1>4. received <= T
  <2>1. received * S <= T * S
    BY <1>1, <1>2
  <2>. QED
    BY <1>2, <2>1
<1>5. received - s <= T - S
  <2>. DEFINE gain == received - s
              surplus == T - S
  <2>1. gain \in Nat /\ surplus \in Nat
    BY <1>2, <1>3
  <2>2. gain * S <= s * surplus
    BY <1>2
  <2>3. s * surplus <= S * surplus
    BY <2>1
  <2>. HIDE DEF gain, surplus
  <2>4. gain <= surplus
    BY <2>1, <2>2, <2>3
  <2>. QED
    BY <2>4 DEF gain, surplus
<1>6. s = S => received = T
  <2>. SUFFICES ASSUME s = S PROVE received = T
    OBVIOUS
  <2>1. T * S < (received + 1) * S
    BY <1>1, <1>2
  <2>2. T < received + 1
    BY <1>2, <2>1
  <2>. QED
    BY <1>2, <1>4, <2>2
<1>. QED
  BY <1>2, <1>3, <1>4, <1>5, <1>6 DEF received

\* Every share is covered by a token.
Covered(pool) == /\ pool.shares <= pool.tokens
                 /\ pool.shares = 0 => pool.tokens = 0

\* A share of q is worth what a share of p is, or more.
PriceKept(p, q) == p.tokens * q.shares <= q.tokens * p.shares

LEMMA EnterKeepsPrice ==
    ASSUME NEW p \in DelegationPool, Covered(p), NEW t \in Nat, SharesFor(p, t) > 0
    PROVE  LET q      == PoolEnter(p, t)
               issued == SharesFor(p, t)
           IN  /\ Covered(q) /\ PriceKept(p, q)
               /\ t > 0 /\ issued \in Nat \ {0}
               /\ q.tokens = p.tokens + t /\ q.shares = p.shares + issued
               /\ IF p.shares = 0 THEN issued = t ELSE issued * p.tokens <= t * p.shares
<1>. DEFINE q == PoolEnter(p, t)
            issued == SharesFor(p, t)
<1>1. p.tokens \in Nat /\ p.shares \in Nat
  BY DEF DelegationPool
<1>2. q.tokens = p.tokens + t /\ q.shares = p.shares + issued
  BY PoolEnterIs
<1>. HIDE DEF q
<1>3. CASE p.tokens = 0
  <2>1. p.shares = 0 /\ issued = t
    BY <1>1, <1>3 DEF Covered, SharesFor
  <2>. HIDE DEF issued
  <2>2. /\ t > 0
        /\ Covered(q) /\ PriceKept(p, q)
    BY <1>1, <1>2, <1>3, <2>1 DEF Covered, PriceKept, issued
  <2>. QED
    BY <1>2, <1>3, <2>1, <2>2 DEF q, issued
<1>4. CASE p.tokens # 0
  <2>1. p.tokens \in Nat \ {0} /\ p.shares \in Nat \ {0} /\ p.shares <= p.tokens
    BY <1>1, <1>4 DEF Covered
  <2>2. issued \in 0 .. t /\ issued * p.tokens <= t * p.shares
    BY <1>4, <2>1, IssuedBounds DEF SharesFor
  <2>3. issued > 0
    OBVIOUS
  <2>. HIDE DEF issued
  <2>4. Covered(q)
    BY <1>2, <2>1, <2>2 DEF Covered
  <2>5. PriceKept(p, q)
    BY <1>2, <2>1, <2>2 DEF PriceKept
  <2>. QED
    BY <1>2, <2>1, <2>2, <2>3, <2>4, <2>5 DEF q, issued
<1>. QED
  BY <1>3, <1>4

LEMMA LeaveKeepsPrice ==
    ASSUME NEW p \in DelegationPool, Covered(p), NEW s \in 1 .. p.shares
    PROVE  LET q        == PoolLeave(p, s)
               received == TokensFor(p, s)
           IN  /\ Covered(q) /\ PriceKept(p, q)
               /\ received \in Nat \ {0}
               /\ q.tokens = p.tokens - received /\ q.shares = p.shares - s
               /\ received * p.shares <= s * p.tokens
<1>. DEFINE q == PoolLeave(p, s)
            received == TokensFor(p, s)
<1>1. p.tokens \in Nat /\ p.shares \in Nat \ {0} /\ p.shares <= p.tokens /\ s \in Nat \ {0}
  BY DEF DelegationPool, Covered
<1>2. q.tokens = p.tokens - received /\ q.shares = p.shares - s
  BY PoolLeaveIs
<1>3. /\ received \in s .. p.tokens
      /\ received * p.shares <= s * p.tokens
      /\ received - s <= p.tokens - p.shares
      /\ s = p.shares => received = p.tokens
  BY <1>1, ReceivedBounds DEF TokensFor
<1>. HIDE DEF q, received
<1>4. Covered(q)
  BY <1>1, <1>2, <1>3 DEF Covered
<1>5. PriceKept(p, q)
  BY <1>1, <1>2, <1>3 DEF PriceKept
<1>. QED
  BY <1>1, <1>2, <1>3, <1>4, <1>5 DEF q, received

-----------------------------------------------------------------------------
(* Steps of the pools *)

\* What a step does to one pool.
PoolMove(p, q) ==
    \/ q.shares = p.shares /\ (q.tokens = p.tokens \/ (p.tokens > 0 /\ q.tokens > p.tokens))
    \/ \E t \in Nat : SharesFor(p, t) > 0 /\ q = PoolEnter(p, t)
    \/ \E s \in 1 .. p.shares : q = PoolLeave(p, s)

LEMMA PoolMoves ==
    ASSUME NEW l, NEW m, Good(l), Good(m), PoolStep(l, m), NEW i \in Indexers
    PROVE  PoolMove(l.delegationPools[i], m.delegationPools[i])
<1>1. l.delegationPools \in [Indexers -> DelegationPool]
  BY DEF Good, OpenLedger
<1>2. CASE PoolsRewarded(l, m)
  BY <1>2 DEF PoolsRewarded, PoolMove
<1>3. ASSUME NEW j \in Indexers, NEW d \in Delegators, NEW tokens \in Nat,
             SharesFor(l.delegationPools[j], tokens) > 0, EntersPool(l, m, j, d, tokens)
      PROVE  PoolMove(l.delegationPools[i], m.delegationPools[i])
  BY <1>1, <1>3 DEF EntersPool, PoolMove
<1>4. ASSUME NEW j \in Indexers, NEW d \in Delegators, NEW shares \in Nat \ {0},
             LeavesPool(l, m, j, d, shares)
      PROVE  PoolMove(l.delegationPools[i], m.delegationPools[i])
  BY <1>1, <1>4 DEF LeavesPool, PoolMove
<1>. QED
  BY <1>2, <1>3, <1>4 DEF PoolStep

LEMMA MoveKeepsPrice ==
    ASSUME NEW p \in DelegationPool, NEW q \in DelegationPool, Covered(p), PoolMove(p, q)
    PROVE  Covered(q) /\ PriceKept(p, q)
<1>0. p.tokens \in Nat /\ p.shares \in Nat /\ q.tokens \in Nat /\ q.shares \in Nat
  BY DEF DelegationPool
<1>1. CASE q.shares = p.shares
           /\ (q.tokens = p.tokens \/ (p.tokens > 0 /\ q.tokens > p.tokens))
  <2>1. Covered(q)
    BY <1>0, <1>1 DEF Covered
  <2>2. p.tokens * p.shares <= q.tokens * p.shares
    BY <1>0, <1>1
  <2>. QED
    BY <1>1, <2>1, <2>2 DEF PriceKept
<1>2. CASE \E t \in Nat : SharesFor(p, t) > 0 /\ q = PoolEnter(p, t)
  BY <1>2, EnterKeepsPrice
<1>3. CASE \E s \in 1 .. p.shares : q = PoolLeave(p, s)
  BY <1>3, LeaveKeepsPrice
<1>. QED
  BY <1>1, <1>2, <1>3 DEF PoolMove

\* The inductive invariant of the pools.
PoolInv == IInv /\ \A i \in Indexers : Covered(ledger.delegationPools[i])

LEMMA PoolInvInit == Init => PoolInv
<1>. SUFFICES ASSUME Init PROVE PoolInv
  OBVIOUS
<1>1. \A i \in Indexers : ledger.delegationPools[i] = EmptyDelegationPool
  BY DEF Init
<1>. QED
  BY <1>1, InitGood DEF PoolInv, Covered, EmptyDelegationPool

LEMMA PoolInvNext ==
    ASSUME PoolInv, [Next]_vars
    PROVE  /\ PoolInv'
           /\ \A i \in Indexers : PriceKept(ledger.delegationPools[i],
                                            ledger'.delegationPools[i])
<1>1. IInv /\ IInv' /\ PoolStep(ledger, ledger')
  BY NextStep DEF PoolInv, GoodStep, Sound
<1>2. Good(ledger) /\ Good(ledger')
  BY <1>1 DEF IInv
<1>3. \A i \in Indexers : /\ ledger.delegationPools[i] \in DelegationPool
                          /\ ledger'.delegationPools[i] \in DelegationPool
  BY <1>2 DEF Good, OpenLedger
<1>4. ASSUME NEW i \in Indexers
      PROVE  /\ Covered(ledger'.delegationPools[i])
             /\ PriceKept(ledger.delegationPools[i], ledger'.delegationPools[i])
  BY <1>1, <1>2, <1>3, PoolMoves, MoveKeepsPrice DEF PoolInv
<1>. QED
  BY <1>1, <1>4 DEF PoolInv

\* The inductive invariant of the pools holds in every reachable state.
THEOREM PoolInvariant == Spec => []PoolInv
<1>1. PoolInv /\ [Next]_vars => PoolInv'
  BY PoolInvNext
<1>. QED
  BY <1>1, PoolInvInit, PTL DEF Spec

\* The divisions of _delegate and _undelegate by the tokens and the shares of a
\* pool (Staking.sol:1322 and 1365) are defined and never pay out nothing.
THEOREM SharesCovered == Spec => []PoolCoversShares
<1>1. PoolInv => PoolCoversShares
  BY DEF PoolInv, Covered, PoolCoversShares
<1>. QED
  BY <1>1, PoolInvariant, PTL

\* Whoever stays in a pool never loses by what others do: entries, exits, rewards,
\* slashes and closings leave each share worth at least what it was.
THEOREM PriceNeverDrops == Spec => SharePriceNeverDrops
<1>1. PoolInv /\ [Next]_vars =>
         [\A i \in Indexers :
             LET p == ledger.delegationPools[i]
                 q == ledger'.delegationPools[i]
             IN  p.shares > 0 /\ q.shares > 0 =>
                     p.tokens * q.shares <= q.tokens * p.shares]_vars
  BY PoolInvNext DEF PriceKept
<1>. QED
  BY <1>1, PoolInvariant, PTL DEF Spec, SharePriceNeverDrops

-----------------------------------------------------------------------------
(* The contract implements the vault *)

\* An entry, an exit or a reward of the contract is one of the vault's.
LEMMA EntersIsVaultEntry ==
    ASSUME PoolInv, IInv', NEW i \in Indexers, NEW j \in Indexers, NEW d \in Delegators,
           NEW t \in Nat, SharesFor(ledger.delegationPools[j], t) > 0,
           EntersPool(ledger, ledger', j, d, t)
    PROVE  \/ Vault!Enters(DelegatorView[i], DelegatorView'[i])
           \/ DelegatorView'[i] = DelegatorView[i]
<1>. DEFINE p == ledger.delegationPools[j]
            P == DelegatorView[j]
            Q == DelegatorView'[j]
            issued == SharesFor(p, t)
<1>1. ledger.delegationPools \in [Indexers -> DelegationPool]
  BY DEF PoolInv, IInv, Good, OpenLedger
<1>2. p \in DelegationPool /\ Covered(p)
  BY <1>1 DEF PoolInv
<1>3. /\ ledger'.delegationPools = [ledger.delegationPools EXCEPT ![j] = PoolEnter(p, t)]
      /\ \A k \in Indexers, e \in Delegators :
            ledger'.delegations[k][e].shares = IF k = j /\ e = d
                                               THEN ledger.delegations[j][d].shares + issued
                                               ELSE ledger.delegations[k][e].shares
  BY DEF EntersPool
<1>4. CASE i # j
  <2>1. ledger'.delegationPools[i] = ledger.delegationPools[i]
    BY <1>1, <1>3, <1>4
  <2>2. \A e \in Delegators :
           ledger'.delegations[i][e].shares = ledger.delegations[i][e].shares
    BY <1>3, <1>4
  <2>3. DelegatorView'[i] = DelegatorView[i]
    BY <2>1, <2>2 DEF DelegatorView
  <2>. QED
    BY <2>3
<1>5. CASE i = j
  <2>1. /\ t > 0 /\ issued \in Nat \ {0}
        /\ PoolEnter(p, t).tokens = p.tokens + t
        /\ PoolEnter(p, t).shares = p.shares + issued
        /\ IF p.shares = 0 THEN issued = t ELSE issued * p.tokens <= t * p.shares
    BY <1>2, EnterKeepsPrice
  <2>2. ledger'.delegationPools[j] = PoolEnter(p, t)
    BY <1>1, <1>3
  <2>3. p.tokens \in Nat /\ p.shares \in Nat /\ ledger.delegations[j][d].shares \in Nat
    BY <1>2 DEF DelegationPool, PoolInv, IInv, Good, OpenLedger, Delegation
  <2>4. /\ P.tokens = p.tokens /\ P.shares = p.shares
        /\ P.shareOf = [e \in Delegators |-> ledger.delegations[j][e].shares]
    BY DEF DelegatorView
  <2>. HIDE DEF issued
  <2>5. /\ Q.tokens = p.tokens + t /\ Q.shares = p.shares + issued
        /\ Q.shareOf = [P.shareOf EXCEPT ![d] = P.shareOf[d] + issued]
    <3>1. /\ Q.tokens = ledger'.delegationPools[j].tokens
          /\ Q.shares = ledger'.delegationPools[j].shares
          /\ Q.shareOf = [e \in Delegators |-> ledger'.delegations[j][e].shares]
      BY DEF DelegatorView
    <3>2. Q.shareOf = [P.shareOf EXCEPT ![d] = P.shareOf[d] + issued]
      BY <1>3, <2>4, <3>1
    <3>. QED
      BY <2>1, <2>2, <3>1, <3>2 DEF issued
  <2>. HIDE DEF p, P, Q
  <2>6. /\ Q.shareOf[d] - P.shareOf[d] = issued
        /\ Q.tokens - P.tokens = t
    <3>1. P.shareOf[d] \in Nat
      BY <2>3, <2>4
    <3>2. Q.shareOf[d] = P.shareOf[d] + issued
      BY <2>4, <2>5
    <3>. QED
      BY <2>1, <2>3, <2>4, <2>5, <3>1, <3>2
  <2>. HIDE DEF issued
  <2>7. Vault!Enters(P, Q)
    <3>1. issued > 0 /\ t > 0 /\ Q.shares = P.shares + issued
      BY <2>1, <2>4, <2>5 DEF issued
    <3>2. IF P.shares = 0 THEN issued = t ELSE issued * P.tokens <= t * P.shares
      BY <2>1, <2>4 DEF issued
    <3>3. Q.shareOf = [P.shareOf EXCEPT ![d] = P.shareOf[d] + issued]
      BY <2>5
    <3>. QED
      BY <2>6, <3>1, <3>2, <3>3, Zenon DEF Vault!Enters
  <2>. QED
    BY <1>5, <2>7 DEF P, Q
<1>. QED
  BY <1>4, <1>5

LEMMA LeavesIsVaultExit ==
    ASSUME PoolInv, IInv', NEW i \in Indexers, NEW j \in Indexers, NEW d \in Delegators,
           NEW s \in Nat \ {0}, LeavesPool(ledger, ledger', j, d, s)
    PROVE  \/ Vault!Leaves(DelegatorView[i], DelegatorView'[i])
           \/ DelegatorView'[i] = DelegatorView[i]
<1>. DEFINE p == ledger.delegationPools[j]
            P == DelegatorView[j]
            Q == DelegatorView'[j]
            received == TokensFor(p, s)
<1>1. ledger.delegationPools \in [Indexers -> DelegationPool]
  BY DEF PoolInv, IInv, Good, OpenLedger
<1>2. p \in DelegationPool /\ Covered(p)
  BY <1>1 DEF PoolInv
<1>3. /\ s \in 1 .. p.shares
      /\ ledger'.delegationPools = [ledger.delegationPools EXCEPT ![j] = PoolLeave(p, s)]
      /\ \A k \in Indexers, e \in Delegators :
            ledger'.delegations[k][e].shares = IF k = j /\ e = d
                                               THEN ledger.delegations[j][d].shares - s
                                               ELSE ledger.delegations[k][e].shares
  BY DEF LeavesPool
<1>4. CASE i # j
  <2>1. ledger'.delegationPools[i] = ledger.delegationPools[i]
    BY <1>1, <1>3, <1>4
  <2>2. \A e \in Delegators :
           ledger'.delegations[i][e].shares = ledger.delegations[i][e].shares
    BY <1>3, <1>4
  <2>3. DelegatorView'[i] = DelegatorView[i]
    BY <2>1, <2>2 DEF DelegatorView
  <2>. QED
    BY <2>3
<1>5. CASE i = j
  <2>1. /\ received \in Nat \ {0}
        /\ PoolLeave(p, s).tokens = p.tokens - received
        /\ PoolLeave(p, s).shares = p.shares - s
        /\ received * p.shares <= s * p.tokens
    BY <1>2, <1>3, LeaveKeepsPrice
  <2>2. ledger'.delegationPools[j] = PoolLeave(p, s)
    BY <1>1, <1>3
  <2>3. p.tokens \in Nat /\ p.shares \in Nat /\ ledger.delegations[j][d].shares \in Nat
    BY <1>2 DEF DelegationPool, PoolInv, IInv, Good, OpenLedger, Delegation
  <2>4. /\ P.tokens = p.tokens /\ P.shares = p.shares
        /\ P.shareOf = [e \in Delegators |-> ledger.delegations[j][e].shares]
    BY DEF DelegatorView
  <2>. HIDE DEF received
  <2>5. /\ Q.tokens = p.tokens - received /\ Q.shares = p.shares - s
        /\ Q.shareOf = [P.shareOf EXCEPT ![d] = P.shareOf[d] - s]
    <3>1. /\ Q.tokens = ledger'.delegationPools[j].tokens
          /\ Q.shares = ledger'.delegationPools[j].shares
          /\ Q.shareOf = [e \in Delegators |-> ledger'.delegations[j][e].shares]
      BY DEF DelegatorView
    <3>2. Q.shareOf = [P.shareOf EXCEPT ![d] = P.shareOf[d] - s]
      BY <1>3, <2>4, <3>1
    <3>. QED
      BY <2>1, <2>2, <3>1, <3>2 DEF received
  <2>. HIDE DEF p, P, Q
  <2>6. /\ P.shareOf[d] - Q.shareOf[d] = s
        /\ P.tokens - Q.tokens = received
    <3>1. P.shareOf[d] \in Nat
      BY <2>3, <2>4
    <3>2. Q.shareOf[d] = P.shareOf[d] - s
      BY <2>4, <2>5
    <3>. QED
      BY <2>1, <2>3, <2>4, <2>5, <3>1, <3>2
  <2>7. Vault!Leaves(P, Q)
    <3>1. s > 0 /\ received > 0 /\ Q.shares = P.shares - s
      BY <2>1, <2>4, <2>5
    <3>2. received * P.shares <= s * P.tokens
      BY <2>1, <2>4
    <3>3. Q.shareOf = [P.shareOf EXCEPT ![d] = P.shareOf[d] - s]
      BY <2>5
    <3>. QED
      BY <2>6, <3>1, <3>2, <3>3, Zenon DEF Vault!Leaves
  <2>. QED
    BY <1>5, <2>7 DEF P, Q
<1>. QED
  BY <1>4, <1>5

LEMMA RewardIsVaultReward ==
    ASSUME PoolInv, IInv', PoolsRewarded(ledger, ledger'), NEW i \in Indexers
    PROVE  \/ Vault!IsRewarded(DelegatorView[i], DelegatorView'[i])
           \/ DelegatorView'[i] = DelegatorView[i]
<1>. DEFINE p == ledger.delegationPools[i]
            q == ledger'.delegationPools[i]
            P == DelegatorView[i]
            Q == DelegatorView'[i]
<1>1. p \in DelegationPool /\ Covered(p)
  BY DEF PoolInv, IInv, Good, OpenLedger
<1>2. q.shares = p.shares /\ (q.tokens = p.tokens \/ (p.tokens > 0 /\ q.tokens > p.tokens))
  BY DEF PoolsRewarded
<1>3. /\ P = [tokens |-> p.tokens, shares |-> p.shares, shareOf |-> P.shareOf]
      /\ Q = [tokens |-> q.tokens, shares |-> q.shares, shareOf |-> Q.shareOf]
      /\ Q.shareOf = P.shareOf
  BY DEF DelegatorView, PoolsRewarded
<1>4. p.tokens > 0 => p.shares > 0
  BY <1>1 DEF Covered, DelegationPool
<1>5. CASE q.tokens = p.tokens
  BY <1>2, <1>3, <1>5
<1>6. CASE p.tokens > 0 /\ q.tokens > p.tokens
  <2>. HIDE DEF p, q, P, Q
  <2>1. P.tokens = p.tokens /\ P.shares = p.shares /\ Q.tokens = q.tokens /\ Q.shares = q.shares
    BY <1>3
  <2>2. Vault!IsRewarded(P, Q)
    BY <1>2, <1>3, <1>4, <1>6, <2>1 DEF Vault!IsRewarded
  <2>. QED
    BY <2>2 DEF P, Q
<1>. QED
  BY <1>2, <1>5, <1>6

LEMMA VaultNext ==
    ASSUME PoolInv, [Next]_vars
    PROVE  Vault!Next
<1>1. IInv' /\ PoolStep(ledger, ledger')
  BY NextStep DEF PoolInv, GoodStep, Sound
<1>2. ASSUME NEW i \in Indexers
      PROVE  \/ Vault!Enters(DelegatorView[i], DelegatorView'[i])
             \/ Vault!Leaves(DelegatorView[i], DelegatorView'[i])
             \/ Vault!IsRewarded(DelegatorView[i], DelegatorView'[i])
             \/ DelegatorView'[i] = DelegatorView[i]
  BY <1>1, EntersIsVaultEntry, LeavesIsVaultExit, RewardIsVaultReward DEF PoolStep
<1>. QED
  BY <1>2 DEF Vault!Next

LEMMA VaultInit == Init => Vault!Init
BY DEF Init, Vault!Init, Vault!NobodyIn, DelegatorView, EmptyDelegationPool, EmptyDelegation

\* The delegation pools of Staking.sol are the vaults of DelegationVault.tla: no
\* slash, tax, close, claim or setting touches a delegator's tokens.
THEOREM ImplementsVaults == Spec => VaultsKept
<1>1. PoolInv /\ [Next]_vars => [Vault!Next]_DelegatorView
  BY VaultNext
<1>. QED
  BY <1>1, VaultInit, PoolInvariant, PTL DEF Spec, VaultsKept, Vault!Spec

=============================================================================
