# The Graph protocol contracts in TLA+

TLA+ models of the contracts under `src/contracts` and of the command line under
`src/cli` that deploys and calls them: what each part keeps, what each transaction
or step of a process does to it, the properties that make it correct, the
model-checking runs of TLC and the proofs checked by TLAPS.

    tlc -workers 2 -config Staking_stake.cfg MCStaking.tla     # one run
    tlapm StakingProofs.tla                                    # one set of proofs

## The system

Indexers stake GRT, allocate it to subgraph deployments and serve queries. Query
fees come in for an allocation, wait for a dispute period in a pool per epoch and
are paid out by a rebate function. Delegators add to an indexer's capacity and
share its income. Fishermen dispute wrong answers and an arbitrator has the
indexer slashed. Curators signal on deployments along a bonding curve and draw
rewards to them. A governor sets the parameters, a guardian can pause.

| Component | State | Operations | Talks to |
|---|---|---|---|
| `staking/Staking.sol` with `libs/Stakes`, `Rebates`, `Cobbs`, `MathUtils` | stakes, delegation pools and delegations, allocations, totals per deployment, rebate pools, operators, destinations, settings, roles | stakeTo, unstake, withdraw, slash, delegate, undelegate, withdrawDelegated, allocate, closeAllocation(Many), closeAndAllocate, collect, claim(Many), setters | EpochManager (epoch), RewardsManager (mint on close), Curation (fees), GraphToken, Controller (pauses) |
| `epochs/EpochManager.sol` | epoch length, last change of it, last epoch run | setEpochLength, runEpoch; currentEpoch is computed | block.number |
| `disputes/DisputeManager.sol` | open disputes, deposits, percentages, arbitrator | createQueryDispute, createQueryDisputeConflict, createIndexingDispute, accept, reject, draw, setters | Staking (reads allocations and stakes, slashes), GraphToken |
| `curation/Curation.sol`, `bancor/BancorFormula.sol` | a pool of tokens and a signal token per deployment | mint, burn, collect, setters | RewardsManager (hook before signal changes), GraphToken |
| `rewards/RewardsManager.sol` | rewards accumulated per signal, per deployment, per allocated token; deny list | the update hooks, takeRewards, setters | Curation and Staking (read totals), GraphToken (mints) |
| `discovery/GNS.sol`, `SubgraphNFT.sol` | subgraphs, their deployment, name signal shares, withdrawable tokens | publish, new version, deprecate, mintSignal, burnSignal, withdraw, migrate | Curation (as one big curator), NFT |
| `statechannels/AllocationExchange.sol`, `GRTWithdrawHelper.sol` | redeemed vouchers, authority | redeem, withdraw | Staking.collect |
| `governance/Controller, Governed, Pausable, Managed` | registry of contracts, governor and pending governor, two pause switches | setContractProxy, transfer and accept ownership, pause | everything |
| `governance/GraphGovernance.sol` | proposals and votes | createProposal, vote, approve | – |
| `upgrades/GraphProxy, GraphProxyAdmin` | implementation and pending implementation | upgradeTo, acceptUpgrade | the contracts behind it |
| `token/GraphToken.sol` | balances, minters, permits | ERC-20, mint, burn, permit | everything |
| `discovery/ServiceRegistry.sol`, `base/Multicall.sol` | – | – | – |
| `cli/commands/migrate, deploy, proxy/*`, `cli/network`, `address-book`, `config`, `artifacts` | the address book file, the accounts on the chain, the artifacts on disk | migrate (all, one, forced), deploy, deploy with a proxy, upgrade, set admin, transactions handed to a multisig | the chain, graph.config.yml |
| `cli/commands/airdrop` | the recipients and the resume file, the queue of batches, the mempool | load, approve, send a batch, save it, be killed and run again | Disperse contract, GraphToken |
| `cli/commands/contracts/*`, `protocol/*`, `cli/network` (sendTransaction) | the step a command is at | every contract and protocol command | the contracts, IPFS |

Transactions are atomic and run one after the other, so the hard behaviour of the
contracts is not in threads. It is in **long sequences of legal calls by different parties** that
reach a state nobody wrote a test for; in **amounts read at one time and used at
another** (capacity, slashable stake, dispute periods, settings that change under
open positions); in **running totals** kept by one function and undone by
another, where a checked subtraction that reverts locks somebody's money in; in
**rounding**, which must never favour the one who moves; in the **order** of
fees, closings, claims and epochs; and in **partial failure**, where the third
item of a batch reverts. Reentrancy does not arise: the only contracts called are
the protocol's own. The command line is different: **processes** that die between
two steps, run again on the files they left, overlap with others of the same wallet
or the same proxy, and send **transactions that are mined later, fail without a word
or are never heard of**. The list of hazards, each with its line and its properties,
is in `PROJECT.json`.

What makes each component correct:

- *Staking*: it holds exactly what it owes; totals equal the sums they stand for;
  locked tokens stay covered by stake, thaw on time and can leave; allocations go
  through their states once and in order; final fees are final; shares keep their
  price; pauses stop what they should.
- *EpochManager*: the epoch never goes back, whatever length is set; no epoch is
  run before it starts.
- *DisputeManager*: it holds exactly the open deposits; conflicting disputes leave
  in pairs; every dispute can be ended; stake is lost to disputes only.
- *Curation and RewardsManager*: signal and reserve go to zero together; the
  accumulators are brought up to date before whatever they are divided by changes;
  no more is distributed than was issued.
- *GNS*: its signal in Curation covers what its subgraphs have on their books, and
  its GRT what can be withdrawn; a share keeps its worth; curators can leave.
- *Deployment*: the address book names contracts that run; nothing is deployed
  twice without a reason; calls reach the contracts in the book; overlapping
  upgrades leave no proxy half-way.
- *Airdrop*: nobody is skipped, overpayments are bounded by what went wrong, and the
  command ends.
- *Commands*: they fit the contracts; one that ends without an error did what it
  says; no allowance is left behind.

## The modules

```
Managed ──────────────────────┐
TokenMath ── Stakes ──────────┐
          ├─ Rebates ─────────┤
          └─ DelegationPools ─┼─ Staking ─┬─ StakingProperties ── MCStaking
EpochClock ───────────────────┘           │       │  └─ StakingProofs
   ▲ implemented by                       │       │     SumProofs ──┘
EpochManager ── EpochManagerProofs        └─ DisputeManager ─── DisputeProperties ── MCDisputes
DelegationVault ◄─ implemented by Staking             StakingProofs ─┴─ DisputeProofs

TokenMath, Managed ── Curation ─┬─ CurationProperties ─┬─ MCCuration
                                │        SumProofs ────┴─ CurationProofs ─┐
                                ├─ GNS ── GNSProperties ─┬─ MCGNS         │
                                │                        └────────────────┴─ GNSProofs
              Staking ──────────┴─ RewardsManager ── RewardsProperties ─┬─ MCRewards
                                   StakingProofs, CurationProofs ───────┴─ RewardsProofs

CommandTable ── Commands ── CommandsProperties ─┬─ MCCommands
GraphProxy ── Deployment ── DeploymentProperties ─┬─ MCDeployment
               Airdrop ── AirdropProperties ────┬─┬─ MCAirdrop
                                SumProofs ──────┴─┴─ CommandLineProofs
```

| Module | Models |
|---|---|
| `TokenMath` | `MathUtils.sol` and percentages in parts per million |
| `Stakes`, `Rebates`, `DelegationPools` | the records of `Stakes.sol`, `Rebates.sol`, `IStakingData.sol` and the arithmetic on them, as operators |
| `Staking` | `Staking.sol`: one action per external function |
| `StakingProperties` | its properties |
| `DelegationVault` | abstract: what a delegator is promised |
| `EpochClock` | abstract: what the contracts rely on about blocks and epochs; its actions are the passage of time of `Staking` |
| `EpochManager` | `EpochManager.sol`, with its properties |
| `DisputeManager` | `DisputeManager.sol` composed with the whole of `Staking` |
| `DisputeProperties` | its properties |
| `Managed` | what the contracts share: the two pause switches and the deployments |
| `Curation` | `Curation.sol` with the curation tokens, and what the bonding curve of `BancorFormula.sol` keeps constant |
| `CurationProperties` | its properties |
| `RewardsManager` | `RewardsManager.sol` composed with the whole of `Staking` and of `Curation`, which call its hooks |
| `RewardsProperties` | its properties |
| `GNS` | `GNS.sol` and the owners of `SubgraphNFT.sol`, composed with the whole of `Curation` |
| `GNSProperties` | its properties |
| `GraphProxy` | `GraphProxy.sol`, `GraphProxyAdmin.sol` and `GraphUpgradeable.sol`: what one proxy answers, and when an implementation is accepted |
| `Deployment` | `migrate`, `deploy`, `proxy upgrade` and `proxy set-admin` with the address book and the chain, step by step |
| `DeploymentProperties` | its properties |
| `Airdrop`, `AirdropProperties` | `airdrop` with its queue, the nonces and the mempool, killed and run again |
| `CommandTable` | each contract and protocol command as a sequence of transactions, views and uploads, and the functions the contracts have |
| `Commands`, `CommandsProperties` | processes that run these commands through `sendTransaction` |
| `MC…` | instances for TLC |
| `SumProofs` | lemmas about shares in parts per million and sums over finite sets |
| `StakingProofs`, `RewardsProofs`, `EpochManagerProofs`, `DisputeProofs`, `CurationProofs`, `GNSProofs`, `CommandLineProofs` | theorems |

How state and actions correspond to the code:

- `ledger` is one record with the contract's mappings (`stakes`,
  `delegationPools`, `delegations`, `allocations`, `subgraphAllocations`,
  `rebates`) and the GRT balances it moves (`grt`). The private functions
  (`_stake`, `_withdraw`, `_delegate`, `_closeAllocation`, `_claim`, `_sendRewards`
  …) are operators from ledger to ledger, each with its `Can…` for the `require`s
  and checked subtractions. A handler is `Can… /\ Commit(…)`; handlers that run
  several private functions (`closeAllocationMany`, `closeAndAllocate`,
  `withdrawDelegated` into another pool) compose the operators as the code does,
  and a failing part disables the whole.
- `Commit` also demands that no balance is negative: a transfer or burn beyond the
  balance reverts. So a model step is exactly a transaction that succeeds.
- `operatorAuth`, `rewardsDestination`, `params`, `slashers`, `assetHolders`,
  `paused`, `partialPaused` are the other state variables. `IsAuth`,
  `NotPaused`, `NotPartialPaused` are the modifiers.
- Time is `EpochClock`: a block may start one new epoch; when the governor shortens
  the epoch length, epochs may be skipped within a block. `EpochManager` is proved
  to implement it, so `Staking` needs no more about epochs. Blocks and epochs are
  counted from the deployment; block 1 is the one the contracts are initialised in.
- Inputs from the rest of the protocol: the reward minted on a close is any of
  `RewardAmounts` or none; whether a deployment is curated is a free choice of each
  `collect`; the proof signature of an allocation key is the relation
  `AllocationKeys`. What goes to Curation or is burned leaves the model (`Gone`).
- The Cobb-Douglas rebate is any value between the two plain shares when alpha is at
  most 1 and any value at all otherwise, capped as `redeem` caps it. With an alpha above
  1 and a fee ratio above the stake ratio the power may underflow to a divisor of zero
  (`PowerIsSafe` fails): such a claim may be made or revert, so no property or
  theorem relies on its being possible.
- In `DisputeManager` a dispute ID is the tuple that the code hashes, and an
  attestation carries the allocation key its signature recovers to. The contract
  is one of `Contracts`, holds GRT in the same ledger and is the slasher; a step
  is one of `Staking`, with the disputes unchanged, or one of its own handlers.

- `curationLedger` is to `Curation` what `ledger` is to `Staking`: the pools, the
  balances of their curation tokens and the GRT of the curators and the contract.
  A deployment pool is curated while it has tokens, as in the code.
- The bonding curve is not computed as the code does. With a reserve ratio of 1/k it
  keeps `reserve / supply^k` constant; `PurchaseReturns` and `SaleReturns` give the
  largest whole amount that does not lower it, or one less, since the power of the code
  is truncated in 127-bit fixed point. A ratio of 100% is exact in the code and here.
- In `RewardsManager` the variable `rewards` holds the accumulators. Reading them is
  what the getters do, from `rewards`, the two ledgers and the block; a hook stores
  what was read (`Checkpointed`, `SignalUpdated`, `AllocationUpdated`). Handlers of
  `Staking` that call a hook are replaced by ones that do (`RewardedClose` …), in
  which the reward is computed instead of chosen; the others are taken as they are.
  `TotalSupply` is all GRT of both ledgers: minting a reward, burning a tax and
  burning unclaimed fees change it. Overflow checks of the power are left out.

- In `GNS` the contract is one of the curators of `Curation`; `Data` and `SetData` are
  the two mappings between which a claimed subgraph of version 1 chooses. A sale or
  purchase of signal goes through the operators of `Curation`, including its
  rounding. With a reserve ratio of 100% the name curve is proportional.
- In `Deployment` an account of the chain is a record at the position in which it
  was deployed, `process` is the one process of `migrate` or `deploy` (it has read the
  address book when it started and writes all of it on each save), and `up` holds the
  upgrades that overlap with it. A hash of code is the artifact with the number of
  its build. A transaction that is to be sent by the multisig is in `handed` and may
  be sent at any time, more than once, or never.
  `KillProcess` stands for every early end: the process is killed, or an error ends it that
  is not modelled by itself, such as an acceptance that reverts; `events.kills` counts both.
- In `Airdrop` a task of the queue has its nonce from the `NonceManager`, which counts
  whatever becomes of the transaction; `pool` is what the node took and has not mined.
  `Mine` takes the next nonce only, so a gap blocks those behind it.
- In `Commands` `session` says what each process does, and `granted` what the wallet
  allows each contract; a step is a transaction with a function name, a number of parameters
  and the kind of value that `sendTransaction` is given; whether it `Exists` in the
  ABI, is `Estimated`, and `Succeeds` when mined are three questions asked at
  three times. What a contract does is reduced to pulling an allowance and to the
  pause switch.

Operators marked "Faulty variant", and those that stand before the definition whose
name they begin with and are used nowhere (`SaveUnmined`, `AfterUpgradeReturning`),
are not used by any action. Each stands for a
plausible slip in the definition after it; `PROJECT.json` says which property must
fail when it takes that definition's place.

## The runs

Deadlock is checked in `Curation` and `GNS` only: elsewhere the modelled chain ends
with block `MaxBlock`, the processes have ended, or the inputs are used up, and the
system may stop. The types are proved (`TypeCorrect`, `DisputeTypes` and the
inductive invariants) and in no run; nor is `MinimumStakeKept`, a step property that
`MinimumHolds` proves.

| Run | Instance | Question |
|---|---|---|
| `Staking_stake` | one indexer with 5 GRT, a slasher, an operator, amounts 1–3, an allocation of 2 over two epochs, five blocks, thawing of 0 to 3 blocks | Is thawing fair under slashes and changes of the period, and can the indexer always leave? `StakesSound` (locks are covered by the stake and have deadlines), `NoEarlyThaw`, `IndexersCanLeave`, and `ThawingEnds` under fairness |
| `Staking_delegation` | two indexers, one of them a delegator of both, another delegator, 50% delegation tax, rewards of 1, moves between pools | Do shares, tokens and the contract's balance agree when every division rounds? `TotalsAddUp`, `PoolCoversShares`, `SharePriceNeverDrops`, and the refinement `VaultsKept` |
| `Staking_allocation` | two interchangeable allocations of one indexer, fees of 2, curation of 50%, dispute period of 1 or 2 epochs, alpha of 1/2 or 2, three epochs, both pause switches | Do totals, rebate counts and fees survive every order of opening, paying, closing and claiming, and can every final allocation be claimed? `TotalsAddUp`, `RebatesSound`, `ClaimsOpen`, `AllocationLifecycle`, `FinalFeesFrozen`, `PauseRespected` |
| `EpochManager` | nine blocks, lengths 1, 2, 3 and 5, and 0, which is refused | Is the epoch a clock whatever length is set? `EpochsKept`: no epoch is run before it starts, starts of epochs stay where they are, and the abstract `EpochClock` is implemented |
| `Disputes` | two indexers, both fishermen as well, one request with two responses, an allocation each; the same answers disputed by both, alone and in conflict, again after they were resolved; slashes of half or all of the stake; partial pause; thawing of one block over two blocks | Are deposits, links and stakes right whatever the indexers do meanwhile? `DepositsHeld`, `LinkedInPairs`, `EveryDisputeCanEnd`, `DisputesSettled` |
| `Curation` | two interchangeable curators with 4 GRT each, deposits 1–3, one deployment, ratios of 50% and 100%, tax of none or half, fees until 10 GRT are in the model | Are the reserves there, can everyone leave, and does nobody beat the curve? `ReservesSound`, `CuratorsCanLeave`, `NobodyBeatsTheCurve` |
| `Rewards` | two deployments, two interchangeable allocation keys of one indexer, one curator, two blocks in which the GRT doubles; in one the rate may change, a deployment be denied and anyone call the hooks | Is every block paid once, shared among the deployments, to the allocations that were open, and can each be closed? `RewardsCovered`, `RewardableWhileActive`, `AccrualSound` |
| `GNS` | two deployments; one publisher with a subgraph of version 1 and a new one, which may be given away; a curator who also signals directly and may send signal to the contract; curation tax and owner tax of half | Is what name curators own there, through versions, deprecation and withdrawals? `SignalHeld`, `NameSignalAddsUp`, `NameCuratorsCanLeave`, `SharesKeepTheirWorth` |
| `Airdrop` | five lines in three batches, one address listed twice, two batches at a time, a wallet one GRT short, three runs, two kills, one refused send, one lost answer | Is a resumed airdrop right about who was paid, and does it end? `ListedIsMined`, `OverpaymentBounded`, `EndsOrGap` under fairness |
| `Deployment` | the proxy admin, the Controller, Staking (linked, behind a proxy) and the DisputeManager (behind a proxy); one migrate and any three of: another migrate of one name, a forced one, a deploy, an early end of a process, a build, an upgrade, a change of admin | What do processes that end half-way and upgrades that overlap leave behind? `SavedProxiesRun`, `NoNeedlessDeployments`, `StrandedBounded`, `DoneCallsReachTheBook`, `PendingIsExplained` |
| `Commands` | two processes of one wallet, any two commands, one kill, the controller paused and unpaused in between | Which commands no longer fit the contracts, and what do the others leave behind? `OnlyLeftBehindMismatch`, `EndedMeansDone`, `LeftoverHasACause` |
| `Deployment_doc_calls` | two migrates and one other event | Expected to fail: DEPLOYMENT.md:65 says the calls of the configuration are made at the end; a migrate that follows one that was cut short skips the contracts that were deployed, and their calls with them (`DoneIsConfigured`) |

**Bounds.** Amounts are chosen so that the interesting cases happen within the
bound: a minimum stake that a partial unstake can undercut, two unstakes with
different periods so that the weighted average truncates, a slash larger than the
free stake, a tax and a cut of 50% of odd amounts so that each division loses a
unit, pools in which rewards make a share worth more than a token, a dispute
period that the governor lengthens over a finalized allocation, and two
allocations closed in one epoch and in different ones. The cases the exits depend on
were seen to occur: in `Staking_stake`, an allocation that is larger than what a slash
left of the stake when its epoch is over; in `Staking_allocation`, a final
allocation in a pool that is paid out already, and claims under an alpha of 2 on either
side of `PowerIsSafe`; in `Disputes`, an answer disputed by both fishermen at once,
alone and in conflict, one worth a token of slashing and one with nothing left to
slash. The arbitrator of that run is only set again to what it is: a new one
differs in nothing but its name. Two of a kind are enough
where a property relates pairs (two allocations of a pool, two delegators, two
indexers, two deployments, two overlapping upgrades or commands): the code treats a
third like the second. The theorems carry the most important of these properties to
all values. In the rewards run the fixed-point unit is 4 instead of 10^18, so that
every division of an accumulator truncates, and `CallBlocks` bounds the blocks in
which the governor and the oracle act and outsiders call the hooks; the hooks of
`Staking` and `Curation` are not bounded. The governor there sets the oracle and the
curation tax again to what they are: that they change matters to no property of the
rewards. `MaxCurationGRT` bounds the fees that enter the curation and GNS runs, and
`MaxNameSignal` the name signal of a subgraph. In the airdrop there are three
batches for two places in the queue, so that one has to wait for another, and a
batch may be sent up to three times. `MaxEvents` of the deployment bounds all that
is not the first migrate, in any combination. The mutants show that each property
is within reach of its run: with the faulty variant in place, the same instance
violates it.

**The exception in the rewards properties.** The accumulators are read between two
checkpoints as if the supply and the signalled GRT had always been what they are now.
`collect` pushes curation fees to the curation contract, and closes and claims mint
and burn, without a checkpoint. Such a step computes the blocks since the last
checkpoint again: a deployment may lose accrued rewards to another, and when they
fall below its snapshot the next `allocate` or close of the deployment reverts
(`CanUpdateAllocation`) until it has accrued more. `Repriced` names the steps of the
model that do so; `AccrualSound` and `RewardableWhileActive` say that no other operation
of the three contracts does. Outside the model the supply has other movers that take
no checkpoint: holders who burn their GRT (`ERC20Burnable`), minters, and the dispute
manager, which burns rejected deposits. These reprice in the same way.
`RewardsCovered` has no exception: in every state in which a close can be paid at all
(`CanUpdateAllocation`), what the open allocations of its deployment would be paid is
covered. The bound of `AccrualWithinIssuance` allows for what earlier blocks truncated:
one unit for each deployment, and a unit per signal token for the accumulator, which is
less than one in the run. `IndexersCanLeave`, which is about
`Staking` alone, therefore assumes that the hook of the rewards manager does not
revert.

**Fairness.** Two properties need it. For `ThawingEnds`, `FairSpec` assumes that
blocks keep coming, which the chain provides, and that an indexer who can withdraw in
the end does: the code has no other way for thawed stake to leave. For `EndsOrGap`,
`Fairness` of `Airdrop` assumes that a process that is not killed goes on (its queue
runs every task) and that the chain keeps including the wallet's next transaction;
nobody has to start a run or to fund the wallet. Nothing else is assumed fair; no one
is obliged to close, claim, or decide a dispute, so that instead of liveness
`IndexersCanLeave`, `ClaimsOpen`, `EveryDisputeCanEnd`, `CuratorsCanLeave` and
`NameCuratorsCanLeave` say that the transaction that would is
enabled whenever there is something to take.

## The proofs

All theorems hold for any sets of accounts, indexers, delegators, allocations and
deployments, any amounts and any settings the setters accept. They assume the
named assumptions of `Staking`, `EpochClock`, `Rebates`, `EpochManager`,
`DisputeManager`, `Curation`, `RewardsManager`, `GNS`, `Airdrop`, `Deployment` and
`Commands`: that addresses differ, that there are finitely many accounts, allocation
keys, curators and deployments, that initial settings pass the checks of
`initialize()`, that the subgraphs of version 1 took the first sequence IDs of their
accounts, that the contracts of a configuration have distinct names, that amounts are
natural numbers.

- **Sums** (`SumProofs`, lemmas for the proofs below): what a sum over a finite set is (`SumTakesOut`), that it
  moves with one of its values (`SumAfterUpdate`), is monotonic, covers its parts.
  The sums of the community modules choose one element after the other, so this calls
  for induction over the set. In place of the induction theorems, which take an
  operator, the proofs take a minimal counterexample: strict inclusion among the
  subsets of a finite set is well-founded, so one of the sets that break a formula has
  no part that does (`MinimalSubset`).

- **Staking** (`StakingProofs`): `TypeCorrect`, `LocksCovered`,
  `LocksHaveDeadlines`, `StakesStaySound`, `ThawingNotCutShort`. The inductive invariant is
  `IInv == TypeOK /\ Good(ledger)`. Types and locks need each other: that a stake
  stays a natural number after a slash or a withdrawal follows only from the locks
  being covered, and the locks are compared with numbers. `Good` is `LockedWithinStake`
  and `LockHasDeadline` of one ledger, with balances that may still be negative,
  since a handler's intermediate ledgers are not yet committed: each operator on
  ledgers keeps `Good` (one lemma each, e.g. `SlashGood`, `ClosedGood`), `Commit`
  adds that the balances are natural numbers (`CommitGood`), and each handler is
  then a composition of lemmas. The same pass shows of each step how it may
  move the pools (`PoolStep`), the locks (`ThawingKept`), the allocations
  (`AllocationStep`: at most two moves, each an opening, a close, a claim or a collect
  under the state that its `require` asks for), the stakes (`SecureKept`) and, under a
  pause, anything (`PauseKept`), and that `Surplus`, the balance of the contract
  beyond what it owes, is the same after it.
- **The books** (also `StakingProofs`): `TotalsStayExact`, `RebatesStaySound`,
  `LifecycleInOrder`, `FinalFeesStayFrozen`, `PausesHold`, `MinimumHolds`. The
  invariant is `Books`: `IInv`, no surplus, and the totals written as sums over *all*
  allocations or delegators with zeros for those that do not count, so that each move
  changes one summand. `RebateBooks` adds the rebate pools: that their counter counts
  the allocations that wait, and that fees and effective allocations of those are
  within the pool's; what waits has an effective allocation, which is why an existing
  pool is recognised by its stake. Two moves of one transaction are one turn of an
  allocation, since what is opened or closed in this epoch can be neither closed
  nor claimed in it (`TurnsTransitive`). `RebatesStaySound` and `FinalFeesStayFrozen`
  are for fewer allocation keys than `CounterSize` (`Countable`): the code counts
  the unclaimed allocations of a pool in 32 bits without a check.
- **Delegation** (also `StakingProofs`): `SharesCovered`, `PriceNeverDrops` and
  `ImplementsVaults`. The invariant adds that a pool has at least as many tokens as
  shares, and no tokens without shares; the steps are those `PoolStep` allows, and
  three lemmas about truncating division say that entering, leaving and rewards
  keep the price. The refinement of `DelegationVault` follows step by step.
- **Epochs** (`EpochManagerProofs`): `NeverRunAhead`, `StartsNeverMove`, `IsAClock`,
  and together `EpochsAreKept`.
  The invariant is the type invariant with the last run epoch behind the current
  one; the work is in how the quotient of the blocks since the last change moves.
- **Disputes** (`DisputeProofs`): `DisputeTypes`, `DisputesLinked`,
  `DisputesNeverRewritten`, `SlashedIndexersCanLeave`. Staking's invariant is kept
  by the handlers of the dispute manager because they touch its ledger by a slash
  and transfers only; the links are inductive by themselves, since IDs of open
  disputes are never reused and both of a pair leave together. `DepositsStayHeld`
  needs them: the invariant `DepositsBooked` says that finitely many disputes are open
  and that their deposits are what the dispute manager holds, and a dispute that
  leaves with the resolved one had none; that the staking contract never touches
  these tokens is `ContractsKept` of its steps. `DepositsGoWhereTheyShould` is shown of
  every step with the invariant. `EveryLossExplained` says that a stake falls by what
  has thawed, by one dispute and its percentage, or by the call of a slasher the
  governor has named besides; `ResolutionsSettle` is `DisputesSettled` where the
  governor names none (`RoleChoices = {}`, as in the run): the property would not
  be true otherwise.

- **Curation** (`CurationProofs`): `CurationReservesSound` and `CurvesHold`. The
  inductive invariant `CurationInvariant` is `ReservesSound` with the types and with
  ratios of at most 100%. Each operation is a `SoundStep`: GRT enters or leaves one pool
  and the contract alike, the pool is sound afterwards and not below its curve; such a
  step keeps the sum of the reserves (`SumAfterUpdate`). The work is in the curve: the
  amounts are the largest that do not lower it, or one less, so a purchase and a sale
  keep `reserve / supply^k` from falling (`PurchaseKeepsCurve`, `SaleKeepsCurve`), and a
  sale of part of the signal cannot empty the reserve, because the power of the signal
  that is left is positive. `Power` is a recursive function; that it has a value and
  grows with its base is proved by the least exponent for which it would not
  (`LeastNumber`). As in the runs, the curve is the one of a ratio of 1/k. A step may
  start from a draft, the ledger within a transaction in which accounts still owe GRT,
  so that the steps of one transaction can be put together.

- **Rewards** (`RewardsProofs`): `RewardsAreFunded`, `RewardsAreCovered`,
  `AccrualIsSound`, `StaysRewardableWhileActive`, and, for the staking and curation contracts with the rewards minted and fees paid into the pools,
  `TotalsStayExactRewarded` and `RewardedReservesSound`. What an open allocation would
  be paid is not inductive: it is read off accumulators that the next signal, fee or
  block changes. The invariant `RewardsInvariant` therefore looks at the last update of
  a deployment, which only the hooks of `allocate` and close move (`Funded`): in
  fractions of a token, what its open allocations gained by then (`Gains`) and its
  closed ones were paid is at most what it had accrued, and no allocation remembers a
  larger accumulator than its deployment's. An update adds to the accumulator a
  quotient k of what accrued since by the allocated tokens, and so to the gains k times
  the sum of the allocations; that this sum is the running total that was the divisor
  is `AllocationsBooked` of the books, so `Books` is part of the invariant, as is
  `CurationInvariant`, because what accrues is a share of the signalled tokens. That
  the update adds nothing negative is the contract's checked subtraction
  (`CanUpdateAllocation`); that all is a whole number needs the loop of `_pow`, a
  recursive function of three arguments, to compute one that does not decrease
  (`PowLoopIs`, `PowGrows`). Steps of the staking contract that take no allocation up
  or down leave the funds as they are (`OpenStay`), and so does everything that only
  moves the accumulator per signal (`LeavesFunds`).
  The two statements about steps rest on the same invariant. Each step is a
  `HookedStep`, in which the staking contract opens or closes allocations: the hooks
  write only snapshots of what the contract computes for this block (`Fresh`), and the
  supply does not fall; a `QuietStep`, which keeps the snapshots and opens nothing; or a
  `BlockStep`. Within a block nothing accrues unless `Repriced`: either no input of the
  computation moves (`SignalLeft`, `AccrualLeft`), or the hook of the curation contract
  takes up what was accrued before it does (`AccrualTaken`). Over a block each deployment
  gains its signal times what a signalled token earns, and less than a unit for
  truncation (`ShareStep`); the sum over the deployments is at most what the block issues
  because the curation contract holds all reserves, so that they add up to no more than
  the signalled tokens, by which the issue was divided (`BlockIssues`). That a close can
  be paid is that the deployment has accrued no less than its snapshot (`RewardableIs`):
  a hook makes the two equal at a supply that does not fall afterwards, and then they
  part only as the deployment accrues (`AccrualGrows`).

- **Subgraphs** (`GNSProofs`): `SubgraphSignalIsHeld`, `NameSignalIsOwned`,
  `SharesAreKept`, and, of the pools below, `SubgraphReservesSound` and
  `SubgraphsBeatNoCurve`. To the pools every operation is one or two of the sound steps
  of `CurationProofs` and transfers of GRT among curators, which they do not notice
  (`OnCurve`). To the subgraphs it replaces one record (`RecordReplaced`) by another
  that is sound: its name signal is the sum of its curators', and stands for signal
  while it is published and for GRT from then on, never for both (`RecordSound`). That
  the contract still holds what the records claim follows from the one that is replaced
  (`Covered`), whatever the others are. The division that pays who leaves needs that
  there is signal exactly while there is name signal: then it takes all only with the
  last share (`ShareLeft`). A new version sells and buys in one transaction; the first
  signal of a pool is never zero (`MintedSignal`), which is why the record is not left
  with name signal and nothing behind it. The invariant `GNSInvariant` adds that the
  sequence IDs to come are unused by either version (`IDsUnused`), so that publishing
  writes no record that has claims; it holds initially because an account's subgraphs of
  version 1 are as many as its first free ID (`FS_PigeonHole`).

- **Airdrop** (`CommandLineProofs`): `ResumeFileTrue` and `OverpaymentsAreBounded`. An
  address is listed only if a transaction with a line of it was mined. A task that may save has only the nonce of
  its transaction to go by, so the invariant says that its batch is either in the
  mempool under this nonce or was mined (`TasksTrue`), and, so that a nonce identifies
  a transaction, that no two in the mempool share one and none is behind the chain
  (`NoncesApart`), also across the runs that left them there. Overpayments alone are
  not inductive: when one shows, the kill it is due to may be two runs back. The
  invariant `DebtBounded` adds up what each line has received or has in the mempool,
  less one for a line that is safe: that no task of the run is to send, and that is
  listed or held by a task that will list it. Sending a batch raises the copies of its
  lines by one and makes them safe, for which the batches must not overlap
  (`BatchesAreSlices`); mining, saving and the end of a run leave the sum as it is or
  lower; only a lost answer, by the lines of a batch, and a kill, by the lines the
  active tasks hold, raise it.

- **Deployments** (`CommandLineProofs`): `SavedProxiesAlwaysRun`,
  `DeployedNoMoreThanNeeded`, `FewAreStranded`, `DoneCallsAlwaysReachTheBook` and
  `PendingIsAlwaysExplained`, from one invariant, `DeploymentInvariant`
  (`DeploymentIsSound`), for any configuration and any number of events. Nobody else
  writes the address book, so the copy of the process is the book (`ProcessSound`), and
  an entry hashes a build there was of the right artifact (`BookSound`). None of the
  five properties is inductive alone:
  - a proxy about to be saved must run or have been printed already (`ProxiesSound`);
  - deployments are counted against the `Level` of the entry, the builds up to the one
    it hashes. A plain run deploys only below the `Top` level, and its next step raises
    the entry; a forced run or a `deploy` pays when it starts for each contract that is
    ahead of it (`Prepaid`), so that an early end on the way owes nothing
    (`DeploymentsCounted`);
  - a `deploy-save` is counted against stranded entries from its start, and a process
    that wraps has the entry it is about to replace (`StrandedCounted`);
  - calls put off have the address in the book, and none of their contracts is still
    to be deployed, which is why a later entry cannot move them (`CallsSound`);
  - a waiting proxy is the process's own, or that of an upgrade that can still accept,
    or is left over; only an early end or a change of admin leaves one (`WaitingCounted`).
    An upgrade that is overtaken leaves its proxy to the one that overtook it, whose
    implementation is the one that waits, so that no two explained proxies share an
    upgrade.

- **Commands** (`CommandLineProofs`): `OnlyTheLeftBehindMismatch`,
  `EndedCommandsAreDone` and `LeftoversHaveACause`, for any number of processes of one
  wallet, commands, amounts and kills, from `CommandsInvariant` (`CommandsStaySound`).
  Two facts about the table carry them, proved command by command (`CommandsGood`): a
  command has a call that does not fit the contracts exactly if it is in `LeftBehind`,
  and an approval that a command gets to is its only one, with the call that pulls all
  of it right behind (`ApprovesAt`). `disputes createQueryConflict` approves twice, but
  its `allocate` stops it in between. On the way:
  - a command has come only as far as its calls fit (`SessionsSound`), so one that ends
    well has none that does not;
  - a transaction in the mempool is the one its process waits for, the only one of it,
    and still passes the estimation unless another was mined since (`MempoolSound`);
  - an allowance that is left is that of a process that approved it and has not pulled
    it (`Owes`), and each process has one at most (`OwesOne`). Where nobody owes it, a
    command was cut short: at its kill, or later, when the approval it left in the
    mempool is mined, which is why the invariant counts those too (`Orphans`). A
    process need not owe what it approved, if another's approval replaced it with more:
    then that one does (`LeftoversCounted`). That a failed pull was paid for needs
    `reverted`, which the end of the command counts.

Only model-checked: everything with `ENABLED` (`IndexersCanLeave`, `ClaimsOpen`,
`EveryDisputeCanEnd`, `CuratorsCanLeave`, `NameCuratorsCanLeave`) and liveness (`ThawingEnds`, `EndsOrGap`),
out of reach of the prover.

## Divergences noted without a run

- Staking.sol:1260 says that purging a claimed allocation avoids `collect()` to be
  called. `collect` still accepts fees for it and takes all of them as protocol tax
  (`UsedProtocolPercentage`).
- Cobbs.sol:33 requires an alpha of at most 1. `setRebateRatio` accepts any ratio
  of positive numbers (`SetRebateRatio`); the rebate model leaves the result open then,
  and a claim whose fee ratio is above its stake ratio may revert on a divisor of zero
  (Cobbs.sol:86-88). `ClaimsOpen` excepts those claims (`PowerIsSafe`) and no others.
- Pausable.sol:6 says a partial pause pauses the functions by which GRT exits.
  `withdraw` and `withdrawDelegated` check the full pause only (`Withdraw`).
- DisputeManager.sol:473-474 speaks of one dispute at a time; two fishermen may have
  disputes open against one allocation (`Disputes` has such states).
- RewardsManager.sol:271 asks for a checkpoint before the signalled tokens change;
  `collect` of the staking contract changes them without one (`Repriced`).
- GNS.sol:500-502: without an owner tax `_chargeOwnerTax` returns zero, which the
  caller takes for the tokens to signal with, so a subgraph with signal gets no new
  version while either tax is zero (`WithOwnerTax`).
- `protocol set controller-set-paused false` pauses: the word reaches the contract
  as a string that is not empty (`SwitchesOn`).
- Commands the contracts left behind, listed in `LeftBehind`: `allocate` gives four
  of five parameters, `close` of an allocation calls a function that is gone,
  `withdraw` and `unregister` give `sendTransaction` no array, the arbitrator's
  commands give it a string, `upgradeProposal` and the acceptance of the governor's
  role do not match their functions.
- `curation mint` sets its own gas limit and is therefore not estimated: it fails on
  the chain where the others fail before they are sent.

## What is not modelled, and why

- Integer overflow: amounts are natural numbers; the total supply of GRT is far
  below 2^256 and the code subtracts with SafeMath, which is modelled. The one
  counter that is changed without a check, `unclaimedAllocationsCount`, wraps at
  `CounterSize` (2^32 in the code).
- Plain ERC-20 transfers to the contracts: that they hold *exactly* what they owe is about
  the calls of the protocol. A transfer would leave them with more, which nothing pays out.
- The fixed-point series of `LibFixedMath` and `BancorFormula`: what they keep is
  modelled, and the roundings they may make are choices.
- Signatures and hashes: a relation, a tuple.
- `AllocationExchange` and `GRTWithdrawHelper` pass fees on to `collect`; an asset
  holder stands for them. What they add is the check of one flag per voucher in the
  transaction that sets it. `ServiceRegistry` and `GraphGovernance` are records that
  nothing else reads; the minters and permits of `GraphToken`, and the two-step
  change of a governor, are one mapping or one signature each: no state relates to
  another in them.
- `Multicall`, the NFT descriptor, events, the ERC-1056 registry, test contracts and
  mocks: no protocol state of their own, or third-party.
- Of the command line: the tables of arguments for yargs, messages, confirmation
  questions, the parsing of files and of metadata, `any.ts`, `proxy list`, the
  settings of hardhat. In the models of the command line one transaction is sent and
  mined in one step where a process waits for it alone (`Deployment`); processes that
  write the address book at the same time are left out.
