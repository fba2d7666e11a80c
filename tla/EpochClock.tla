----------------------------- MODULE EpochClock -----------------------------
(***************************************************************************)
(* What the protocol contracts rely on about time: block.number grows by   *)
(* one per block, EpochManager.currentEpoch() never goes back, and a block *)
(* starts one new epoch at most.  Within a block the epoch moves only when *)
(* the governor shortens the epoch length, and then it may skip some.      *)
(* EpochManager.tla implements this specification; the other contracts are *)
(* checked against it.                                                     *)
(***************************************************************************)
EXTENDS Integers

CONSTANTS MaxBlock,    \* bound: the last block of the modelled chain
          MaxEpoch     \* bound: the last epoch

ASSUME ClockAssumption == MaxBlock \in Nat \ {0} /\ MaxEpoch \in Nat

VARIABLES block,     \* block.number
          epoch      \* epochManager().currentEpoch()

clock == <<block, epoch>>

Blocks == 1 .. MaxBlock
Epochs == 0 .. MaxEpoch

ClockTypeOK == block \in Blocks /\ epoch \in Epochs

\* The epoch manager is initialised with epoch 0 in some block after genesis.
ClockInit == block = 1 /\ epoch = 0

\* A new block, which may start a new epoch; an epoch lasts a block at least.
Tick == /\ block' = block + 1
        /\ epoch' \in {epoch, epoch + 1}
        /\ block' \in Blocks
        /\ epoch' \in Epochs

\* setEpochLength with a length the current epoch has outlived already.
Skip == /\ block' = block
        /\ epoch' \in (epoch + 1) .. MaxEpoch

\* How many epochs have passed since epoch e.
EpochsSince(e) == IF e < epoch THEN epoch - e ELSE 0

ClockSpec == ClockInit /\ [][Tick \/ Skip]_clock
=============================================================================
