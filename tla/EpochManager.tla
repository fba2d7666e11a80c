---------------------------- MODULE EpochManager ----------------------------
(***************************************************************************)
(* contracts/epochs/EpochManager.sol: the epoch is computed from the block *)
(* number and the last change of the epoch length, never stored.           *)
(***************************************************************************)
EXTENDS Integers

CONSTANTS MaxBlock,        \* bound: the last block of the modelled chain
          EpochLengths     \* the lengths initialize() and the governor may set

ASSUME EpochManagerAssumption ==
    /\ MaxBlock \in Nat \ {0}
    /\ EpochLengths \subseteq Nat

VARIABLES block, epochLength, lastRunEpoch, lastLengthUpdateEpoch, lastLengthUpdateBlock

vars == <<block, epochLength, lastRunEpoch, lastLengthUpdateEpoch, lastLengthUpdateBlock>>

EpochsSinceUpdate == (block - lastLengthUpdateBlock) \div epochLength

CurrentEpoch == lastLengthUpdateEpoch + EpochsSinceUpdate

CurrentEpochBlock == lastLengthUpdateBlock + EpochsSinceUpdate * epochLength

IsCurrentEpochRun == lastRunEpoch = CurrentEpoch

Init == /\ block = 1
        /\ epochLength \in EpochLengths \ {0}
        /\ lastRunEpoch = 0
        /\ lastLengthUpdateEpoch = 0
        /\ lastLengthUpdateBlock = 1

\* Faulty variant: the new length counts from block zero.
LengthOnly(length) == /\ epochLength' = length
                      /\ UNCHANGED <<lastLengthUpdateEpoch, lastLengthUpdateBlock>>

\* The current epoch keeps its number and its start; the new length counts from
\* that start, so that a shorter one may end the epoch at once.
LengthFromEpochStart(length) == /\ lastLengthUpdateEpoch' = CurrentEpoch
                                /\ lastLengthUpdateBlock' = CurrentEpochBlock
                                /\ epochLength' = length

SetEpochLength(length) == /\ length > 0
                          /\ length # epochLength
                          /\ LengthFromEpochStart(length)
                          /\ UNCHANGED <<block, lastRunEpoch>>

RunEpoch == /\ ~IsCurrentEpochRun
            /\ lastRunEpoch' = CurrentEpoch
            /\ UNCHANGED <<block, epochLength, lastLengthUpdateEpoch, lastLengthUpdateBlock>>

NextBlock == /\ block < MaxBlock
             /\ block' = block + 1
             /\ UNCHANGED <<epochLength, lastRunEpoch,
                            lastLengthUpdateEpoch, lastLengthUpdateBlock>>

Next == \/ NextBlock
        \/ \E length \in EpochLengths : SetEpochLength(length)
        \/ RunEpoch

Spec == Init /\ [][Next]_vars

-----------------------------------------------------------------------------

TypeOK == /\ block \in Nat \ {0}
          /\ epochLength \in Nat \ {0}
          /\ lastRunEpoch \in Nat
          /\ lastLengthUpdateEpoch \in Nat
          /\ lastLengthUpdateBlock \in 1 .. block

\* No epoch is run before it starts: whatever the governor does to the length,
\* currentEpoch() never falls behind an epoch that was run (EpochManager.sol:59-68).
NoRunAhead == lastRunEpoch <= CurrentEpoch

\* The other contracts see a clock that never goes back and that only a change of
\* length lets skip epochs.  Staking.sol needs this: a rebate pool deleted with
\* its last claim must not be opened again for the same epoch.
Clock == INSTANCE EpochClock WITH epoch <- CurrentEpoch, MaxEpoch <- MaxBlock

ImplementsClock == Clock!ClockSpec

\* A change of length leaves the start of the running epoch where it was, unless
\* the epoch ends with it: no block is counted for two epochs.
StartsStay ==
    [][CurrentEpochBlock' >= CurrentEpochBlock
       /\ (CurrentEpoch' = CurrentEpoch => CurrentEpochBlock' = CurrentEpochBlock)]_vars

\* What the staking contract and runEpoch need of any history of lengths: the clock
\* (EpochManager.sol:106-108), epochs that keep their blocks (114-116), and no epoch
\* run before it starts, since runEpoch (59-68) could not run it again when it does.
EpochsKept == ImplementsClock /\ StartsStay /\ []NoRunAhead
=============================================================================
