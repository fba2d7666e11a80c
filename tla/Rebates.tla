------------------------------ MODULE Rebates ------------------------------
(***************************************************************************)
(* The rebate pool of staking/libs/Rebates.sol: one per epoch, holding the *)
(* query fees of the allocations closed in that epoch until each claims    *)
(* its Cobb-Douglas share.                                                 *)
(***************************************************************************)
EXTENDS TokenMath

CONSTANT CounterSize    \* 2^32 in the code; small for TLC's 32-bit integers

ASSUME CounterSizeAssumption == CounterSize \in Nat \ {0}

Pool == [fees                      : Nat,
         effectiveAllocatedStake   : Nat,
         claimedRewards            : Nat,
         unclaimedAllocationsCount : 0 .. CounterSize - 1,
         alphaNumerator            : Nat,
         alphaDenominator          : Nat]

NoPool == [fees |-> 0, effectiveAllocatedStake |-> 0, claimedRewards |-> 0,
           unclaimedAllocationsCount |-> 0,
           alphaNumerator |-> 0, alphaDenominator |-> 0]

PoolExists(pool) == pool.effectiveAllocatedStake > 0

InitPool(pool, alphaNumerator, alphaDenominator) ==
    [pool EXCEPT !.alphaNumerator = alphaNumerator,
                 !.alphaDenominator = alphaDenominator]

UnclaimedFees(pool) == pool.fees - pool.claimedRewards

\* Faulty variant: an allocation without fees is not counted.
AddToPoolWithFees(pool, indexerFees, indexerEffectiveStake) ==
    [pool EXCEPT !.fees = @ + indexerFees,
                 !.effectiveAllocatedStake = @ + indexerEffectiveStake,
                 !.unclaimedAllocationsCount = @ + IF indexerFees > 0 THEN 1 ELSE 0]

\* The counter is a uint32 incremented without a check.
AddToPool(pool, indexerFees, indexerEffectiveStake) ==
    [pool EXCEPT !.fees = @ + indexerFees,
                 !.effectiveAllocatedStake = @ + indexerEffectiveStake,
                 !.unclaimedAllocationsCount = (@ + 1) % CounterSize]

(***************************************************************************)
(* cobbDouglas computes fees^alpha * stake^(1 - alpha) in 127-bit fixed    *)
(* point.  With alpha in 0..1 that is a weighted geometric mean, so it     *)
(* lies between the two plain shares; truncation may lose one unit below.  *)
(* A larger alpha, which setRebateRatio accepts, puts no such bound on it: *)
(* the result may be anything.                                             *)
(***************************************************************************)
CobbDouglas(pool, fees, stake) ==
    LET stakeShare == (pool.fees * stake) \div pool.effectiveAllocatedStake
        low        == DiffOrZero(MathMin(fees, stakeShare), 1)
        high       == fees + stakeShare - MathMin(fees, stakeShare)
    IN  CASE fees = 0 -> {0}
          [] fees > 0 /\ pool.alphaNumerator <= pool.alphaDenominator -> low .. high
          [] OTHER -> 0 .. (2 * pool.fees)

\* The power is (feeRatio / stakeRatio)^alpha, of the smaller ratio by the larger.
\* With the larger fee ratio it is the divisor, and under an alpha above 1 it may
\* underflow to zero or leave a quotient that overflows: the transaction reverts.
PowerIsSafe(pool, fees, stake) ==
    \/ pool.alphaNumerator <= pool.alphaDenominator
    \/ fees * pool.effectiveAllocatedStake <= stake * pool.fees

\* What redeem requires to return: the unclaimed fees are a checked subtraction, the
\* ratio of the stakes a checked division.  Where the power is not safe it may revert
\* all the same, so that there a claim may be made but is not certain to be.
CanRedeem(pool) == /\ pool.claimedRewards <= pool.fees
                   /\ pool.fees > 0 => PoolExists(pool)

\* Faulty variant: a rebate may be more than what is left.
RedeemableUncapped(pool, fees, stake) ==
    IF pool.fees > 0 THEN CobbDouglas(pool, fees, stake) ELSE {0}

\* The rewards redeem may pay: never more than the fees still in the pool.
Redeemable(pool, fees, stake) ==
    IF pool.fees > 0
    THEN {MathMin(r, UnclaimedFees(pool)) : r \in CobbDouglas(pool, fees, stake)}
    ELSE {0}

\* The counter is decremented without a check too.
Redeem(pool, reward) ==
    [pool EXCEPT !.unclaimedAllocationsCount = (@ - 1) % CounterSize,
                 !.claimedRewards = @ + reward]
=============================================================================
