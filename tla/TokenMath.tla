----------------------------- MODULE TokenMath -----------------------------
(***************************************************************************)
(* The integer arithmetic the protocol contracts share: the helpers of     *)
(* staking/libs/MathUtils.sol and the parts-per-million split that every   *)
(* contract writes inline.  Division truncates, as in Solidity.            *)
(***************************************************************************)
EXTENDS Integers

\* 100% expressed in parts per million.
MAX_PPM == 1000000

MathMin(x, y) == IF x <= y THEN x ELSE y

DiffOrZero(x, y) == IF x > y THEN x - y ELSE 0

\* Faulty variant: each weight is divided before it is multiplied.
WeightedAverageDividingFirst(valueA, weightA, valueB, weightB) ==
    valueA * (weightA \div (weightA + weightB)) + valueB * (weightB \div (weightA + weightB))

WeightedAverage(valueA, weightA, valueB, weightB) ==
    (valueA * weightA + valueB * weightB) \div (weightA + weightB)

\* uint256(_percentage).mul(_tokens).div(MAX_PPM)
Portion(percentage, tokens) == (percentage * tokens) \div MAX_PPM
=============================================================================
