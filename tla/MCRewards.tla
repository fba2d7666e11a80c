----------------------------- MODULE MCRewards ------------------------------
(***************************************************************************)
(* An instance of RewardsManager.tla for TLC: one indexer with two keys    *)
(* and one curator.  The fixed-point unit is four, and the GRT doubles     *)
(* with every block while the issuance rate is eight.                      *)
(***************************************************************************)
EXTENDS RewardsProperties, MCStaking

CONSTANTS cat             \* a curator

\* The indexer stakes once and all at once, and thaws beyond the model.
RewardedParams == [FeeParams EXCEPT !["thawingPeriod"] = 9,
                                      !["curationPercentage"] = MAX_PPM]

TwoToStake == [x \in Accounts |-> IF x = ann THEN 2 ELSE 1]
CuratorsTwo == [c \in Curators |-> 2]

\* A linear curve and no tax.
LinearParams ==
    [x \in CurationSettings |->
        CASE x = "defaultReserveRatio"    -> MAX_PPM
          [] x = "minimumCurationDeposit" -> 1
          [] x = "curationTaxPercentage"  -> 0]

NoCurationChoices == [x \in CurationSettings |-> {}]

\* Setting the tax again to what it is moves nothing.
SameTax == [NoCurationChoices EXCEPT !["curationTaxPercentage"] = {0}]
=============================================================================
