----------------------------- MODULE MCCuration -----------------------------
(***************************************************************************)
(* An instance of Curation.tla for TLC: two curators of one deployment,    *)
(* with a linear curve and one of half the reserve ratio.                  *)
(***************************************************************************)
EXTENDS CurationProperties, TLC

CONSTANTS cat, dan,       \* curators
          s1, s2          \* subgraph deployments

FourEach == [c \in Curators |-> 4]

\* A curve of half the reserve ratio, and no tax yet.
CurveParams ==
    [x \in CurationSettings |->
        CASE x = "defaultReserveRatio"    -> 500000
          [] x = "minimumCurationDeposit" -> 1
          [] x = "curationTaxPercentage"  -> 0]

\* Values the setters accept and one that each refuses.
CurveChoices ==
    [x \in CurationSettings |->
        CASE x = "defaultReserveRatio"    -> {0, 500000, MAX_PPM}
          [] x = "minimumCurationDeposit" -> {0, 1}
          [] x = "curationTaxPercentage"  -> {0, 500000, MAX_PPM + 1}]

\* The curators play the same part.
CatAndDan == Permutations({cat, dan})
=============================================================================
