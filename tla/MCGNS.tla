------------------------------- MODULE MCGNS -------------------------------
(***************************************************************************)
(* An instance of GNS.tla for TLC: two deployments, an owner and a curator *)
(* of its subgraphs, and someone who signals directly.                     *)
(***************************************************************************)
EXTENDS GNSProperties, TLC

CONSTANTS gns, ola, nia,  \* the contract, an owner, a curator
          s1, s2          \* subgraph deployments

NamersGRT == [c \in Curators |-> IF c = gns THEN 0 ELSE IF c = ola THEN 2 ELSE 1]

\* The first signal costs the minimum deposit, half of every deposit is tax.
TaxedCuration ==
    [x \in CurationSettings |->
        CASE x = "defaultReserveRatio"    -> MAX_PPM
          [] x = "minimumCurationDeposit" -> 1
          [] x = "curationTaxPercentage"  -> 500000]

TaxOrNone ==
    [x \in CurationSettings |->
        IF x = "curationTaxPercentage" THEN {500000, MAX_PPM + 1} ELSE {}]

\* The first subgraph of the owner is one of version 1.
OneLegacy == (<<ola, 0>> :> s1)
=============================================================================
