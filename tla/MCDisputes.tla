----------------------------- MODULE MCDisputes -----------------------------
(***************************************************************************)
(* An instance of DisputeManager.tla for TLC: two indexers who are         *)
(* fishermen as well, one request with two answers.                        *)
(***************************************************************************)
EXTENDS DisputeProperties, MCStaking

CONSTANTS q1,             \* a request
          r1, r2          \* responses

\* Half of the stake for a wrong answer, all of it for a wrong proof of
\* indexing: two query disputes in a row leave nothing that can be slashed.
SlashingParams ==
    [x \in DisputeSettings |->
        CASE x = "minimumDeposit"        -> 1
          [] x = "idxSlashingPercentage" -> MAX_PPM
          [] OTHER                       -> Half]

\* Values the setters accept and one that each kind of setter refuses.
DisputeGovernance ==
    [x \in DisputeSettings |->
        CASE x = "minimumDeposit"            -> {0, 1}
          [] x = "fishermanRewardPercentage" -> {Half, MAX_PPM + 1}
          [] x = "qrySlashingPercentage"     -> {0, Half}
          [] x = "idxSlashingPercentage"     -> {MAX_PPM}]

StakersOnly == [x \in Accounts |-> 3]

ShortThawing == [BaseParams EXCEPT !["thawingPeriod"] = 1,
                                   !["minimumIndexerStake"] = 1]

\* Each indexer has one allocation key.
OneKeyEach == {<<ann, a1>>, <<bob, a2>>}
=============================================================================
