---------------------------- MODULE MCDeployment ----------------------------
(***************************************************************************)
(* Four contracts of graph.config.yml: the Controller, which learns of     *)
(* Staking only after Staking is deployed; Staking, linked and proxied,    *)
(* which is told the DisputeManager; and the DisputeManager, proxied.      *)
(***************************************************************************)
EXTENDS DeploymentProperties

MCOrder == <<"GraphProxyAdmin", "Controller", "Staking", "DisputeManager">>

Plain(calls) == [proxy |-> FALSE, linked |-> FALSE, init |-> {}, calls |-> calls]
Proxied(linked, calls) ==
  [proxy |-> TRUE, linked |-> linked, init |-> {"Controller"}, calls |-> calls]

MCConfig ==
  [n \in {"GraphProxyAdmin", "Controller", "Staking", "DisputeManager"} |->
     CASE n = "GraphProxyAdmin" -> Plain(<<>>)
       [] n = "Controller" -> Plain(<<[refs |-> {"Staking"}], [refs |-> {"DisputeManager"}]>>)
       [] n = "Staking" -> Proxied(TRUE, <<[refs |-> {"DisputeManager"}]>>)
       [] n = "DisputeManager" -> Proxied(FALSE, <<>>)]

UpgraderSymmetry == Permutations(Upgraders)
=============================================================================
