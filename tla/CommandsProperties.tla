------------------------- MODULE CommandsProperties -------------------------
(***************************************************************************)
(* Which commands still fit the contracts, and what their transactions     *)
(* leave behind.                                                           *)
(***************************************************************************)
EXTENDS Commands

\* The commands the contracts left behind: a function that is gone
\* (staking.ts:52, governance.ts:26), one with another number of parameters
\* (staking.ts:39, disputeManager.ts:68), and calls that give sendTransaction no
\* array to push to (staking.ts:28, serviceRegistry.ts:19, disputeManager.ts:155).
\* `protocol set` always sends a parameter, and acceptOwnership has none.
LeftBehind ==
  {<<"staking", n>> : n \in {"withdraw", "allocate", "closeAllocation"}}
  \union {<<"disputes", n>> : n \in {"createQueryConflict", "createIndexing", "accept",
                                     "reject", "draw"}}
  \union {<<"governance", "upgradeProposal">>, <<"registry", "unregister">>,
          <<"set", "acceptOwnership">>}

\* No command but these fails for the shape of a call, at its first transaction
\* or, after others were sent, at a later one; and none of these ever ends well.
OnlyLeftBehindMismatch ==
  \A p \in Sessions : /\ session[p].how = "mismatch" => session[p].id \in LeftBehind
                      /\ session[p].how = "done" => session[p].id \notin LeftBehind

\* A command that ends without an error has had all its transactions mined, and
\* one of them failed only if the wallet's other transactions came between its
\* estimation and its block, or if it was given a gas limit and not estimated
\* (curation.ts:18): sendTransaction itself does not look at the status.
EndedMeansDone ==
  \A p \in Sessions :
    session[p].how = "done" =>
      /\ \A i \in DOMAIN mempool : mempool[i].by # p
      /\ session[p].reverted =>
           \/ session[p].overtaken
           \/ \E i \in DOMAIN session[p].steps : session[p].steps[i].gasLimit

\* Commands approve exactly what the contract they call next pulls, also when two
\* of them overlap and one replaces the allowance of the other: an allowance that
\* is left belongs to a command that runs or was cut short.
Running == {p \in Sessions : session[p].pc # "off"}
LeftoverHasACause ==
  Cardinality({s \in Spenders : granted[s] > 0}) <= used.cut + Cardinality(Running)
=============================================================================
