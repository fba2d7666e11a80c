--------------------------- MODULE GNSProperties ---------------------------
(***************************************************************************)
(* What GNS.tla promises to the curators of a subgraph: the contract holds *)
(* what their name signal stands for, through new versions, deprecation    *)
(* and withdrawals, and nobody's share shrinks by what another one does.   *)
(***************************************************************************)
EXTENDS GNS

\* Several subgraphs may point to one deployment, and all the deprecated ones pay
\* from one balance: the signal the contract holds of a deployment covers what its
\* subgraphs have on their books, and its GRT what can still be withdrawn.
SignalHeld ==
    /\ \A s \in Subgraphs :
          SumFunction([id \in SubgraphIDs |->
              IF Data(id).subgraphDeploymentID = s THEN Data(id).vSignal ELSE 0])
             <= curationLedger.signal[s][GNSAddress]
    /\ SumFunction([id \in SubgraphIDs |-> Data(id).withdrawableGRT])
          <= curationLedger.grt[GNSAddress]

\* The name signal of a subgraph is what its curators own.  While it is published
\* there is vSignal behind it exactly if there is name signal, so that the first
\* deposit, and the first after everyone left, is priced one for one and no other;
\* and it has an owner, who alone can deprecate it.
NameSignalAddsUp ==
    \A id \in SubgraphIDs :
        LET data == Data(id)
        IN  /\ data.nSignal = SumFunction(data.curatorNSignal)
            /\ IsPublished(id) => /\ data.nSignal > 0 <=> data.vSignal > 0
                                  /\ owners[id] # NoOwner

\* Rounding is never at the expense of those who stay: neither the vSignal of a
\* share drops while a subgraph keeps its deployment, nor, once it is deprecated,
\* the GRT; the last to withdraw leaves nothing and nobody before takes all.  A new
\* version buys the first signal of its deployment: the owner, who chooses the
\* deployment and the moment, cannot be ahead of the curators (GNS.sol:305).
SharesKeepTheirWorth ==
    [][\A id \in SubgraphIDs :
          LET was == Data(id)
              is  == Data(id)'
              s   == is.subgraphDeploymentID
          IN  /\ (is.nSignal > 0 /\ s = was.subgraphDeploymentID /\ ~is.disabled) =>
                     is.vSignal * was.nSignal >= was.vSignal * is.nSignal
              /\ was.disabled =>
                     /\ is.withdrawableGRT * was.nSignal >= was.withdrawableGRT * is.nSignal
                     /\ is.nSignal = 0 => is.withdrawableGRT = 0
                     /\ is.withdrawableGRT = 0 => is.nSignal = 0 \/ was.withdrawableGRT = 0
              /\ (is.nSignal > 0 /\ s # was.subgraphDeploymentID) =>
                     CurationPoolSignal(curationLedger', s) = is.vSignal
      ]_<<curationVars, pauses, gnsVars>>

\* Unless the protocol is paused a curator can burn all its name signal, if it is
\* worth any of the vSignal, and withdraw from a deprecated subgraph: no other
\* subgraph of the deployment has sold the signal, or taken the GRT, before.
NameCuratorsCanLeave ==
    NotPartialPaused =>
        \A id \in SubgraphIDs, c \in Namers :
            LET data  == Data(id)
                owned == data.curatorNSignal[c]
            IN  owned > 0 =>
                   /\ (IsPublished(id) /\ NSignalToVSignal(data, owned) > 0) =>
                          ENABLED BurnSignal(c, id, owned, 0)
                   /\ (data.disabled /\ data.withdrawableGRT > 0) =>
                          ENABLED WithdrawGRT(c, id)
=============================================================================
