-------------------------------- MODULE GNS --------------------------------
(***************************************************************************)
(* contracts/discovery/GNS.sol composed with the whole of Curation.tla:    *)
(* an account owns subgraphs, each of which points to a deployment, and    *)
(* curators hold name signal of a subgraph.  The contract holds the signal *)
(* of the deployment (vSignal) for them, moves it when the owner publishes *)
(* a new version, and turns it into GRT to be withdrawn when the owner     *)
(* deprecates the subgraph.                                                *)
(*                                                                         *)
(* The curve of name signal has the reserve ratio of 100% while a subgraph *)
(* is published: name signal is a share of the vSignal.  Metadata, default *)
(* names and the replacement of the NFT registry are left out.             *)
(***************************************************************************)
EXTENDS Curation

CONSTANTS
    GNSAddress,                 \* the contract's own address, one of the Curators
    NoOwner,                    \* address(0), for a token that does not exist
    NoDeployment,               \* deployment ID zero
    LegacyDeployments,          \* deployments of the subgraphs of version 1
    InitialOwnerTaxPercentage

\* The inputs tried for each kind of argument; each is a bound of the model.
CONSTANTS
    MaxSeqID,                   \* bound: the last sequence ID of an account
    Publishers,                 \* who publishes, or published, subgraphs
    DirectCurators,             \* who also signals on deployments directly
    NameDeposits,               \* _tokensIn of mintSignal
    NameSignals,                \* _nSignal of burnSignal
    MaxNameSignal,              \* bound: deposits never raise a subgraph's beyond it
    OwnerTaxChoices,            \* percentages the governor may set
    PauseChoices                \* switches the guardian may turn

\* Everyone but the contract itself.
Namers == Curators \ {GNSAddress}

\* The keccak hash of an account and a sequence number.
SubgraphIDs == Publishers \X (0 .. MaxSeqID)

AcceptsOwnerTax(percentage) == percentage <= MAX_PPM

ASSUME GNSAssumption ==
    /\ GNSAddress \in Curators /\ InitialCuratorGRT[GNSAddress] = 0
    /\ NoOwner \notin Curators
    /\ NoDeployment \notin Subgraphs
    /\ DOMAIN LegacyDeployments \subseteq SubgraphIDs
    /\ LegacyDeployments \in [DOMAIN LegacyDeployments -> Subgraphs]
    /\ \A id \in DOMAIN LegacyDeployments :
          \A n \in 0 .. id[2] : <<id[1], n>> \in DOMAIN LegacyDeployments
    /\ InitialOwnerTaxPercentage \in Nat /\ AcceptsOwnerTax(InitialOwnerTaxPercentage)
    /\ MaxSeqID \in Nat
    /\ Publishers \subseteq Namers
    /\ DirectCurators \subseteq Namers
    /\ NameDeposits \subseteq Nat
    /\ NameSignals \subseteq Nat
    /\ MaxNameSignal \in Nat
    /\ OwnerTaxChoices \subseteq Nat
    /\ PauseChoices \subseteq {"paused", "partialPaused"}

VARIABLES
    subgraphs,                  \* the record of each subgraph of version 2
    legacySubgraphData,         \* the record of each subgraph of version 1
    legacySubgraphKeys,         \* the IDs claimed for subgraphs of version 1
    nextAccountSeqID,           \* the next sequence ID of each account
    owners,                     \* the owner of each token of SubgraphNFT
    ownerTaxPercentage

recordVars == <<subgraphs, legacySubgraphData>>
gnsVars    == <<subgraphs, legacySubgraphData, legacySubgraphKeys, nextAccountSeqID,
                owners, ownerTaxPercentage>>

-----------------------------------------------------------------------------
(* State *)

SubgraphData == [subgraphDeploymentID : Subgraphs \cup {NoDeployment},
                 vSignal              : Nat,
                 nSignal              : Nat,
                 curatorNSignal       : [Namers -> Nat],
                 disabled             : BOOLEAN,
                 withdrawableGRT      : Nat]

NewSubgraph(s) == [subgraphDeploymentID |-> s,
                   vSignal              |-> 0,
                   nSignal              |-> 0,
                   curatorNSignal       |-> [c \in Namers |-> 0],
                   disabled             |-> FALSE,
                   withdrawableGRT      |-> 0]

\* Subgraphs of version 1 took the first sequence IDs of their accounts, and are
\* without an NFT until they are claimed.
GNSInit ==
    /\ CurationAlone
    /\ subgraphs = [id \in SubgraphIDs |-> NewSubgraph(NoDeployment)]
    /\ legacySubgraphData = [id \in DOMAIN LegacyDeployments |->
                                NewSubgraph(LegacyDeployments[id])]
    /\ legacySubgraphKeys = {}
    /\ nextAccountSeqID = [a \in Publishers |->
                              Cardinality({id \in DOMAIN LegacyDeployments : id[1] = a})]
    /\ owners = [id \in SubgraphIDs |-> NoOwner]
    /\ ownerTaxPercentage = InitialOwnerTaxPercentage

\* _getSubgraphData: a claimed subgraph of version 1 stays where it was.
Data(id) == IF id \in legacySubgraphKeys THEN legacySubgraphData[id] ELSE subgraphs[id]

SetData(id, data) ==
    IF id \in legacySubgraphKeys
    THEN legacySubgraphData' = [legacySubgraphData EXCEPT ![id] = data] /\ UNCHANGED subgraphs
    ELSE subgraphs' = [subgraphs EXCEPT ![id] = data] /\ UNCHANGED legacySubgraphData

IsPublished(id) == /\ Data(id).subgraphDeploymentID # NoDeployment
                   /\ ~Data(id).disabled

\* Faulty variant: one for one, as for the first deposit.
VSignalToNSignalAtPar(data, vSignal) == vSignal

VSignalToNSignal(data, vSignal) ==
    IF data.vSignal = 0 THEN vSignal
    ELSE (data.nSignal * vSignal) \div data.vSignal

\* Defined for a subgraph with name signal.
NSignalToVSignal(data, nSignal) == (data.vSignal * nSignal) \div data.nSignal

-----------------------------------------------------------------------------
(* Publishing *)

PublishNewSubgraph(owner, s) ==
    LET id == <<owner, nextAccountSeqID[owner]>>
    IN  /\ NotPaused
        /\ nextAccountSeqID[owner] <= MaxSeqID
        /\ owners[id] = NoOwner
        /\ nextAccountSeqID' = [nextAccountSeqID EXCEPT ![owner] = @ + 1]
        /\ owners' = [owners EXCEPT ![id] = owner]
        /\ SetData(id, [Data(id) EXCEPT !.subgraphDeploymentID = s])
        /\ UNCHANGED <<curationVars, legacySubgraphKeys, ownerTaxPercentage>>

\* What the owner's part of the curation tax raises the deposit to, rounded
\* down, so that after the tax the owner's part is still in it.  Without one of
\* the taxes the code returns zero.
WithOwnerTax(tokens) ==
    LET rate == curationParams["curationTaxPercentage"]
        tax  == Portion(rate, tokens)
        kept == tokens - tax + Portion(ownerTaxPercentage, tax)
    IN  IF rate = 0 \/ ownerTaxPercentage = 0 THEN 0
        ELSE (kept * MAX_PPM) \div (MAX_PPM - rate)

\* _chargeOwnerTax, which divides by zero when all of a deposit is tax.
CanChargeOwnerTax == curationParams["curationTaxPercentage"] < MAX_PPM

OwnerTaxCharged(c, owner, tokens) ==
    LET total == WithOwnerTax(tokens)
    IN  MoveGRT(c, owner, GNSAddress, IF total = 0 THEN 0 ELSE total - tokens)

\* All the signal is sold and the tokens buy signal of the new deployment.
MoveSignal(owner, id, s) ==
    LET data == Data(id)
        from == data.subgraphDeploymentID
    IN  /\ CanChargeOwnerTax
        /\ \E tokens \in TokensReturned(GNSAddress, from, data.vSignal) :
              LET sold    == Unsignalled(GNSAddress, from, data.vSignal, tokens)
                  charged == OwnerTaxCharged(sold, owner, tokens)
                  deposit == WithOwnerTax(tokens)
              IN  \E vSignal \in SignalsMinted(s, deposit) :
                      /\ CommitCuration(Signalled(charged, GNSAddress, s, deposit, vSignal))
                      /\ SetData(id, [data EXCEPT !.vSignal = vSignal,
                                                  !.subgraphDeploymentID = s])

\* A deployment that someone signalled on before cannot become a new version.
CanPointTo(data, s) == /\ s # data.subgraphDeploymentID
                       /\ ~IsCurated(s)

PublishNewVersion(owner, id, s) ==
    /\ NotPaused
    /\ owners[id] = owner
    /\ IsPublished(id)
    /\ CanPointTo(Data(id), s)
    /\ IF Data(id).nSignal > 0
       THEN MoveSignal(owner, id, s)
       ELSE /\ SetData(id, [Data(id) EXCEPT !.subgraphDeploymentID = s])
            /\ UNCHANGED curationVars
    /\ UNCHANGED <<legacySubgraphKeys, nextAccountSeqID, owners, ownerTaxPercentage>>

\* Faulty variant: the vSignal is sold and still on the books.
DeprecatedKeepingSignal(data, tokens) ==
    [data EXCEPT !.disabled = TRUE, !.withdrawableGRT = tokens]

\* The record keeps its deployment, and its name signal as claims to the tokens.
Deprecated(data, tokens) ==
    [data EXCEPT !.disabled = TRUE, !.vSignal = 0, !.withdrawableGRT = tokens]

DeprecateSubgraph(owner, id) ==
    LET data == Data(id)
        s    == data.subgraphDeploymentID
    IN  /\ NotPaused
        /\ owners[id] = owner
        /\ IsPublished(id)
        /\ \/ /\ data.nSignal > 0
              /\ \E tokens \in TokensReturned(GNSAddress, s, data.vSignal) :
                    /\ CommitCuration(Unsignalled(GNSAddress, s, data.vSignal, tokens))
                    /\ SetData(id, Deprecated(data, tokens))
           \/ /\ data.nSignal = 0
              /\ SetData(id, Deprecated(data, data.withdrawableGRT))
              /\ UNCHANGED curationVars
        /\ owners' = [owners EXCEPT ![id] = NoOwner]
        /\ UNCHANGED <<legacySubgraphKeys, nextAccountSeqID, ownerTaxPercentage>>

\* Anyone may claim a subgraph of version 1 for the account that created it.
MigrateLegacySubgraph(id) ==
    /\ id \notin legacySubgraphKeys
    /\ owners[id] = NoOwner
    /\ legacySubgraphKeys' = legacySubgraphKeys \cup {id}
    /\ owners' = [owners EXCEPT ![id] = id[1]]
    /\ UNCHANGED <<curationVars, recordVars, nextAccountSeqID, ownerTaxPercentage>>

\* The NFT is an ERC721 token, and not paused.
TransferSubgraph(from, to, id) ==
    /\ owners[id] = from
    /\ owners' = [owners EXCEPT ![id] = to]
    /\ UNCHANGED <<curationVars, recordVars, legacySubgraphKeys, nextAccountSeqID,
                   ownerTaxPercentage>>

-----------------------------------------------------------------------------
(* Curating on names *)

Entered(data, curator, vSignal, nSignal) ==
    [data EXCEPT !.vSignal = @ + vSignal,
                 !.nSignal = @ + nSignal,
                 !.curatorNSignal[curator] = @ + nSignal]

MintSignal(curator, id, tokensIn, nSignalOutMin) ==
    LET data   == Data(id)
        s      == data.subgraphDeploymentID
        pulled == MoveGRT(curationLedger, curator, GNSAddress, tokensIn)
    IN  /\ NotPartialPaused
        /\ IsPublished(id)
        /\ \E vSignal \in SignalsMinted(s, tokensIn) :
              LET nSignal == VSignalToNSignal(data, vSignal)
              IN  /\ nSignal >= nSignalOutMin
                  /\ data.nSignal + nSignal <= MaxNameSignal
                  /\ CommitCuration(Signalled(pulled, GNSAddress, s, tokensIn, vSignal))
                  /\ SetData(id, Entered(data, curator, vSignal, nSignal))
        /\ UNCHANGED <<legacySubgraphKeys, nextAccountSeqID, owners, ownerTaxPercentage>>

\* Faulty variants: the total of one kind of signal is forgotten.
LeftForgettingTotal(data, curator, vSignal, nSignal) ==
    [data EXCEPT !.vSignal = @ - vSignal,
                 !.curatorNSignal[curator] = @ - nSignal]

LeftKeepingSignal(data, curator, vSignal, nSignal) ==
    [data EXCEPT !.nSignal = @ - nSignal,
                 !.curatorNSignal[curator] = @ - nSignal]

Left(data, curator, vSignal, nSignal) ==
    [data EXCEPT !.vSignal = @ - vSignal,
                 !.nSignal = @ - nSignal,
                 !.curatorNSignal[curator] = @ - nSignal]

BurnSignal(curator, id, nSignal, tokensOutMin) ==
    LET data    == Data(id)
        s       == data.subgraphDeploymentID
        vSignal == NSignalToVSignal(data, nSignal)
    IN  /\ NotPartialPaused
        /\ IsPublished(id)
        /\ nSignal <= data.curatorNSignal[curator]
        /\ data.nSignal > 0
        /\ \E tokens \in TokensReturned(GNSAddress, s, vSignal) :
              /\ tokens >= tokensOutMin
              /\ CommitCuration(MoveGRT(Unsignalled(GNSAddress, s, vSignal, tokens),
                                        GNSAddress, curator, tokens))
              /\ SetData(id, Left(data, curator, vSignal, nSignal))
        /\ UNCHANGED <<legacySubgraphKeys, nextAccountSeqID, owners, ownerTaxPercentage>>

PaidOut(data, curator, tokensOut) ==
    [data EXCEPT !.curatorNSignal[curator] = 0,
                 !.nSignal = @ - data.curatorNSignal[curator],
                 !.withdrawableGRT = @ - tokensOut]

WithdrawGRT(curator, id) ==
    LET data      == Data(id)
        tokensOut == (data.curatorNSignal[curator] * data.withdrawableGRT) \div data.nSignal
    IN  /\ NotPartialPaused
        /\ data.disabled
        /\ data.withdrawableGRT > 0
        /\ data.curatorNSignal[curator] > 0
        /\ CommitCuration(MoveGRT(curationLedger, GNSAddress, curator, tokensOut))
        /\ SetData(id, PaidOut(data, curator, tokensOut))
        /\ UNCHANGED <<legacySubgraphKeys, nextAccountSeqID, owners, ownerTaxPercentage>>

SetOwnerTaxPercentage(percentage) ==
    /\ AcceptsOwnerTax(percentage)
    /\ ownerTaxPercentage' = percentage
    /\ UNCHANGED <<curationVars, recordVars, legacySubgraphKeys, nextAccountSeqID, owners>>

-----------------------------------------------------------------------------
(* Next-state relation *)

PublishSteps == \E owner \in Publishers, s \in Subgraphs : PublishNewSubgraph(owner, s)
OwnerSteps ==
    \E owner \in Namers :
        \/ \E id \in SubgraphIDs, s \in Subgraphs : PublishNewVersion(owner, id, s)
        \/ \E id \in SubgraphIDs : DeprecateSubgraph(owner, id)
        \/ \E to \in Namers \ {owner}, id \in SubgraphIDs : TransferSubgraph(owner, to, id)
MigrationSteps == \E id \in DOMAIN LegacyDeployments : MigrateLegacySubgraph(id)
NameSteps ==
    \E c \in Namers, id \in SubgraphIDs :
        \/ \E t \in NameDeposits, m \in SlippageBounds : MintSignal(c, id, t, m)
        \/ \E n \in NameSignals, m \in SlippageBounds : BurnSignal(c, id, n, m)
        \/ WithdrawGRT(c, id)
OwnerTaxSteps == \E p \in OwnerTaxChoices : SetOwnerTaxPercentage(p)

\* Others signal on the same deployments and may even send their signal here.
DirectSteps ==
    \E c \in DirectCurators, s \in Subgraphs :
        \/ \E t \in SignalDeposits, m \in SlippageBounds : Mint(c, s, t, m)
        \/ \E n \in SignalAmounts, m \in SlippageBounds : Burn(c, s, n, m)
        \/ \E n \in SignalAmounts : TransferSignal(c, GNSAddress, s, n)

PauseSteps ==
    /\ SwitchPause
    /\ paused' # paused => "paused" \in PauseChoices
    /\ partialPaused' # partialPaused => "partialPaused" \in PauseChoices

GNSNext ==
    \/ /\ UNCHANGED pauses
       /\ PublishSteps \/ OwnerSteps \/ MigrationSteps \/ NameSteps \/ OwnerTaxSteps
    \/ /\ UNCHANGED <<pauses, gnsVars>>
       /\ DirectSteps \/ FeeSteps \/ SettingSteps
    \/ PauseSteps /\ UNCHANGED <<curationVars, gnsVars>>

GNSSpec == GNSInit /\ [][GNSNext]_<<curationVars, pauses, gnsVars>>
=============================================================================
