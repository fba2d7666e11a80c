----------------------------- MODULE GNSProofs -----------------------------
(***************************************************************************)
(* What holds of the subgraphs of GNS.sol and the name signal of their     *)
(* curators for any accounts, deployments, versions, deposits and taxes.   *)
(*                                                                         *)
(* The contract is a curator of the pools like any other: each operation   *)
(* is a few of the sound steps of CurationProofs.tla and transfers of GRT  *)
(* among curators, so that the pools stay sound and on their curves        *)
(* (OnCurve).  For the subgraphs it replaces one record by another         *)
(* (RecordReplaced), and takes no more signal or GRT out of the contract   *)
(* than out of that record (Covered).                                      *)
(***************************************************************************)
EXTENDS GNSProperties, CurationProofs

-----------------------------------------------------------------------------
(* Shares *)

\* The part of v that m of n shares are worth: rounded down, it leaves those who
\* stay at least what was theirs, and takes all only with the last share.
LEMMA ShareLeft ==
    ASSUME NEW v \in Nat, NEW n \in Nat \ {0}, NEW m \in 0 .. n
    PROVE  LET q == (v * m) \div n
           IN  /\ q \in 0 .. v
               /\ (v - q) * n >= v * (n - m)
               /\ m = n => q = v
               /\ m < n /\ v > 0 => q < v
<1>. DEFINE q == (v * m) \div n
<1>1. q \in Nat /\ q * n <= v * m /\ v * m < q * n + n
  <2>1. v * m \in Nat
    BY ProductNat
  <2>. QED
    BY <2>1, DivBounds
<1>. HIDE DEF q
<1>2. v * m <= v * n /\ v * m \in Nat /\ v * n \in Nat
  BY ProductGrows, ProductNat
<1>3. q <= v
  <2>1. SUFFICES ASSUME v + 1 <= q PROVE FALSE
    BY <1>1
  <2>2. (v + 1) * n <= q * n
    BY <1>1, <2>1, ProductGrows
  <2>3. (v + 1) * n = v * n + n /\ q * n \in Nat
    BY <1>1, ProductNat
  <2>. QED
    BY <1>1, <1>2, <2>2, <2>3
<1>4. (v - q) * n >= v * (n - m)
  <2>1. (v - q) * n = v * n - q * n /\ v * (n - m) = v * n - v * m
    BY <1>1
  <2>2. q * n \in Nat
    BY <1>1, ProductNat
  <2>. QED
    BY <1>1, <1>2, <2>1, <2>2
<1>5. ASSUME m = n PROVE q = v
  <2>1. SUFFICES ASSUME q + 1 <= v PROVE FALSE
    BY <1>1, <1>3
  <2>2. (q + 1) * n <= v * n
    BY <1>1, <2>1, ProductGrows
  <2>3. (q + 1) * n = q * n + n /\ q * n \in Nat
    BY <1>1, ProductNat
  <2>. QED
    BY <1>1, <1>2, <1>5, <2>2, <2>3
<1>6. ASSUME m < n, v > 0 PROVE q < v
  <2>1. SUFFICES ASSUME q = v PROVE FALSE
    BY <1>1, <1>3
  <2>2. v * (m + 1) <= v * n
    BY <1>6, ProductGrows
  <2>3. v * (m + 1) = v * m + v
    OBVIOUS
  <2>. QED
    BY <1>1, <1>2, <1>6, <2>1, <2>2, <2>3
<1>. QED
  BY <1>1, <1>3, <1>4, <1>5, <1>6 DEF q

\* The shares that x more buys at the price of n shares for v, rounded down: the
\* shares that were there are worth no less.
LEMMA ShareBought ==
    ASSUME NEW v \in Nat \ {0}, NEW n \in Nat, NEW x \in Nat
    PROVE  LET q == (n * x) \div v
           IN  q \in Nat /\ (v + x) * n >= v * (n + q)
<1>. DEFINE q == (n * x) \div v
<1>1. q \in Nat /\ q * v <= n * x
  <2>1. n * x \in Nat
    BY ProductNat
  <2>. QED
    BY <2>1, DivBounds
<1>. HIDE DEF q
<1>2. (v + x) * n = v * n + n * x /\ v * (n + q) = v * n + q * v
  BY <1>1
<1>3. v * n \in Nat /\ n * x \in Nat /\ q * v \in Nat
  BY <1>1, ProductNat
<1>. QED
  BY <1>1, <1>2, <1>3 DEF q

-----------------------------------------------------------------------------
(* The contract as a curator *)

\* A draft that is sound, and nowhere below the curves.
OnCurve(d) == DraftSound(d) /\ \A r \in Subgraphs : KeepsCurve(d, r)

\* The ledger is, at the start of a transaction.
LEMMA NowOnCurve == DraftSound(curationLedger) => OnCurve(curationLedger)
BY UnchangedKeepsCurve DEF OnCurve, DraftSound

\* Transfers of GRT among curators are no matter of the pools.
LEMMA TransferOnCurve ==
    ASSUME NEW d, OnCurve(d), NEW from \in Curators, NEW to \in Curators, from # to,
           NEW n \in Int
    PROVE  LET c == MoveGRT(d, from, to, n)
           IN  /\ OnCurve(c)
               /\ c.pools = d.pools /\ c.signal = d.signal
               /\ \A h \in Curators : c.grt[h] = d.grt[h] + (IF h = to THEN n ELSE 0)
                                                           - (IF h = from THEN n ELSE 0)
<1>. DEFINE c == MoveGRT(d, from, to, n)
<1>1. DraftSound(d) /\ d \in CurationDraft
  BY DEF OnCurve, DraftSound
<1>2. PICK pools \in [Subgraphs -> CurationPool], grt \in [CurationHolders -> Int],
           signal \in [Subgraphs -> [Curators -> Nat]] :
              d = [pools |-> pools, signal |-> signal, grt |-> grt]
  BY <1>1, LedgerParts
<1>. DEFINE g == Transferred(grt, from, to, n)
<1>3. c = [pools |-> pools, signal |-> signal, grt |-> g]
  BY <1>2, MoveGRTIs
<1>4. /\ g \in [CurationHolders -> Int]
      /\ g[CurationAddress] = grt[CurationAddress]
      /\ \A h \in Curators : g[h] = grt[h] + (IF h = to THEN n ELSE 0)
                                            - (IF h = from THEN n ELSE 0)
  BY CurationAssumption DEF Transferred, CurationHolders
<1>. HIDE DEF c, g
<1>5. /\ c \in CurationDraft
      /\ c.pools = d.pools /\ c.signal = d.signal
      /\ c.grt[CurationAddress] = d.grt[CurationAddress]
      /\ \A h \in Curators : c.grt[h] = d.grt[h] + (IF h = to THEN n ELSE 0)
                                                  - (IF h = from THEN n ELSE 0)
  BY <1>2, <1>3, <1>4 DEF CurationDraft
<1>6. \A r \in Subgraphs : PoolSound(c, r) /\ KeepsCurve(c, r)
  BY <1>1, <1>5, CurveKept DEF OnCurve, DraftSound
<1>7. DraftSound(c)
  BY <1>1, <1>5, <1>6 DEF DraftSound
<1>. QED
  BY <1>5, <1>6, <1>7 DEF OnCurve, c

\* The signal a deposit gives is positive if it is the first.
LEMMA MintedSignal ==
    ASSUME DraftSound(curationLedger), curationParams \in CurationParams,
           NEW s \in Subgraphs, NEW tokensIn \in Nat,
           NEW signalOut \in SignalsMinted(s, tokensIn)
    PROVE  /\ signalOut \in Nat /\ tokensIn > 0
           /\ ~IsCurated(s) => signalOut > 0
<1>. DEFINE pool == curationLedger.pools[s]
            supply == CurationPoolSignal(curationLedger, s)
            deposit == tokensIn - CurationTax(tokensIn)
            minimum == curationParams["minimumCurationDeposit"]
            fresh == curationParams["defaultReserveRatio"]
<1>1. deposit \in Nat /\ minimum \in Nat \ {0} /\ fresh \in 1 .. MAX_PPM
  BY SettingsTyped
<1>2. signalOut \in TokensToSignal(s, deposit) /\ tokensIn > 0
  BY DEF SignalsMinted
<1>. HIDE DEF deposit, minimum, fresh
<1>3. CASE IsCurated(s)
  <2>1. /\ pool.tokens \in Nat \ {0} /\ supply \in Nat
        /\ pool.reserveRatio \in 1 .. MAX_PPM
    BY <1>3, PoolTyped
  <2>2. signalOut \in PurchaseReturns(supply, pool.tokens, pool.reserveRatio, deposit)
    BY <1>2, <1>3, <2>1 DEF TokensToSignal
  <2>. HIDE DEF pool, supply
  <2>3. signalOut \in Nat
    BY <1>1, <2>1, <2>2, PurchaseKeepsCurve
  <2>. QED
    BY <1>2, <1>3, <2>3
<1>4. CASE ~IsCurated(s)
  <2>1. pool.tokens = 0
    BY <1>4, PoolTyped
  <2>2. PICK x \in PurchaseReturns(SignalPerMinimumDeposit, minimum, fresh, deposit - minimum) :
           signalOut = SignalPerMinimumDeposit + x /\ deposit >= minimum
    BY <1>2, <2>1 DEF TokensToSignal, minimum, fresh
  <2>3. SignalPerMinimumDeposit \in Nat \ {0} /\ deposit - minimum \in Nat
    BY <1>1, <2>2, CurationAssumption
  <2>4. x \in Nat
    BY <1>1, <2>3, PurchaseKeepsCurve
  <2>. QED
    BY <1>2, <2>2, <2>3, <2>4
<1>. QED
  BY <1>3, <1>4

\* A curator buys signal, in a draft that left the pool alone.
LEMMA SignalBought ==
    ASSUME DraftSound(curationLedger), curationParams \in CurationParams,
           NEW d, OnCurve(d), NEW s \in Subgraphs,
           d.pools[s] = curationLedger.pools[s], d.signal[s] = curationLedger.signal[s],
           NEW curator \in Curators, NEW tokensIn \in Nat,
           NEW signalOut \in SignalsMinted(s, tokensIn)
    PROVE  LET c == Signalled(d, curator, s, tokensIn, signalOut)
           IN  /\ OnCurve(c)
               /\ ~IsCurated(s) => CurationPoolSignal(c, s) = signalOut
               /\ \A r \in Subgraphs, h \in Curators :
                     c.signal[r][h] = d.signal[r][h]
                                         + IF r = s /\ h = curator THEN signalOut ELSE 0
               /\ \A h \in Curators :
                     c.grt[h] = d.grt[h] + IF h = curator THEN -tokensIn ELSE 0
<1>. DEFINE c == Signalled(d, curator, s, tokensIn, signalOut)
<1>1. d \in CurationDraft /\ DraftSound(d) /\ \A r \in Subgraphs : KeepsCurve(d, r)
  BY DEF OnCurve, DraftSound
<1>2. SoundStep(d, c, s)
  BY <1>1, MintSound
<1>3. signalOut \in Nat
  BY MintedSignal
<1>4. /\ \A r \in Subgraphs \ {s} : c.signal[r] = d.signal[r]
      /\ CurationPoolSignal(c, s) = CurationPoolSignal(d, s) + signalOut
      /\ Accounted(d, c, s, curator, signalOut, -tokensIn)
  <2>1. d \in CurationDraft /\ signalOut \in Nat
    BY <1>1, <1>3
  <2>2. /\ \A r \in Subgraphs \ {s} : c.pools[r] = d.pools[r] /\ c.signal[r] = d.signal[r]
        /\ CurationPoolSignal(c, s) = CurationPoolSignal(d, s) + signalOut
        /\ Accounted(d, c, s, curator, signalOut, -tokensIn)
    BY <2>1, SignalledIs
  <2>. QED
    BY <2>2
<1>. HIDE DEF c
<1>5. OnCurve(c)
  BY <1>1, <1>2, SoundStepKeeps DEF OnCurve
<1>6. ~IsCurated(s) => CurationPoolSignal(d, s) = 0
  BY PoolTyped DEF CurationPoolSignal
<1>7. ASSUME NEW r \in Subgraphs, NEW h \in Curators
      PROVE  c.signal[r][h] = d.signal[r][h]
                                 + IF r = s /\ h = curator THEN signalOut ELSE 0
  <2>1. d.signal[r][h] \in Nat
    BY <1>1 DEF CurationDraft
  <2>. QED
    BY <1>4, <2>1 DEF Accounted
<1>. QED
  BY <1>3, <1>4, <1>5, <1>6, <1>7 DEF c, Accounted

\* A curator sells signal.
LEMMA SignalSold ==
    ASSUME DraftSound(curationLedger), NEW curator \in Curators, NEW s \in Subgraphs,
           NEW signalIn \in Nat, NEW tokensOut \in TokensReturned(curator, s, signalIn)
    PROVE  LET c == Unsignalled(curator, s, signalIn, tokensOut)
           IN  /\ OnCurve(c)
               /\ tokensOut \in Nat /\ signalIn > 0
               /\ signalIn <= curationLedger.signal[s][curator]
               /\ \A r \in Subgraphs \ {s} : /\ c.pools[r] = curationLedger.pools[r]
                                             /\ c.signal[r] = curationLedger.signal[r]
               /\ \A r \in Subgraphs, h \in Curators :
                     c.signal[r][h] = curationLedger.signal[r][h]
                                         + IF r = s /\ h = curator THEN -signalIn ELSE 0
               /\ \A h \in Curators :
                     c.grt[h] = curationLedger.grt[h] + IF h = curator THEN tokensOut ELSE 0
<1>. DEFINE c == Unsignalled(curator, s, signalIn, tokensOut)
            pool == curationLedger.pools[s]
            supply == CurationPoolSignal(curationLedger, s)
<1>1. /\ curationLedger \in CurationDraft
      /\ \A r \in Subgraphs : KeepsCurve(curationLedger, r)
  BY NowOnCurve DEF OnCurve, DraftSound
<1>2. SoundStep(curationLedger, c, s)
  BY BurnSound
<1>3. /\ signalIn > 0 /\ curationLedger.signal[s][curator] >= signalIn
      /\ tokensOut <= pool.tokens /\ pool.tokens > 0 /\ supply >= signalIn
      /\ tokensOut \in SaleReturns(supply, pool.tokens, pool.reserveRatio, signalIn)
  BY DEF TokensReturned, SignalToTokens
<1>4. tokensOut \in Nat
  <2>1. /\ pool.tokens \in Nat \ {0} /\ supply \in Nat \ {0}
        /\ pool.reserveRatio \in 1 .. MAX_PPM /\ signalIn \in 0 .. supply
    BY <1>3, PoolTyped DEF IsCurated
  <2>. HIDE DEF pool, supply
  <2>. QED
    BY <1>3, <2>1, SaleKeepsCurve
<1>5. /\ signalIn \in 0 .. curationLedger.signal[s][curator]
      /\ tokensOut \in 0 .. curationLedger.pools[s].tokens
  BY <1>1, <1>3, <1>4 DEF CurationDraft, CurationPool
<1>6. /\ \A r \in Subgraphs \ {s} : /\ c.pools[r] = curationLedger.pools[r]
                                    /\ c.signal[r] = curationLedger.signal[r]
      /\ Accounted(curationLedger, c, s, curator, -signalIn, tokensOut)
  <2>1. curationLedger \in CurationDraft
    BY <1>1
  <2>2. \A r \in Subgraphs \ {s} : /\ c.pools[r] = curationLedger.pools[r]
                                    /\ c.signal[r] = curationLedger.signal[r]
    BY <1>2 DEF SoundStep
  <2>3. Accounted(curationLedger, c, s, curator, -signalIn, tokensOut)
    BY <1>5, <2>1, UnsignalledIs
  <2>. QED
    BY <2>2, <2>3
<1>. HIDE DEF c
<1>7. OnCurve(c)
  BY <1>1, <1>2, SoundStepKeeps DEF OnCurve
<1>8. ASSUME NEW r \in Subgraphs, NEW h \in Curators
      PROVE  c.signal[r][h] = curationLedger.signal[r][h]
                                 + IF r = s /\ h = curator THEN -signalIn ELSE 0
  <2>1. curationLedger.signal[r][h] \in Nat
    BY <1>1 DEF CurationDraft
  <2>. QED
    BY <1>6, <2>1 DEF Accounted
<1>. QED
  BY <1>3, <1>4, <1>6, <1>7, <1>8 DEF c, Accounted

-----------------------------------------------------------------------------
(* The books of the subgraphs *)

\* What is true of a record: its name signal is that of its curators, and stands
\* for signal while it is published, for GRT from then on, and never for both.
RecordSound(data) ==
    /\ data \in SubgraphData
    /\ data.nSignal = SumFunction(data.curatorNSignal)
    /\ data.subgraphDeploymentID = NoDeployment => data = NewSubgraph(NoDeployment)
    /\ IF data.disabled
       THEN /\ data.vSignal = 0
            /\ data.nSignal = 0 => data.withdrawableGRT = 0
       ELSE /\ data.withdrawableGRT = 0
            /\ data.nSignal > 0 <=> data.vSignal > 0

Published(data) == data.subgraphDeploymentID # NoDeployment /\ ~data.disabled

\* The signal of the deployment s a record claims.
Claim(data, s) == IF data.subgraphDeploymentID = s THEN data.vSignal ELSE 0

GNSTyped ==
    /\ subgraphs \in [SubgraphIDs -> SubgraphData]
    /\ legacySubgraphData \in [DOMAIN LegacyDeployments -> SubgraphData]
    /\ legacySubgraphKeys \subseteq DOMAIN LegacyDeployments
    /\ nextAccountSeqID \in [Publishers -> Nat]
    /\ owners \in [SubgraphIDs -> Namers \cup {NoOwner}]
    /\ ownerTaxPercentage \in 0 .. MAX_PPM

RecordsSound ==
    \A id \in SubgraphIDs : /\ RecordSound(Data(id))
                            /\ Published(Data(id)) => owners[id] \in Namers

\* Nobody touches the record of a subgraph of version 1 before it is claimed.
LegacyUntouched ==
    \A id \in DOMAIN LegacyDeployments \ legacySubgraphKeys :
        legacySubgraphData[id] = NewSubgraph(LegacyDeployments[id])

\* The sequence IDs to come have not been used, by either version.
IDsUnused ==
    \A id \in SubgraphIDs :
        id[2] >= nextAccountSeqID[id[1]] =>
            /\ id \notin DOMAIN LegacyDeployments
            /\ Data(id).subgraphDeploymentID = NoDeployment

\* The inductive invariant.
GNSInvariant ==
    /\ CurationInvariant
    /\ GNSTyped
    /\ RecordsSound
    /\ LegacyUntouched
    /\ IDsUnused
    /\ SignalHeld

\* What a step to the record is, from the record was, owes the curators of a
\* subgraph (SharesKeepTheirWorth).
ShareKept(was, is) ==
    LET s == is.subgraphDeploymentID
    IN  /\ (is.nSignal > 0 /\ s = was.subgraphDeploymentID /\ ~is.disabled) =>
               is.vSignal * was.nSignal >= was.vSignal * is.nSignal
        /\ was.disabled =>
               /\ is.withdrawableGRT * was.nSignal >= was.withdrawableGRT * is.nSignal
               /\ is.nSignal = 0 => is.withdrawableGRT = 0
               /\ is.withdrawableGRT = 0 => is.nSignal = 0 \/ was.withdrawableGRT = 0
        /\ (is.nSignal > 0 /\ s # was.subgraphDeploymentID) =>
               CurationPoolSignal(curationLedger', s) = is.vSignal

\* What every step is shown to do.
StepSound ==
    /\ GNSInvariant'
    /\ \A id \in SubgraphIDs : ShareKept(Data(id), Data(id)')
    /\ \A r \in Subgraphs : KeepsCurve(curationLedger', r)

\* What an operation on a subgraph comes to: one record replaces another.
RecordReplaced(id, data) ==
    \A j \in SubgraphIDs : Data(j)' = IF j = id THEN data ELSE Data(j)

\* The contract gives away no more than the record does.
Covered(id, data) ==
    /\ \A s \in Subgraphs :
          curationLedger'.signal[s][GNSAddress] - Claim(data, s)
             >= curationLedger.signal[s][GNSAddress] - Claim(Data(id), s)
    /\ curationLedger'.grt[GNSAddress] - data.withdrawableGRT
          >= curationLedger.grt[GNSAddress] - Data(id).withdrawableGRT

\* There are finitely many subgraphs.
LEMMA SubgraphIDsFinite == IsFiniteSet(SubgraphIDs)
<1>1. IsFiniteSet(Publishers)
  <2>1. Publishers \in SUBSET Curators
    BY GNSAssumption DEF Namers
  <2>. QED
    BY <2>1, FS_Subset, FiniteCurationAssumption
<1>2. IsFiniteSet(0 .. MaxSeqID)
  <2>1. 0 \in Int /\ MaxSeqID \in Int
    BY GNSAssumption
  <2>. QED
    BY <2>1, FS_Interval
<1>. QED
  BY <1>1, <1>2, FS_Product DEF SubgraphIDs

\* The subgraphs of version 1 are among them.
LEMMA LegacyIDs == DOMAIN LegacyDeployments \subseteq SubgraphIDs
BY GNSAssumption

\* Records have the type of a record.
LEMMA DataTyped ==
    ASSUME GNSTyped, NEW id \in SubgraphIDs
    PROVE  Data(id) \in SubgraphData
BY DEF GNSTyped, Data

\* SetData replaces one record, and no unclaimed one of version 1.
LEMMA SetDataReplaces ==
    ASSUME GNSTyped, LegacyUntouched, NEW id \in SubgraphIDs, NEW data \in SubgraphData,
           SetData(id, data), legacySubgraphKeys' = legacySubgraphKeys
    PROVE  /\ RecordReplaced(id, data)
           /\ subgraphs' \in [SubgraphIDs -> SubgraphData]
           /\ legacySubgraphData' \in [DOMAIN LegacyDeployments -> SubgraphData]
           /\ LegacyUntouched'
<1>1. CASE id \in legacySubgraphKeys
  <2>1. /\ legacySubgraphData' = [legacySubgraphData EXCEPT ![id] = data]
        /\ subgraphs' = subgraphs
    BY <1>1 DEF SetData
  <2>2. id \in DOMAIN LegacyDeployments
    BY <1>1 DEF GNSTyped
  <2>3. /\ legacySubgraphData' \in [DOMAIN LegacyDeployments -> SubgraphData]
        /\ legacySubgraphData'[id] = data
        /\ \A j \in DOMAIN LegacyDeployments \ {id} : legacySubgraphData'[j] = legacySubgraphData[j]
    BY <2>1, <2>2 DEF GNSTyped
  <2>4. ASSUME NEW j \in SubgraphIDs PROVE Data(j)' = IF j = id THEN data ELSE Data(j)
    BY <1>1, <2>1, <2>3 DEF Data, GNSTyped
  <2>5. LegacyUntouched'
    BY <1>1, <2>3 DEF LegacyUntouched
  <2>. QED
    BY <2>1, <2>3, <2>4, <2>5 DEF RecordReplaced, GNSTyped
<1>2. CASE id \notin legacySubgraphKeys
  <2>1. /\ subgraphs' = [subgraphs EXCEPT ![id] = data]
        /\ legacySubgraphData' = legacySubgraphData
    BY <1>2 DEF SetData
  <2>3. /\ subgraphs' \in [SubgraphIDs -> SubgraphData]
        /\ subgraphs'[id] = data
        /\ \A j \in SubgraphIDs \ {id} : subgraphs'[j] = subgraphs[j]
    BY <2>1 DEF GNSTyped
  <2>4. ASSUME NEW j \in SubgraphIDs PROVE Data(j)' = IF j = id THEN data ELSE Data(j)
    BY <1>2, <2>1, <2>3 DEF Data
  <2>5. LegacyUntouched'
    BY <2>1 DEF LegacyUntouched
  <2>. QED
    BY <2>1, <2>3, <2>4, <2>5 DEF RecordReplaced, GNSTyped
<1>. QED
  BY <1>1, <1>2

\* Sums over the records move with the record that is replaced.
LEMMA SumOfRecords ==
    ASSUME NEW f, NEW g, NEW id \in SubgraphIDs, NEW a \in Int, NEW b \in Int,
           f \in [SubgraphIDs -> Int], g \in [SubgraphIDs -> Int],
           g[id] - f[id] <= b - a, \A j \in SubgraphIDs \ {id} : g[j] = f[j],
           SumFunction(f) <= a
    PROVE  SumFunction(g) <= b
<1>1. SumFunction(f) = SumFunctionOnSet(f, SubgraphIDs) /\ SumFunction(g) = SumFunctionOnSet(g, SubgraphIDs)
  BY DEF SumFunction
<1>2. \A j \in SubgraphIDs : f[j] \in Int /\ g[j] \in Int
  OBVIOUS
<1>3. SumFunctionOnSet(g, SubgraphIDs) = SumFunctionOnSet(f, SubgraphIDs) + (g[id] - f[id])
  BY <1>2, SumAfterUpdate, SubgraphIDsFinite
<1>4. SumFunctionOnSet(f, SubgraphIDs) \in Int
  BY <1>2, SumIsInt, SubgraphIDsFinite
<1>. QED
  BY <1>1, <1>2, <1>3, <1>4

\* The contract still holds what the records claim.
LEMMA HeldIfCovered ==
    ASSUME GNSInvariant, CurationInvariant', NEW id \in SubgraphIDs, NEW data \in SubgraphData,
           RecordReplaced(id, data), Covered(id, data)
    PROVE  SignalHeld'
<1>1. \A j \in SubgraphIDs : /\ Data(j) \in SubgraphData
                             /\ Data(j)' = IF j = id THEN data ELSE Data(j)
  BY DataTyped DEF GNSInvariant, RecordReplaced
<1>2. /\ \A s \in Subgraphs : /\ curationLedger.signal[s][GNSAddress] \in Int
                              /\ curationLedger'.signal[s][GNSAddress] \in Int
      /\ curationLedger.grt[GNSAddress] \in Int
      /\ curationLedger'.grt[GNSAddress] \in Int
  BY GNSAssumption DEF GNSInvariant, CurationInvariant, DraftSound, CurationDraft, CurationHolders
<1>3. ASSUME NEW s \in Subgraphs
      PROVE  SumFunction([j \in SubgraphIDs |->
                IF Data(j)'.subgraphDeploymentID = s THEN Data(j)'.vSignal ELSE 0])
                <= curationLedger'.signal[s][GNSAddress]
  <2>. DEFINE f == [j \in SubgraphIDs |-> Claim(Data(j), s)]
              g == [j \in SubgraphIDs |-> Claim(Data(j)', s)]
              a == curationLedger.signal[s][GNSAddress]
              b == curationLedger'.signal[s][GNSAddress]
  <2>1. SumFunction(f) <= a
    BY DEF GNSInvariant, SignalHeld, Claim
  <2>2. f \in [SubgraphIDs -> Int] /\ g \in [SubgraphIDs -> Int]
    BY <1>1 DEF Claim, SubgraphData
  <2>3. \A j \in SubgraphIDs \ {id} : g[j] = f[j]
    BY <1>1
  <2>4. g[id] - f[id] <= b - a
    <3>1. f[id] = Claim(Data(id), s) /\ g[id] = Claim(data, s)
      BY <1>1
    <3>2. b - Claim(data, s) >= a - Claim(Data(id), s)
      BY DEF Covered
    <3>3. f[id] \in Int /\ g[id] \in Int /\ a \in Int /\ b \in Int
      BY <1>2, <2>2
    <3>. HIDE DEF f, g, a, b
    <3>. QED
      BY <3>1, <3>2, <3>3
  <2>5. a \in Int /\ b \in Int
    BY <1>2
  <2>6. SumFunction(g) <= b
    <3>. HIDE DEF f, g, a, b
    <3>. QED
      BY <2>1, <2>2, <2>3, <2>4, <2>5, SumOfRecords
  <2>. QED
    BY <2>6 DEF Claim
<1>4. SumFunction([j \in SubgraphIDs |-> Data(j)'.withdrawableGRT])
         <= curationLedger'.grt[GNSAddress]
  <2>. DEFINE f == [j \in SubgraphIDs |-> Data(j).withdrawableGRT]
              g == [j \in SubgraphIDs |-> Data(j)'.withdrawableGRT]
              a == curationLedger.grt[GNSAddress]
              b == curationLedger'.grt[GNSAddress]
  <2>1. SumFunction(f) <= a
    BY DEF GNSInvariant, SignalHeld
  <2>2. f \in [SubgraphIDs -> Int] /\ g \in [SubgraphIDs -> Int]
    BY <1>1 DEF SubgraphData
  <2>3. \A j \in SubgraphIDs \ {id} : g[j] = f[j]
    BY <1>1
  <2>4. g[id] - f[id] <= b - a
    <3>1. f[id] = Data(id).withdrawableGRT /\ g[id] = data.withdrawableGRT
      BY <1>1
    <3>2. b - data.withdrawableGRT >= a - Data(id).withdrawableGRT
      BY DEF Covered
    <3>3. f[id] \in Int /\ g[id] \in Int /\ a \in Int /\ b \in Int
      BY <1>2, <2>2
    <3>. HIDE DEF f, g, a, b
    <3>. QED
      BY <3>1, <3>2, <3>3
  <2>5. a \in Int /\ b \in Int
    BY <1>2
  <2>6. SumFunction(g) <= b
    <3>. HIDE DEF f, g, a, b
    <3>. QED
      BY <2>1, <2>2, <2>3, <2>4, <2>5, SumOfRecords
  <2>. QED
    BY <2>6
<1>. QED
  BY <1>3, <1>4 DEF SignalHeld

\* A record that stays as it is keeps the shares in it.
LEMMA SameShares ==
    ASSUME NEW data, RecordSound(data)
    PROVE  ShareKept(data, data)
<1>1. /\ data.vSignal \in Nat /\ data.nSignal \in Nat /\ data.withdrawableGRT \in Nat
      /\ data.disabled /\ data.nSignal = 0 => data.withdrawableGRT = 0
  BY DEF RecordSound, SubgraphData
<1>2. /\ data.vSignal * data.nSignal \in Nat
      /\ data.withdrawableGRT * data.nSignal \in Nat
  BY <1>1, ProductNat
<1>. QED
  BY <1>1, <1>2 DEF ShareKept

\* A record replaced by a sound one that is covered is a sound step, whoever gets
\* to own it.
LEMMA ReplacedSound ==
    ASSUME GNSInvariant, CurationInvariant', \A r \in Subgraphs : KeepsCurve(curationLedger', r),
           NEW id \in SubgraphIDs, NEW data, RecordReplaced(id, data),
           RecordSound(data), Covered(id, data), ShareKept(Data(id), data),
           GNSTyped', LegacyUntouched',
           \A j \in SubgraphIDs \ {id} : owners'[j] = owners[j],
           Published(data) => owners'[id] \in Namers,
           \A a \in Publishers : nextAccountSeqID'[a] >= nextAccountSeqID[a],
           nextAccountSeqID'[id[1]] > id[2]
    PROVE  StepSound
<1>1. \A j \in SubgraphIDs : Data(j)' = IF j = id THEN data ELSE Data(j)
  BY DEF RecordReplaced
<1>2. \A j \in SubgraphIDs : RecordSound(Data(j)) /\ (Published(Data(j)) => owners[j] \in Namers)
  BY DEF GNSInvariant, RecordsSound
<1>3. RecordsSound'
  <2>1. ASSUME NEW j \in SubgraphIDs
        PROVE  /\ RecordSound(Data(j)')
               /\ Published(Data(j)') => owners'[j] \in Namers
    <3>1. CASE j = id
      <4>1. Data(j)' = data
        BY <1>1, <3>1
      <4>. QED
        BY <3>1, <4>1
    <3>2. CASE j # id
      <4>1. Data(j)' = Data(j) /\ owners'[j] = owners[j]
        BY <1>1, <3>2
      <4>. QED
        BY <1>2, <4>1
    <3>. QED
      BY <3>1, <3>2
  <2>2. (\A j \in SubgraphIDs : /\ RecordSound(Data(j))
                                /\ Published(Data(j)) => owners[j] \in Namers)'
    BY <2>1 DEF RecordSound, Published
  <2>. QED
    BY <2>2 DEF RecordsSound
<1>4. ASSUME NEW j \in SubgraphIDs PROVE ShareKept(Data(j), Data(j)')
  <2>1. CASE j = id
    BY <1>1, <2>1
  <2>2. CASE j # id
    <3>1. Data(j)' = Data(j)
      BY <1>1, <2>2
    <3>2. ShareKept(Data(j), Data(j))
      BY <1>2, SameShares
    <3>. QED
      BY <3>1, <3>2
  <2>. QED
    BY <2>1, <2>2
<1>5. SignalHeld'
  BY HeldIfCovered DEF RecordSound
<1>6. IDsUnused'
  <2>1. ASSUME NEW j \in SubgraphIDs, j[2] >= nextAccountSeqID'[j[1]]
        PROVE  /\ j \notin DOMAIN LegacyDeployments
               /\ Data(j)'.subgraphDeploymentID = NoDeployment
    <3>1. j[1] \in Publishers /\ j[2] \in Nat /\ id[2] \in Nat
      BY GNSAssumption DEF SubgraphIDs
    <3>2. nextAccountSeqID[j[1]] \in Nat /\ nextAccountSeqID'[j[1]] \in Nat
      BY <3>1 DEF GNSInvariant, GNSTyped
    <3>3. j # id /\ j[2] >= nextAccountSeqID[j[1]]
      BY <2>1, <3>1, <3>2
    <3>4. Data(j)' = Data(j)
      BY <1>1, <3>3
    <3>. QED
      BY <3>3, <3>4 DEF GNSInvariant, IDsUnused
  <2>. QED
    BY <2>1 DEF IDsUnused
<1>. QED
  BY <1>3, <1>4, <1>5, <1>6 DEF StepSound, GNSInvariant

\* The same of an operation that writes the record of a published subgraph, and
\* leaves its token with its owner or burns it.
LEMMA RecordStepSound ==
    ASSUME GNSInvariant, CurationInvariant', \A r \in Subgraphs : KeepsCurve(curationLedger', r),
           NEW id \in SubgraphIDs, NEW data, SetData(id, data),
           Data(id).subgraphDeploymentID # NoDeployment,
           RecordSound(data), Covered(id, data), ShareKept(Data(id), data),
           UNCHANGED <<legacySubgraphKeys, nextAccountSeqID, ownerTaxPercentage>>,
           owners' = owners \/ (owners' = [owners EXCEPT ![id] = NoOwner] /\ data.disabled),
           Published(data) => Published(Data(id))
    PROVE  StepSound
<1>1. GNSTyped /\ LegacyUntouched /\ RecordsSound /\ data \in SubgraphData
  BY DEF GNSInvariant, RecordSound
<1>2. /\ RecordReplaced(id, data)
      /\ subgraphs' \in [SubgraphIDs -> SubgraphData]
      /\ legacySubgraphData' \in [DOMAIN LegacyDeployments -> SubgraphData]
      /\ LegacyUntouched'
  BY <1>1, SetDataReplaces
<1>3. GNSTyped'
  BY <1>1, <1>2 DEF GNSTyped
<1>4. /\ \A j \in SubgraphIDs \ {id} : owners'[j] = owners[j]
      /\ Published(data) => owners'[id] \in Namers
  BY <1>1 DEF GNSTyped, RecordsSound, Published
<1>5. /\ \A a \in Publishers : nextAccountSeqID'[a] >= nextAccountSeqID[a]
      /\ nextAccountSeqID'[id[1]] > id[2]
  <2>1. \A a \in Publishers : nextAccountSeqID[a] \in Nat
    BY <1>1 DEF GNSTyped
  <2>2. id[1] \in Publishers /\ id[2] \in Nat
    BY GNSAssumption DEF SubgraphIDs
  <2>3. ~(id[2] >= nextAccountSeqID[id[1]])
    BY DEF GNSInvariant, IDsUnused
  <2>. QED
    BY <2>1, <2>2, <2>3
<1>. QED
  BY <1>2, <1>3, <1>4, <1>5, ReplacedSound

-----------------------------------------------------------------------------
(* The operations, on a record *)

\* The contract itself and the zero address name nothing.
LEMMA NamersFinite == /\ IsFiniteSet(Namers)
                      /\ Namers \subseteq Curators
                      /\ NoOwner \notin Namers /\ GNSAddress \notin Namers
<1>1. Namers \in SUBSET Curators /\ IsFiniteSet(Curators)
  BY FiniteCurationAssumption DEF Namers
<1>. QED
  BY <1>1, FS_Subset, GNSAssumption DEF Namers

\* The name signal of a record moves by as much as that of one curator.
LEMMA NameSignalMoves ==
    ASSUME NEW f \in [Namers -> Nat], NEW c \in Namers, NEW n \in Int, f[c] + n \in Nat
    PROVE  LET g == [f EXCEPT ![c] = @ + n]
           IN  /\ g \in [Namers -> Nat]
               /\ SumFunction(g) = SumFunction(f) + n
               /\ f[c] <= SumFunction(f)
               /\ SumFunction(f) \in Nat
<1>. DEFINE g == [f EXCEPT ![c] = @ + n]
<1>1. /\ g \in [Namers -> Nat] /\ g[c] = f[c] + n
      /\ \A x \in Namers \ {c} : g[x] = f[x]
  OBVIOUS
<1>. HIDE DEF g
<1>2. \A x \in Namers : f[x] \in Int /\ g[x] \in Int
  BY <1>1
<1>3. SumFunctionOnSet(g, Namers) = SumFunctionOnSet(f, Namers) + (g[c] - f[c])
  BY <1>1, <1>2, SumAfterUpdate, NamersFinite
<1>4. SumFunctionOnSet(f, Namers) \in Nat
  <2>1. \A x \in Namers : f[x] \in Nat
    OBVIOUS
  <2>. QED
    BY <2>1, SumIsNat, NamersFinite
<1>5. SumFunction(f) = SumFunctionOnSet(f, Namers) /\ SumFunction(g) = SumFunctionOnSet(g, Namers)
  BY <1>1 DEF SumFunction
<1>6. f[c] <= SumFunctionOnSet(f, Namers)
  <2>1. SumFunctionOnSet(f, Namers) = f[c] + SumFunctionOnSet(f, Namers \ {c})
    BY <1>2, SumTakesOut, NamersFinite
  <2>2. SumFunctionOnSet(f, Namers \ {c}) \in Nat
    <3>1. IsFiniteSet(Namers \ {c}) /\ \A x \in Namers \ {c} : f[x] \in Nat
      BY NamersFinite, FS_RemoveElement
    <3>. QED
      BY <3>1, SumIsNat
  <2>. QED
    BY <2>1, <2>2
<1>. QED
  BY <1>1, <1>3, <1>4, <1>5, <1>6 DEF g

\* A record, field by field.
RecordOf(deployment, vSignal, nSignal, owned, disabled, grt) ==
    [subgraphDeploymentID |-> deployment, vSignal |-> vSignal, nSignal |-> nSignal,
     curatorNSignal |-> owned, disabled |-> disabled, withdrawableGRT |-> grt]

\* Every record is one.
LEMMA RecordParts ==
    ASSUME NEW data \in SubgraphData
    PROVE  data = RecordOf(data.subgraphDeploymentID, data.vSignal, data.nSignal,
                           data.curatorNSignal, data.disabled, data.withdrawableGRT)
BY DEF RecordOf, SubgraphData

\* And every one is a record.
LEMMA RecordOfTyped ==
    ASSUME NEW d \in Subgraphs \cup {NoDeployment}, NEW v \in Nat, NEW n \in Nat,
           NEW owned \in [Namers -> Nat], NEW off \in BOOLEAN, NEW grt \in Nat
    PROVE  LET e == RecordOf(d, v, n, owned, off, grt)
           IN  /\ e \in SubgraphData
               /\ e.subgraphDeploymentID = d /\ e.vSignal = v /\ e.nSignal = n
               /\ e.curatorNSignal = owned /\ e.disabled = off /\ e.withdrawableGRT = grt
BY DEF RecordOf, SubgraphData

\* One field is set.
LEMMA DeploymentSet ==
    ASSUME NEW d, NEW v, NEW n, NEW owned, NEW off, NEW grt, NEW x
    PROVE  [RecordOf(d, v, n, owned, off, grt) EXCEPT !.subgraphDeploymentID = x]
              = RecordOf(x, v, n, owned, off, grt)
BY DEF RecordOf

LEMMA VSignalSet ==
    ASSUME NEW d, NEW v, NEW n, NEW owned, NEW off, NEW grt, NEW x
    PROVE  [RecordOf(d, v, n, owned, off, grt) EXCEPT !.vSignal = x]
              = RecordOf(d, x, n, owned, off, grt)
BY DEF RecordOf

LEMMA DisabledSet ==
    ASSUME NEW d, NEW v, NEW n, NEW owned, NEW off, NEW grt, NEW x
    PROVE  [RecordOf(d, v, n, owned, off, grt) EXCEPT !.disabled = x]
              = RecordOf(d, v, n, owned, x, grt)
BY DEF RecordOf

LEMMA WithdrawableSet ==
    ASSUME NEW d, NEW v, NEW n, NEW owned, NEW off, NEW grt, NEW x
    PROVE  [RecordOf(d, v, n, owned, off, grt) EXCEPT !.withdrawableGRT = x]
              = RecordOf(d, v, n, owned, off, x)
BY DEF RecordOf

\* What each operation writes.
LEMMA EnteredIs ==
    ASSUME NEW d, NEW v, NEW n, NEW owned, NEW off, NEW grt, NEW c, NEW x, NEW m
    PROVE  Entered(RecordOf(d, v, n, owned, off, grt), c, x, m)
              = RecordOf(d, v + x, n + m, [owned EXCEPT ![c] = @ + m], off, grt)
<1>. DEFINE r == RecordOf(d, v, n, owned, off, grt)
<1>1. r.vSignal = v /\ r.nSignal = n /\ r.curatorNSignal = owned
  BY DEF RecordOf
<1>2. Entered(r, c, x, m) = [r EXCEPT !.vSignal = v + x, !.nSignal = n + m,
                                      !.curatorNSignal = [owned EXCEPT ![c] = @ + m]]
  BY <1>1, Zenon DEF Entered
<1>. QED
  BY <1>2 DEF RecordOf

LEMMA LeftIs ==
    ASSUME NEW d, NEW v, NEW n, NEW owned, NEW off, NEW grt, NEW c, NEW x, NEW m
    PROVE  Left(RecordOf(d, v, n, owned, off, grt), c, x, m)
              = RecordOf(d, v - x, n - m, [owned EXCEPT ![c] = @ - m], off, grt)
<1>. DEFINE r == RecordOf(d, v, n, owned, off, grt)
<1>1. r.vSignal = v /\ r.nSignal = n /\ r.curatorNSignal = owned
  BY DEF RecordOf
<1>2. Left(r, c, x, m) = [r EXCEPT !.vSignal = v - x, !.nSignal = n - m,
                                   !.curatorNSignal = [owned EXCEPT ![c] = @ - m]]
  BY <1>1, Zenon DEF Left
<1>. QED
  BY <1>2 DEF RecordOf

Zeroed(owned, c) == [owned EXCEPT ![c] = 0]

LEMMA PaidOutIs ==
    ASSUME NEW d, NEW v, NEW n, NEW owned, NEW off, NEW grt, NEW c, NEW tokens
    PROVE  PaidOut(RecordOf(d, v, n, owned, off, grt), c, tokens)
              = RecordOf(d, v, n - owned[c], Zeroed(owned, c), off, grt - tokens)
<1>. DEFINE r == RecordOf(d, v, n, owned, off, grt)
<1>1. r.withdrawableGRT = grt /\ r.nSignal = n /\ r.curatorNSignal = owned
  BY DEF RecordOf
<1>2. PaidOut(r, c, tokens) = [r EXCEPT !.curatorNSignal = Zeroed(owned, c),
                                        !.nSignal = n - owned[c],
                                        !.withdrawableGRT = grt - tokens]
  BY <1>1, Zenon DEF PaidOut, Zeroed
<1>. QED
  BY <1>2 DEF RecordOf

\* A deployment is set with the signal there.
Repointed(data, x, s) == [data EXCEPT !.vSignal = x, !.subgraphDeploymentID = s]

LEMMA RepointedIs ==
    ASSUME NEW d, NEW v, NEW n, NEW owned, NEW off, NEW grt, NEW x, NEW s
    PROVE  Repointed(RecordOf(d, v, n, owned, off, grt), x, s)
              = RecordOf(s, x, n, owned, off, grt)
<1>. DEFINE r == RecordOf(d, v, n, owned, off, grt)
<1>1. Repointed(r, x, s) = [[r EXCEPT !.vSignal = x] EXCEPT !.subgraphDeploymentID = s]
  <2>. HIDE DEF r
  <2>. QED
    BY DEF Repointed
<1>2. [r EXCEPT !.vSignal = x] = RecordOf(d, x, n, owned, off, grt)
  BY VSignalSet
<1>3. [RecordOf(d, x, n, owned, off, grt) EXCEPT !.subgraphDeploymentID = s]
         = RecordOf(s, x, n, owned, off, grt)
  BY DeploymentSet
<1>. QED
  BY <1>1, <1>2, <1>3, Zenon

\* A record that is published stays so, with the name signal that is paid for.
LEMMA EnteredSound ==
    ASSUME NEW data, RecordSound(data), Published(data), NEW c \in Namers, NEW x \in Nat
    PROVE  LET n == VSignalToNSignal(data, x)
               e == Entered(data, c, x, n)
           IN  /\ RecordSound(e)
               /\ \A s \in Subgraphs : Claim(e, s) = Claim(data, s)
                        + IF s = data.subgraphDeploymentID THEN x ELSE 0
               /\ e.withdrawableGRT = data.withdrawableGRT
               /\ ShareKept(data, e)
<1>. DEFINE n == VSignalToNSignal(data, x)
            e == Entered(data, c, x, n)
<1>1. /\ data \in SubgraphData
      /\ data.vSignal \in Nat /\ data.nSignal \in Nat /\ data.withdrawableGRT = 0
      /\ data.curatorNSignal \in [Namers -> Nat]
      /\ data.nSignal = SumFunction(data.curatorNSignal)
      /\ data.nSignal > 0 <=> data.vSignal > 0
      /\ data.subgraphDeploymentID # NoDeployment /\ data.disabled = FALSE
  BY DEF RecordSound, SubgraphData, Published
<1>2. /\ n \in Nat
      /\ data.vSignal = 0 => n = x
      /\ (data.vSignal + x) * data.nSignal >= data.vSignal * (data.nSignal + n)
  <2>1. CASE data.vSignal = 0
    BY <1>1, <2>1 DEF VSignalToNSignal
  <2>2. CASE data.vSignal # 0
    <3>1. n = (data.nSignal * x) \div data.vSignal /\ data.vSignal \in Nat \ {0}
      BY <1>1, <2>2 DEF VSignalToNSignal
    <3>. HIDE DEF n
    <3>. QED
      BY <1>1, <2>2, <3>1, ShareBought
  <2>. QED
    BY <2>1, <2>2
<1>. HIDE DEF n
<1>. DEFINE g == [data.curatorNSignal EXCEPT ![c] = @ + n]
<1>3. /\ g \in [Namers -> Nat]
      /\ SumFunction(g) = data.nSignal + n
  <2>1. data.curatorNSignal[c] + n \in Nat /\ n \in Int
    BY <1>1, <1>2
  <2>. QED
    BY <1>1, <2>1, NameSignalMoves
<1>. HIDE DEF g
<1>4. /\ e \in SubgraphData
      /\ e.subgraphDeploymentID = data.subgraphDeploymentID
      /\ e.vSignal = data.vSignal + x
      /\ e.nSignal = data.nSignal + n
      /\ e.curatorNSignal = g
      /\ e.disabled = data.disabled
      /\ e.withdrawableGRT = data.withdrawableGRT
  <2>. DEFINE d == data.subgraphDeploymentID
              v == data.vSignal
              m == data.nSignal
              owned == data.curatorNSignal
              off == data.disabled
              grt == data.withdrawableGRT
  <2>1. /\ d \in Subgraphs \cup {NoDeployment} /\ v \in Nat /\ m \in Nat
        /\ off \in BOOLEAN /\ grt \in Nat
    BY <1>1 DEF SubgraphData
  <2>2. data = RecordOf(d, v, m, owned, off, grt)
    BY <1>1, RecordParts
  <2>3. e = Entered(data, c, x, n) /\ g = [owned EXCEPT ![c] = @ + n]
    BY DEF g
  <2>. HIDE DEF d, v, m, owned, off, grt, e
  <2>4. e = RecordOf(d, v + x, m + n, g, off, grt)
    <3>1. Entered(RecordOf(d, v, m, owned, off, grt), c, x, n)
             = RecordOf(d, v + x, m + n, [owned EXCEPT ![c] = @ + n], off, grt)
      BY EnteredIs
    <3>. QED
      BY <2>2, <2>3, <3>1
  <2>5. v + x \in Nat /\ m + n \in Nat
    BY <1>2, <2>1
  <2>6. /\ e \in SubgraphData
        /\ e.subgraphDeploymentID = d /\ e.vSignal = v + x /\ e.nSignal = m + n
        /\ e.curatorNSignal = g /\ e.disabled = off /\ e.withdrawableGRT = grt
    <3>. DEFINE v2 == v + x
                m2 == m + n
    <3>1. v2 \in Nat /\ m2 \in Nat
      BY <2>5
    <3>. HIDE DEF v2, m2
    <3>2. /\ RecordOf(d, v2, m2, g, off, grt) \in SubgraphData
          /\ RecordOf(d, v2, m2, g, off, grt).subgraphDeploymentID = d
          /\ RecordOf(d, v2, m2, g, off, grt).vSignal = v2
          /\ RecordOf(d, v2, m2, g, off, grt).nSignal = m2
          /\ RecordOf(d, v2, m2, g, off, grt).curatorNSignal = g
          /\ RecordOf(d, v2, m2, g, off, grt).disabled = off
          /\ RecordOf(d, v2, m2, g, off, grt).withdrawableGRT = grt
      BY <1>3, <2>1, <3>1, RecordOfTyped
    <3>. QED
      BY <2>4, <3>2 DEF v2, m2
  <2>. QED
    BY <2>6 DEF d, v, m, owned, off, grt
<1>. HIDE DEF e
<1>5. RecordSound(e)
  <2>1. e.nSignal > 0 <=> e.vSignal > 0
    BY <1>1, <1>2, <1>4
  <2>2. ~e.disabled /\ e.withdrawableGRT = 0 /\ e.subgraphDeploymentID # NoDeployment
    BY <1>1, <1>4
  <2>3. e.nSignal = SumFunction(e.curatorNSignal)
    BY <1>3, <1>4
  <2>. QED
    BY <1>4, <2>1, <2>2, <2>3 DEF RecordSound
<1>6. ShareKept(data, e)
  BY <1>1, <1>2, <1>4 DEF ShareKept
<1>7. \A s \in Subgraphs : Claim(e, s) = Claim(data, s)
                              + IF s = data.subgraphDeploymentID THEN x ELSE 0
  BY <1>1, <1>4 DEF Claim
<1>. QED
  BY <1>4, <1>5, <1>6, <1>7 DEF e, n

\* Whoever leaves takes no more than its part, and what it takes is off the books.
LEMMA LeftSound ==
    ASSUME NEW data, RecordSound(data), Published(data), data.nSignal > 0, NEW c \in Namers,
           NEW n \in Nat, n <= data.curatorNSignal[c]
    PROVE  LET x == NSignalToVSignal(data, n)
               e == Left(data, c, x, n)
           IN  /\ x \in Nat
               /\ RecordSound(e)
               /\ \A s \in Subgraphs : Claim(e, s) = Claim(data, s)
                        - IF s = data.subgraphDeploymentID THEN x ELSE 0
               /\ e.withdrawableGRT = data.withdrawableGRT
               /\ ShareKept(data, e)
<1>. DEFINE x == NSignalToVSignal(data, n)
            e == Left(data, c, x, n)
<1>1. /\ data \in SubgraphData
      /\ data.vSignal \in Nat /\ data.nSignal \in Nat \ {0} /\ data.withdrawableGRT = 0
      /\ data.curatorNSignal \in [Namers -> Nat]
      /\ data.nSignal = SumFunction(data.curatorNSignal)
      /\ data.vSignal > 0
      /\ data.subgraphDeploymentID # NoDeployment /\ data.disabled = FALSE
  BY DEF RecordSound, SubgraphData, Published
<1>. DEFINE g == [data.curatorNSignal EXCEPT ![c] = @ - n]
<1>2. /\ g \in [Namers -> Nat]
      /\ SumFunction(g) = data.nSignal - n
      /\ n <= data.nSignal
  <2>1. data.curatorNSignal[c] \in Nat
    BY <1>1
  <2>2. data.curatorNSignal[c] + (-n) \in Nat /\ -n \in Int
    BY <2>1
  <2>. DEFINE f == data.curatorNSignal
              h == [f EXCEPT ![c] = @ + (-n)]
  <2>3. f \in [Namers -> Nat] /\ f[c] + (-n) \in Nat
    BY <1>1, <2>2
  <2>4. g = h
    BY <1>1, <2>1
  <2>. HIDE DEF f, g
  <2>5. /\ h \in [Namers -> Nat]
        /\ SumFunction(h) = SumFunction(f) + (-n)
        /\ f[c] <= SumFunction(f)
        /\ SumFunction(f) \in Nat
    BY <2>2, <2>3, NameSignalMoves
  <2>. HIDE DEF h
  <2>. QED
    BY <1>1, <2>1, <2>4, <2>5 DEF f
<1>. HIDE DEF g
<1>3. /\ x \in 0 .. data.vSignal
      /\ (data.vSignal - x) * data.nSignal >= data.vSignal * (data.nSignal - n)
      /\ n = data.nSignal => x = data.vSignal
      /\ n < data.nSignal => x < data.vSignal
  <2>1. x = (data.vSignal * n) \div data.nSignal /\ n \in 0 .. data.nSignal
    BY <1>2 DEF NSignalToVSignal
  <2>. HIDE DEF x
  <2>. QED
    BY <1>1, <2>1, ShareLeft
<1>. HIDE DEF x
<1>4. /\ e \in SubgraphData
      /\ e.subgraphDeploymentID = data.subgraphDeploymentID
      /\ e.vSignal = data.vSignal - x
      /\ e.nSignal = data.nSignal - n
      /\ e.curatorNSignal = g
      /\ e.disabled = data.disabled
      /\ e.withdrawableGRT = data.withdrawableGRT
  <2>. DEFINE d == data.subgraphDeploymentID
              v == data.vSignal
              m == data.nSignal
              owned == data.curatorNSignal
              off == data.disabled
              grt == data.withdrawableGRT
  <2>1. /\ d \in Subgraphs \cup {NoDeployment} /\ v \in Nat /\ m \in Nat
        /\ off \in BOOLEAN /\ grt \in Nat
    BY <1>1 DEF SubgraphData
  <2>2. data = RecordOf(d, v, m, owned, off, grt)
    BY <1>1, RecordParts
  <2>3. e = Left(data, c, x, n) /\ g = [owned EXCEPT ![c] = @ - n]
    BY DEF g
  <2>. DEFINE v2 == v - x
              m2 == m - n
  <2>4. v2 \in Nat /\ m2 \in Nat
    BY <1>1, <1>2, <1>3
  <2>. HIDE DEF d, v, m, owned, off, grt, e
  <2>5. e = RecordOf(d, v2, m2, g, off, grt)
    <3>1. Left(RecordOf(d, v, m, owned, off, grt), c, x, n)
             = RecordOf(d, v - x, m - n, [owned EXCEPT ![c] = @ - n], off, grt)
      BY LeftIs
    <3>. QED
      BY <2>2, <2>3, <3>1
  <2>. HIDE DEF v2, m2
  <2>6. /\ RecordOf(d, v2, m2, g, off, grt) \in SubgraphData
        /\ RecordOf(d, v2, m2, g, off, grt).subgraphDeploymentID = d
        /\ RecordOf(d, v2, m2, g, off, grt).vSignal = v2
        /\ RecordOf(d, v2, m2, g, off, grt).nSignal = m2
        /\ RecordOf(d, v2, m2, g, off, grt).curatorNSignal = g
        /\ RecordOf(d, v2, m2, g, off, grt).disabled = off
        /\ RecordOf(d, v2, m2, g, off, grt).withdrawableGRT = grt
    <3>1. /\ d \in Subgraphs \cup {NoDeployment} /\ v2 \in Nat /\ m2 \in Nat
          /\ g \in [Namers -> Nat] /\ off \in BOOLEAN /\ grt \in Nat
      BY <1>2, <2>1, <2>4
    <3>. QED
      BY <3>1, RecordOfTyped
  <2>. QED
    BY <2>5, <2>6 DEF d, v, m, owned, off, grt, v2, m2
<1>. HIDE DEF e
<1>5. RecordSound(e)
  <2>1. e.nSignal > 0 <=> e.vSignal > 0
    BY <1>1, <1>2, <1>3, <1>4
  <2>2. ~e.disabled /\ e.withdrawableGRT = 0 /\ e.subgraphDeploymentID # NoDeployment
    BY <1>1, <1>4
  <2>3. e.nSignal = SumFunction(e.curatorNSignal)
    BY <1>2, <1>4
  <2>. QED
    BY <1>4, <2>1, <2>2, <2>3 DEF RecordSound
<1>6. ShareKept(data, e)
  BY <1>1, <1>3, <1>4 DEF ShareKept
<1>7. \A s \in Subgraphs : Claim(e, s) = Claim(data, s)
                              - IF s = data.subgraphDeploymentID THEN x ELSE 0
  BY <1>1, <1>3, <1>4 DEF Claim
<1>. QED
  BY <1>3, <1>4, <1>5, <1>6, <1>7 DEF e, x

\* A subgraph that is deprecated has GRT behind its name signal and no signal.
LEMMA DeprecatedSound ==
    ASSUME NEW data, RecordSound(data), Published(data), NEW tokens \in Nat,
           data.nSignal = 0 => tokens = 0
    PROVE  LET e == Deprecated(data, tokens)
           IN  /\ RecordSound(e)
               /\ e.disabled
               /\ \A s \in Subgraphs : Claim(e, s) = 0
               /\ e.withdrawableGRT = tokens
               /\ ShareKept(data, e)
<1>. DEFINE e == Deprecated(data, tokens)
<1>1. /\ data \in SubgraphData
      /\ data.subgraphDeploymentID \in Subgraphs \cup {NoDeployment}
      /\ data.vSignal \in Nat /\ data.nSignal \in Nat /\ data.withdrawableGRT \in Nat
      /\ data.curatorNSignal \in [Namers -> Nat]
      /\ data.nSignal = SumFunction(data.curatorNSignal)
      /\ data.subgraphDeploymentID # NoDeployment /\ data.disabled = FALSE
  BY DEF RecordSound, SubgraphData, Published
<1>. DEFINE yes == TRUE
<1>2. e = RecordOf(data.subgraphDeploymentID, 0, data.nSignal, data.curatorNSignal, yes, tokens)
  <2>. DEFINE d == data.subgraphDeploymentID
              v == data.vSignal
              m == data.nSignal
              owned == data.curatorNSignal
              off == data.disabled
              grt == data.withdrawableGRT
  <2>1. data = RecordOf(d, v, m, owned, off, grt)
    BY <1>1, RecordParts
  <2>2. e = [[[data EXCEPT !.disabled = yes] EXCEPT !.vSignal = 0]
                EXCEPT !.withdrawableGRT = tokens]
    BY Zenon DEF Deprecated
  <2>. HIDE DEF d, v, m, owned, off, grt, yes, e
  <2>3. [RecordOf(d, v, m, owned, off, grt) EXCEPT !.disabled = yes]
           = RecordOf(d, v, m, owned, yes, grt)
    BY DisabledSet
  <2>4. [RecordOf(d, v, m, owned, yes, grt) EXCEPT !.vSignal = 0]
           = RecordOf(d, 0, m, owned, yes, grt)
    BY VSignalSet
  <2>5. [RecordOf(d, 0, m, owned, yes, grt) EXCEPT !.withdrawableGRT = tokens]
           = RecordOf(d, 0, m, owned, yes, tokens)
    BY WithdrawableSet
  <2>6. e = RecordOf(d, 0, m, owned, yes, tokens)
    BY <2>1, <2>2, <2>3, <2>4, <2>5, Zenon
  <2>. QED
    BY <2>6, Zenon DEF d, m, owned
<1>. HIDE DEF e
<1>3. /\ e \in SubgraphData
      /\ e.subgraphDeploymentID = data.subgraphDeploymentID
      /\ e.vSignal = 0
      /\ e.nSignal = data.nSignal
      /\ e.curatorNSignal = data.curatorNSignal
      /\ e.disabled = TRUE
      /\ e.withdrawableGRT = tokens
  <2>1. TRUE \in BOOLEAN /\ 0 \in Nat
    OBVIOUS
  <2>. QED
    BY <1>1, <1>2, <2>1 DEF RecordOf, SubgraphData
<1>4. RecordSound(e)
  BY <1>1, <1>3 DEF RecordSound
<1>5. ShareKept(data, e)
  BY <1>1, <1>3 DEF ShareKept
<1>. QED
  BY <1>3, <1>4, <1>5 DEF e, Claim

\* A published subgraph that points elsewhere, with the signal it has there.
LEMMA RepointedSound ==
    ASSUME NEW data, RecordSound(data), Published(data), NEW s \in Subgraphs,
           s # data.subgraphDeploymentID, NEW x \in Nat, data.nSignal > 0 <=> x > 0,
           data.nSignal > 0 => CurationPoolSignal(curationLedger', s) = x
    PROVE  LET e == Repointed(data, x, s)
           IN  /\ RecordSound(e)
               /\ \A r \in Subgraphs : Claim(e, r) = IF r = s THEN x ELSE 0
               /\ e.withdrawableGRT = data.withdrawableGRT
               /\ ShareKept(data, e)
<1>. DEFINE e == Repointed(data, x, s)
<1>1. /\ data \in SubgraphData
      /\ data.vSignal \in Nat /\ data.nSignal \in Nat /\ data.withdrawableGRT = 0
      /\ data.curatorNSignal \in [Namers -> Nat]
      /\ data.nSignal = SumFunction(data.curatorNSignal)
      /\ data.disabled = FALSE
  BY DEF RecordSound, SubgraphData, Published
<1>2. /\ e \in SubgraphData
      /\ e.subgraphDeploymentID = s
      /\ e.vSignal = x
      /\ e.nSignal = data.nSignal
      /\ e.curatorNSignal = data.curatorNSignal
      /\ e.disabled = data.disabled
      /\ e.withdrawableGRT = data.withdrawableGRT
  <2>. DEFINE d == data.subgraphDeploymentID
              v == data.vSignal
              m == data.nSignal
              owned == data.curatorNSignal
              off == data.disabled
              grt == data.withdrawableGRT
  <2>1. /\ m \in Nat /\ owned \in [Namers -> Nat]
        /\ off \in BOOLEAN /\ grt \in Nat
    BY <1>1 DEF SubgraphData
  <2>2. data = RecordOf(d, v, m, owned, off, grt)
    BY <1>1, RecordParts
  <2>. HIDE DEF d, v, m, owned, off, grt
  <2>3. e = RecordOf(s, x, m, owned, off, grt)
    <3>1. Repointed(RecordOf(d, v, m, owned, off, grt), x, s)
             = RecordOf(s, x, m, owned, off, grt)
      BY RepointedIs
    <3>. QED
      BY <2>2, <3>1, Zenon
  <2>. HIDE DEF e
  <2>4. s \in Subgraphs \cup {NoDeployment}
    OBVIOUS
  <2>5. /\ RecordOf(s, x, m, owned, off, grt) \in SubgraphData
        /\ RecordOf(s, x, m, owned, off, grt).subgraphDeploymentID = s
        /\ RecordOf(s, x, m, owned, off, grt).vSignal = x
        /\ RecordOf(s, x, m, owned, off, grt).nSignal = m
        /\ RecordOf(s, x, m, owned, off, grt).curatorNSignal = owned
        /\ RecordOf(s, x, m, owned, off, grt).disabled = off
        /\ RecordOf(s, x, m, owned, off, grt).withdrawableGRT = grt
    BY <2>1, <2>4, RecordOfTyped
  <2>. QED
    BY <2>3, <2>5 DEF m, owned, off, grt
<1>. HIDE DEF e
<1>3. RecordSound(e)
  <2>1. s # NoDeployment
    BY GNSAssumption
  <2>. QED
    BY <1>1, <1>2, <2>1 DEF RecordSound
<1>4. ShareKept(data, e)
  BY <1>1, <1>2 DEF ShareKept
<1>. QED
  BY <1>2, <1>3, <1>4 DEF e, Claim

\* Whoever withdraws from a deprecated subgraph takes no more than its part of the
\* GRT, and all of it only as the last.
LEMMA PaidOutSound ==
    ASSUME NEW data, RecordSound(data), data.disabled, data.withdrawableGRT > 0,
           NEW c \in Namers, data.curatorNSignal[c] > 0
    PROVE  LET t == (data.curatorNSignal[c] * data.withdrawableGRT) \div data.nSignal
               e == PaidOut(data, c, t)
           IN  /\ t \in Nat
               /\ RecordSound(e)
               /\ e.disabled
               /\ \A s \in Subgraphs : Claim(e, s) = 0 /\ Claim(data, s) = 0
               /\ e.withdrawableGRT = data.withdrawableGRT - t
               /\ ShareKept(data, e)
<1>. DEFINE own == data.curatorNSignal[c]
            t == (own * data.withdrawableGRT) \div data.nSignal
            e == PaidOut(data, c, t)
            g == [data.curatorNSignal EXCEPT ![c] = 0]
<1>1. /\ data \in SubgraphData
      /\ data.vSignal = 0 /\ data.nSignal \in Nat /\ data.withdrawableGRT \in Nat
      /\ data.curatorNSignal \in [Namers -> Nat]
      /\ data.nSignal = SumFunction(data.curatorNSignal)
      /\ data.disabled
  BY DEF RecordSound, SubgraphData
<1>d. data.subgraphDeploymentID # NoDeployment
  <2>1. ~NewSubgraph(NoDeployment).disabled
    BY DEF NewSubgraph
  <2>. QED
    BY <1>1, <2>1 DEF RecordSound
<1>2. /\ own \in Nat \ {0}
      /\ g \in [Namers -> Nat]
      /\ SumFunction(g) = data.nSignal - own
      /\ own <= data.nSignal
  <2>1. own \in Nat \ {0}
    BY <1>1
  <2>. DEFINE f == data.curatorNSignal
              h == [f EXCEPT ![c] = @ + (-own)]
  <2>2. f[c] = own /\ f \in [Namers -> Nat]
    BY <1>1
  <2>3. g = h
    BY <2>1, <2>2
  <2>. HIDE DEF f, g, own
  <2>4. f[c] + (-own) \in Nat /\ -own \in Int
    BY <2>1, <2>2
  <2>5. /\ h \in [Namers -> Nat]
        /\ SumFunction(h) = SumFunction(f) + (-own)
        /\ f[c] <= SumFunction(f)
        /\ SumFunction(f) \in Nat
    BY <2>2, <2>4, NameSignalMoves
  <2>. HIDE DEF h
  <2>. QED
    BY <1>1, <2>1, <2>2, <2>3, <2>5 DEF f
<1>. HIDE DEF g
<1>3. /\ t \in 0 .. data.withdrawableGRT
      /\ (data.withdrawableGRT - t) * data.nSignal >= data.withdrawableGRT * (data.nSignal - own)
      /\ own = data.nSignal => t = data.withdrawableGRT
      /\ own < data.nSignal => t < data.withdrawableGRT
  <2>. HIDE DEF own
  <2>1. own * data.withdrawableGRT = data.withdrawableGRT * own
    BY <1>1, <1>2
  <2>2. t = (data.withdrawableGRT * own) \div data.nSignal
    BY <2>1
  <2>3. /\ data.withdrawableGRT \in Nat /\ data.nSignal \in Nat \ {0}
        /\ own \in 0 .. data.nSignal
    BY <1>1, <1>2
  <2>. HIDE DEF t
  <2>. QED
    BY <2>2, <2>3, ShareLeft
<1>. HIDE DEF t
<1>4. /\ e \in SubgraphData
      /\ e.subgraphDeploymentID = data.subgraphDeploymentID
      /\ e.vSignal = data.vSignal
      /\ e.nSignal = data.nSignal - own
      /\ e.curatorNSignal = g
      /\ e.disabled = data.disabled
      /\ e.withdrawableGRT = data.withdrawableGRT - t
  <2>. DEFINE d == data.subgraphDeploymentID
              v == data.vSignal
              m == data.nSignal
              owned == data.curatorNSignal
              off == data.disabled
              grt == data.withdrawableGRT
  <2>1. /\ d \in Subgraphs \cup {NoDeployment} /\ v \in Nat /\ m \in Nat
        /\ off \in BOOLEAN /\ grt \in Nat
    BY <1>1 DEF SubgraphData
  <2>2. data = RecordOf(d, v, m, owned, off, grt)
    BY <1>1, RecordParts
  <2>3. e = PaidOut(data, c, t) /\ g = Zeroed(owned, c) /\ own = owned[c]
    BY DEF g, Zeroed
  <2>. DEFINE m2 == m - own
              grt2 == grt - t
  <2>4. m2 \in Nat /\ grt2 \in Nat
    <3>. HIDE DEF own
    <3>. QED
      BY <1>1, <1>2, <1>3
  <2>. HIDE DEF d, v, m, owned, off, grt, e, own
  <2>5. e = RecordOf(d, v, m2, g, off, grt2)
    <3>1. PaidOut(RecordOf(d, v, m, owned, off, grt), c, t)
             = RecordOf(d, v, m - owned[c], Zeroed(owned, c), off, grt - t)
      BY PaidOutIs
    <3>. QED
      BY <2>2, <2>3, <3>1
  <2>. HIDE DEF m2, grt2
  <2>6. /\ RecordOf(d, v, m2, g, off, grt2) \in SubgraphData
        /\ RecordOf(d, v, m2, g, off, grt2).subgraphDeploymentID = d
        /\ RecordOf(d, v, m2, g, off, grt2).vSignal = v
        /\ RecordOf(d, v, m2, g, off, grt2).nSignal = m2
        /\ RecordOf(d, v, m2, g, off, grt2).curatorNSignal = g
        /\ RecordOf(d, v, m2, g, off, grt2).disabled = off
        /\ RecordOf(d, v, m2, g, off, grt2).withdrawableGRT = grt2
    <3>1. /\ d \in Subgraphs \cup {NoDeployment} /\ v \in Nat /\ m2 \in Nat
          /\ g \in [Namers -> Nat] /\ off \in BOOLEAN /\ grt2 \in Nat
      BY <1>2, <2>1, <2>4
    <3>. QED
      BY <3>1 DEF RecordOf, SubgraphData
  <2>. QED
    BY <2>5, <2>6 DEF d, v, m, owned, off, grt, m2, grt2
<1>. HIDE DEF e, own
<1>5. RecordSound(e)
  <2>1. e.nSignal = 0 => e.withdrawableGRT = 0
    BY <1>1, <1>2, <1>3, <1>4
  <2>2. e.disabled /\ e.vSignal = 0 /\ e.subgraphDeploymentID # NoDeployment
    BY <1>1, <1>d, <1>4
  <2>3. e.nSignal = SumFunction(e.curatorNSignal)
    BY <1>2, <1>4
  <2>. QED
    BY <1>4, <2>1, <2>2, <2>3 DEF RecordSound
<1>6. ShareKept(data, e)
  <2>1. /\ e.nSignal = 0 => e.withdrawableGRT = 0
        /\ e.withdrawableGRT = 0 => e.nSignal = 0
    BY <1>1, <1>2, <1>3, <1>4
  <2>. QED
    BY <1>1, <1>3, <1>4, <2>1 DEF ShareKept
<1>7. \A s \in Subgraphs : Claim(e, s) = 0 /\ Claim(data, s) = 0
  BY <1>1, <1>4 DEF Claim
<1>8. t \in Nat /\ e.disabled /\ e.withdrawableGRT = data.withdrawableGRT - t
  BY <1>1, <1>3, <1>4
<1>. QED
  BY <1>5, <1>6, <1>7, <1>8 DEF e, t, own

-----------------------------------------------------------------------------
(* The steps *)

\* What the invariant says of the pools, and of the accounts of the contract there.
LEMMA PoolsSound ==
    ASSUME GNSInvariant
    PROVE  /\ CurationInvariant
           /\ DraftSound(curationLedger) /\ OnCurve(curationLedger)
           /\ curationParams \in CurationParams
           /\ GNSAddress \in Curators
           /\ \A s \in Subgraphs, h \in Curators : curationLedger.signal[s][h] \in Nat
           /\ \A h \in Curators : curationLedger.grt[h] \in Int
<1>1. /\ CurationInvariant
      /\ DraftSound(curationLedger)
      /\ curationParams \in CurationParams
  BY DEF GNSInvariant, CurationInvariant
<1>2. curationLedger \in CurationDraft
  BY <1>1 DEF DraftSound
<1>3. /\ \A s \in Subgraphs, h \in Curators : curationLedger.signal[s][h] \in Nat
      /\ \A h \in Curators : curationLedger.grt[h] \in Int
  BY <1>2 DEF CurationDraft, CurationHolders
<1>. QED
  BY <1>1, <1>3, NowOnCurve, GNSAssumption

\* And of the record of a subgraph.
LEMMA RecordIsSound ==
    ASSUME GNSInvariant, NEW id \in SubgraphIDs
    PROVE  /\ RecordSound(Data(id)) /\ Data(id) \in SubgraphData
           /\ Published(Data(id)) => owners[id] \in Namers
           /\ \A s : Claim(Data(id), s) \in Nat
           /\ Data(id).subgraphDeploymentID # NoDeployment =>
                 Data(id).subgraphDeploymentID \in Subgraphs
<1>1. /\ RecordSound(Data(id)) /\ (Published(Data(id)) => owners[id] \in Namers)
  BY DEF GNSInvariant, RecordsSound
<1>2. Data(id) \in SubgraphData
  BY <1>1 DEF RecordSound
<1>. QED
  BY <1>1, <1>2 DEF Claim, SubgraphData

\* The commit of a ledger that is on its curves.
LEMMA CommitOnCurve ==
    ASSUME CurationInvariant, NEW c, OnCurve(c), CommitCuration(c)
    PROVE  /\ curationLedger' = c
           /\ CurationInvariant'
           /\ \A r \in Subgraphs : KeepsCurve(curationLedger', r)
<1>1. curationLedger' = c
  BY DEF CommitCuration
<1>2. DraftSound(c) /\ \A r \in Subgraphs : KeepsCurve(c, r)
  BY DEF OnCurve
<1>. QED
  BY <1>1, <1>2, CommitKeeps

\* Steps that leave the pools alone.
LEMMA PoolsUntouched ==
    ASSUME GNSInvariant, UNCHANGED curationVars
    PROVE  /\ curationLedger' = curationLedger
           /\ CurationInvariant'
           /\ \A r \in Subgraphs : KeepsCurve(curationLedger', r)
<1>1. curationLedger' = curationLedger /\ curationParams' = curationParams
  BY DEF curationVars
<1>2. CurationInvariant /\ \A r \in Subgraphs : KeepsCurve(curationLedger, r)
  BY PoolsSound DEF OnCurve
<1>. QED
  BY <1>1, <1>2 DEF CurationInvariant

\* A subgraph without signal claims nothing.
LEMMA NewSubgraphSound ==
    ASSUME NEW s \in Subgraphs \cup {NoDeployment}
    PROVE  LET data == NewSubgraph(s)
           IN  /\ RecordSound(data)
               /\ data.subgraphDeploymentID = s
               /\ data.nSignal = 0 /\ data.withdrawableGRT = 0
               /\ \A r : Claim(data, r) = 0
               /\ \A was \in SubgraphData : ShareKept(was, data)
<1>. DEFINE data == NewSubgraph(s)
            f == [c \in Namers |-> 0]
<1>1. /\ data \in SubgraphData
      /\ data.subgraphDeploymentID = s /\ data.vSignal = 0 /\ data.nSignal = 0
      /\ data.curatorNSignal = f /\ data.disabled = FALSE /\ data.withdrawableGRT = 0
  BY DEF NewSubgraph, SubgraphData
<1>2. SumFunction(f) = 0
  <2>1. /\ \A c \in Namers : f[c] = 0
        /\ DOMAIN f = Namers
    OBVIOUS
  <2>. HIDE DEF f
  <2>2. SumFunctionOnSet(f, Namers) = 0
    BY <2>1, SumOfZeros, NamersFinite
  <2>. QED
    BY <2>1, <2>2, Zenon DEF SumFunction
<1>3. s = NoDeployment => data = NewSubgraph(NoDeployment)
  OBVIOUS
<1>. HIDE DEF data, f
<1>4. RecordSound(data)
  BY <1>1, <1>2, <1>3 DEF RecordSound
<1>5. ASSUME NEW was \in SubgraphData PROVE ShareKept(was, data)
  <2>1. was.nSignal \in Nat /\ was.withdrawableGRT \in Nat
    BY DEF SubgraphData
  <2>. QED
    BY <1>1, <2>1 DEF ShareKept
<1>6. \A r : Claim(data, r) = 0
  BY <1>1 DEF Claim
<1>. QED
  BY <1>1, <1>4, <1>5, <1>6 DEF data

LEMMA PublishNewSubgraphSound ==
    ASSUME GNSInvariant, NEW owner \in Publishers, NEW s \in Subgraphs,
           PublishNewSubgraph(owner, s)
    PROVE  StepSound
<1>. DEFINE id == <<owner, nextAccountSeqID[owner]>>
            data == NewSubgraph(s)
<1>1. /\ nextAccountSeqID \in [Publishers -> Nat]
      /\ nextAccountSeqID[owner] <= MaxSeqID
      /\ nextAccountSeqID' = [nextAccountSeqID EXCEPT ![owner] = @ + 1]
      /\ owners' = [owners EXCEPT ![id] = owner]
      /\ SetData(id, [Data(id) EXCEPT !.subgraphDeploymentID = s])
      /\ UNCHANGED curationVars
      /\ legacySubgraphKeys' = legacySubgraphKeys
      /\ ownerTaxPercentage' = ownerTaxPercentage
  BY DEF PublishNewSubgraph, GNSInvariant, GNSTyped
<1>2. id \in SubgraphIDs /\ id[1] = owner /\ id[2] = nextAccountSeqID[owner]
  BY <1>1, GNSAssumption DEF SubgraphIDs
<1>3. Data(id).subgraphDeploymentID = NoDeployment
  BY <1>1, <1>2 DEF GNSInvariant, IDsUnused
<1>4. Data(id) = NewSubgraph(NoDeployment)
  BY <1>2, <1>3, RecordIsSound DEF RecordSound
<1>5. [Data(id) EXCEPT !.subgraphDeploymentID = s] = data
  <2>. DEFINE none == [c \in Namers |-> 0]
              no == FALSE
  <2>1. /\ NewSubgraph(NoDeployment) = RecordOf(NoDeployment, 0, 0, none, no, 0)
        /\ data = RecordOf(s, 0, 0, none, no, 0)
    BY Zenon DEF NewSubgraph, RecordOf
  <2>. HIDE DEF none, no, data, id
  <2>2. [RecordOf(NoDeployment, 0, 0, none, no, 0) EXCEPT !.subgraphDeploymentID = s]
           = RecordOf(s, 0, 0, none, no, 0)
    BY DeploymentSet
  <2>. QED
    BY <1>4, <2>1, <2>2, Zenon
<1>6. /\ RecordSound(data)
      /\ data.withdrawableGRT = 0
      /\ \A r : Claim(data, r) = 0
      /\ ShareKept(Data(id), data)
      /\ data \in SubgraphData
  <2>. HIDE DEF data, id
  <2>1. Data(id) \in SubgraphData
    BY <1>2, RecordIsSound
  <2>. QED
    BY <2>1, NewSubgraphSound DEF data, RecordSound
<1>7. /\ Data(id).withdrawableGRT = 0
      /\ \A r : Claim(Data(id), r) = 0
  BY <1>4, NewSubgraphSound
<1>. HIDE DEF data
<1>8. SetData(id, data)
  BY <1>1, <1>5
<1>9. GNSTyped /\ LegacyUntouched
  BY DEF GNSInvariant
<1>10. /\ RecordReplaced(id, data)
       /\ subgraphs' \in [SubgraphIDs -> SubgraphData]
       /\ legacySubgraphData' \in [DOMAIN LegacyDeployments -> SubgraphData]
       /\ LegacyUntouched'
  <2>. HIDE DEF id
  <2>. QED
    BY <1>1, <1>2, <1>6, <1>8, <1>9, SetDataReplaces
<1>11. /\ \A j \in SubgraphIDs \ {id} : owners'[j] = owners[j]
       /\ owners'[id] \in Namers
       /\ owners' \in [SubgraphIDs -> Namers \cup {NoOwner}]
  <2>1. owner \in Namers
    BY GNSAssumption
  <2>. HIDE DEF id
  <2>. QED
    BY <1>1, <1>2, <1>9, <2>1 DEF GNSTyped
<1>12. /\ \A a \in Publishers : nextAccountSeqID'[a] >= nextAccountSeqID[a]
       /\ nextAccountSeqID'[id[1]] > id[2]
       /\ nextAccountSeqID' \in [Publishers -> Nat]
  BY <1>1, <1>2
<1>13. GNSTyped'
  BY <1>1, <1>9, <1>10, <1>11, <1>12 DEF GNSTyped
<1>14. /\ curationLedger' = curationLedger
       /\ CurationInvariant'
       /\ \A r \in Subgraphs : KeepsCurve(curationLedger', r)
  BY <1>1, PoolsUntouched
<1>15. Covered(id, data)
  <2>1. /\ \A r \in Subgraphs : curationLedger.signal[r][GNSAddress] \in Int
        /\ curationLedger.grt[GNSAddress] \in Int
    BY PoolsSound
  <2>. HIDE DEF id
  <2>. QED
    BY <1>6, <1>7, <1>14, <2>1 DEF Covered
<1>. HIDE DEF id
<1>. QED
  BY <1>2, <1>6, <1>10, <1>11, <1>12, <1>13, <1>14, <1>15, ReplacedSound

LEMMA MigrateLegacySubgraphSound ==
    ASSUME GNSInvariant, NEW id \in DOMAIN LegacyDeployments, MigrateLegacySubgraph(id)
    PROVE  StepSound
<1>. DEFINE data == NewSubgraph(LegacyDeployments[id])
<1>1. /\ id \notin legacySubgraphKeys
      /\ legacySubgraphKeys' = legacySubgraphKeys \cup {id}
      /\ owners' = [owners EXCEPT ![id] = id[1]]
      /\ UNCHANGED curationVars
      /\ subgraphs' = subgraphs /\ legacySubgraphData' = legacySubgraphData
      /\ nextAccountSeqID' = nextAccountSeqID
      /\ ownerTaxPercentage' = ownerTaxPercentage
  BY DEF MigrateLegacySubgraph, recordVars
<1>2. /\ id \in SubgraphIDs
      /\ id[1] \in Publishers /\ id[1] \in Namers /\ id[2] \in Nat
      /\ LegacyDeployments[id] \in Subgraphs
  BY LegacyIDs, GNSAssumption DEF SubgraphIDs
<1>3. GNSTyped /\ LegacyUntouched
  BY DEF GNSInvariant
<1>4. legacySubgraphData[id] = data
  BY <1>1, <1>3 DEF LegacyUntouched
<1>5. /\ RecordSound(data)
      /\ data.withdrawableGRT = 0
      /\ \A r : Claim(data, r) = 0
      /\ ShareKept(Data(id), data)
  <2>. HIDE DEF data
  <2>1. Data(id) \in SubgraphData
    BY <1>2, RecordIsSound
  <2>2. LegacyDeployments[id] \in Subgraphs \cup {NoDeployment}
    BY <1>2
  <2>. QED
    BY <2>1, <2>2, NewSubgraphSound DEF data
<1>. HIDE DEF data
<1>6. RecordReplaced(id, data)
  BY <1>1, <1>4 DEF RecordReplaced, Data
<1>7. LegacyUntouched'
  BY <1>1, <1>3 DEF LegacyUntouched
<1>8. /\ \A j \in SubgraphIDs \ {id} : owners'[j] = owners[j]
      /\ owners'[id] \in Namers
      /\ owners' \in [SubgraphIDs -> Namers \cup {NoOwner}]
  BY <1>1, <1>2, <1>3 DEF GNSTyped
<1>9. GNSTyped'
  BY <1>1, <1>3, <1>8 DEF GNSTyped
<1>10. /\ \A a \in Publishers : nextAccountSeqID'[a] >= nextAccountSeqID[a]
       /\ nextAccountSeqID'[id[1]] > id[2]
  <2>1. \A a \in Publishers : nextAccountSeqID[a] \in Nat
    BY <1>3 DEF GNSTyped
  <2>2. ~(id[2] >= nextAccountSeqID[id[1]])
    BY <1>2 DEF GNSInvariant, IDsUnused
  <2>. QED
    BY <1>1, <1>2, <2>1, <2>2
<1>11. /\ curationLedger' = curationLedger
       /\ CurationInvariant'
       /\ \A r \in Subgraphs : KeepsCurve(curationLedger', r)
  BY <1>1, PoolsUntouched
<1>12. Covered(id, data)
  <2>1. /\ \A r \in Subgraphs : curationLedger.signal[r][GNSAddress] \in Int
        /\ curationLedger.grt[GNSAddress] \in Int
    BY PoolsSound
  <2>2. /\ \A r \in Subgraphs : Claim(Data(id), r) \in Nat
        /\ Data(id).withdrawableGRT \in Nat
    BY <1>2, RecordIsSound DEF SubgraphData
  <2>. QED
    BY <1>5, <1>11, <2>1, <2>2 DEF Covered
<1>. QED
  BY <1>2, <1>5, <1>6, <1>7, <1>8, <1>9, <1>10, <1>11, <1>12, ReplacedSound

LEMMA MintSignalSound ==
    ASSUME GNSInvariant, NEW curator \in Namers, NEW id \in SubgraphIDs,
           NEW t \in NameDeposits, NEW m, MintSignal(curator, id, t, m)
    PROVE  StepSound
<1>. DEFINE data == Data(id)
            s == data.subgraphDeploymentID
            pulled == MoveGRT(curationLedger, curator, GNSAddress, t)
<1>1. /\ RecordSound(data) /\ data \in SubgraphData /\ Published(data)
      /\ s \in Subgraphs /\ s # NoDeployment
      /\ \A r : Claim(data, r) \in Nat
  BY RecordIsSound DEF MintSignal, IsPublished, Published
<1>2. PICK x \in SignalsMinted(s, t) :
         /\ CommitCuration(Signalled(pulled, GNSAddress, s, t, x))
         /\ SetData(id, Entered(data, curator, x, VSignalToNSignal(data, x)))
  BY DEF MintSignal
<1>. DEFINE c == Signalled(pulled, GNSAddress, s, t, x)
            e == Entered(data, curator, x, VSignalToNSignal(data, x))
<1>3. UNCHANGED <<legacySubgraphKeys, nextAccountSeqID, owners, ownerTaxPercentage>>
  BY DEF MintSignal
<1>4. /\ t \in Nat /\ t \in Int
      /\ curator \in Curators /\ GNSAddress \in Curators /\ curator # GNSAddress
  BY GNSAssumption, NamersFinite
<1>. HIDE DEF data, s
<1>5. /\ OnCurve(pulled)
      /\ pulled.pools = curationLedger.pools /\ pulled.signal = curationLedger.signal
      /\ \A h \in Curators : pulled.grt[h] = curationLedger.grt[h]
                                + (IF h = GNSAddress THEN t ELSE 0) - (IF h = curator THEN t ELSE 0)
  BY <1>4, PoolsSound, TransferOnCurve
<1>. HIDE DEF pulled
<1>6. x \in Nat
  BY <1>1, <1>2, <1>4, PoolsSound, MintedSignal
<1>7. /\ OnCurve(c)
      /\ \A r \in Subgraphs, h \in Curators :
            c.signal[r][h] = pulled.signal[r][h] + IF r = s /\ h = GNSAddress THEN x ELSE 0
      /\ \A h \in Curators : c.grt[h] = pulled.grt[h] + IF h = GNSAddress THEN -t ELSE 0
  <2>1. /\ DraftSound(curationLedger) /\ curationParams \in CurationParams
        /\ OnCurve(pulled) /\ s \in Subgraphs
        /\ pulled.pools[s] = curationLedger.pools[s]
        /\ pulled.signal[s] = curationLedger.signal[s]
        /\ GNSAddress \in Curators /\ t \in Nat /\ x \in SignalsMinted(s, t)
    BY <1>1, <1>2, <1>4, <1>5, PoolsSound
  <2>. QED
    BY <2>1, SignalBought
<1>. HIDE DEF c
<1>8. /\ curationLedger' = c
      /\ CurationInvariant'
      /\ \A r \in Subgraphs : KeepsCurve(curationLedger', r)
  BY <1>2, <1>7, PoolsSound, CommitOnCurve DEF c
<1>9. /\ RecordSound(e)
      /\ \A r \in Subgraphs : Claim(e, r) = Claim(data, r) + IF r = s THEN x ELSE 0
      /\ e.withdrawableGRT = data.withdrawableGRT
      /\ ShareKept(data, e)
  BY <1>1, <1>6, EnteredSound DEF s
<1>10. Published(e) => Published(data)
  BY <1>1
<1>. HIDE DEF e
<1>11. Covered(id, e)
  <2>1. ASSUME NEW r \in Subgraphs
        PROVE  c.signal[r][GNSAddress] - Claim(e, r)
                  >= curationLedger.signal[r][GNSAddress] - Claim(data, r)
    <3>1. /\ curationLedger.signal[r][GNSAddress] \in Nat /\ Claim(data, r) \in Nat
          /\ c.signal[r][GNSAddress]
                = curationLedger.signal[r][GNSAddress] + IF r = s THEN x ELSE 0
          /\ Claim(e, r) = Claim(data, r) + IF r = s THEN x ELSE 0
      BY <1>1, <1>4, <1>5, <1>7, <1>9, PoolsSound
    <3>. QED
      BY <1>6, <3>1
  <2>2. c.grt[GNSAddress] - e.withdrawableGRT
           >= curationLedger.grt[GNSAddress] - data.withdrawableGRT
    <3>1. /\ curationLedger.grt[GNSAddress] \in Int /\ data.withdrawableGRT \in Nat
          /\ c.grt[GNSAddress] = pulled.grt[GNSAddress] + (-t)
          /\ pulled.grt[GNSAddress] = curationLedger.grt[GNSAddress] + t - 0
      BY <1>1, <1>4, <1>5, <1>7, PoolsSound DEF SubgraphData
    <3>. QED
      BY <1>4, <1>9, <3>1
  <2>. QED
    BY <1>8, <2>1, <2>2 DEF Covered, data
<1>12. /\ SetData(id, e)
       /\ Data(id).subgraphDeploymentID # NoDeployment
       /\ ShareKept(Data(id), e)
       /\ Published(e) => Published(Data(id))
       /\ owners' = owners \/ (owners' = [owners EXCEPT ![id] = NoOwner] /\ e.disabled)
  BY <1>1, <1>2, <1>3, <1>9, <1>10 DEF e, s, data
<1>13. /\ GNSInvariant /\ CurationInvariant'
       /\ \A r \in Subgraphs : KeepsCurve(curationLedger', r)
       /\ RecordSound(e) /\ Covered(id, e)
       /\ UNCHANGED <<legacySubgraphKeys, nextAccountSeqID, ownerTaxPercentage>>
  BY <1>3, <1>8, <1>9, <1>11
<1>. QED
  BY <1>12, <1>13, RecordStepSound

LEMMA BurnSignalSound ==
    ASSUME GNSInvariant, NEW curator \in Namers, NEW id \in SubgraphIDs,
           NEW n \in NameSignals, NEW m, BurnSignal(curator, id, n, m)
    PROVE  StepSound
<1>. DEFINE data == Data(id)
            s == data.subgraphDeploymentID
            x == NSignalToVSignal(data, n)
            e == Left(data, curator, x, n)
<1>1. /\ RecordSound(data) /\ data \in SubgraphData /\ Published(data)
      /\ s \in Subgraphs /\ s # NoDeployment
      /\ \A r : Claim(data, r) \in Nat
      /\ data.nSignal > 0 /\ n <= data.curatorNSignal[curator]
  BY RecordIsSound DEF BurnSignal, IsPublished, Published
<1>2. PICK tokens \in TokensReturned(GNSAddress, s, x) :
         /\ CommitCuration(MoveGRT(Unsignalled(GNSAddress, s, x, tokens),
                                   GNSAddress, curator, tokens))
         /\ SetData(id, e)
  BY DEF BurnSignal
<1>. DEFINE sold == Unsignalled(GNSAddress, s, x, tokens)
            c == MoveGRT(sold, GNSAddress, curator, tokens)
<1>3. UNCHANGED <<legacySubgraphKeys, nextAccountSeqID, owners, ownerTaxPercentage>>
  BY DEF BurnSignal
<1>4. /\ n \in Nat
      /\ curator \in Curators /\ GNSAddress \in Curators /\ curator # GNSAddress
  BY GNSAssumption, NamersFinite
<1>. HIDE DEF data
<1>5. /\ x \in Nat
      /\ RecordSound(e)
      /\ \A r \in Subgraphs : Claim(e, r) = Claim(data, r) - IF r = s THEN x ELSE 0
      /\ e.withdrawableGRT = data.withdrawableGRT
      /\ ShareKept(data, e)
  BY <1>1, <1>4, LeftSound
<1>. HIDE DEF s, x
<1>6. /\ OnCurve(sold)
      /\ tokens \in Nat
      /\ \A r \in Subgraphs, h \in Curators :
            sold.signal[r][h] = curationLedger.signal[r][h]
                                   + IF r = s /\ h = GNSAddress THEN -x ELSE 0
      /\ \A h \in Curators :
            sold.grt[h] = curationLedger.grt[h] + IF h = GNSAddress THEN tokens ELSE 0
  <2>1. /\ DraftSound(curationLedger) /\ GNSAddress \in Curators /\ s \in Subgraphs
        /\ x \in Nat /\ tokens \in TokensReturned(GNSAddress, s, x)
    BY <1>1, <1>2, <1>4, <1>5, PoolsSound
  <2>. QED
    BY <2>1, SignalSold
<1>. HIDE DEF sold
<1>7. /\ OnCurve(c)
      /\ c.signal = sold.signal
      /\ \A h \in Curators : c.grt[h] = sold.grt[h] + (IF h = curator THEN tokens ELSE 0)
                                                    - (IF h = GNSAddress THEN tokens ELSE 0)
  <2>1. tokens \in Int /\ GNSAddress # curator
    BY <1>4, <1>6
  <2>. QED
    BY <1>4, <1>6, <2>1, TransferOnCurve
<1>. HIDE DEF c
<1>8. /\ curationLedger' = c
      /\ CurationInvariant'
      /\ \A r \in Subgraphs : KeepsCurve(curationLedger', r)
  BY <1>2, <1>7, PoolsSound, CommitOnCurve DEF c, sold
<1>9. Published(e) => Published(data)
  BY <1>1
<1>10. SetData(id, e)
  BY <1>2
<1>. HIDE DEF e
<1>11. Covered(id, e)
  <2>1. ASSUME NEW r \in Subgraphs
        PROVE  c.signal[r][GNSAddress] - Claim(e, r)
                  >= curationLedger.signal[r][GNSAddress] - Claim(data, r)
    <3>1. /\ curationLedger.signal[r][GNSAddress] \in Nat /\ Claim(data, r) \in Nat
          /\ c.signal[r][GNSAddress]
                = curationLedger.signal[r][GNSAddress] + IF r = s THEN -x ELSE 0
          /\ Claim(e, r) = Claim(data, r) - IF r = s THEN x ELSE 0
      BY <1>1, <1>4, <1>5, <1>6, <1>7, PoolsSound
    <3>. QED
      BY <1>5, <3>1
  <2>2. c.grt[GNSAddress] - e.withdrawableGRT
           >= curationLedger.grt[GNSAddress] - data.withdrawableGRT
    <3>1. /\ curationLedger.grt[GNSAddress] \in Int /\ data.withdrawableGRT \in Nat
          /\ c.grt[GNSAddress] = sold.grt[GNSAddress] + 0 - tokens
          /\ sold.grt[GNSAddress] = curationLedger.grt[GNSAddress] + tokens
      BY <1>1, <1>4, <1>6, <1>7, PoolsSound DEF SubgraphData
    <3>. QED
      BY <1>5, <1>6, <3>1
  <2>. QED
    BY <1>8, <2>1, <2>2 DEF Covered, data
<1>12. /\ SetData(id, e)
       /\ Data(id).subgraphDeploymentID # NoDeployment
       /\ ShareKept(Data(id), e)
       /\ Published(e) => Published(Data(id))
       /\ owners' = owners \/ (owners' = [owners EXCEPT ![id] = NoOwner] /\ e.disabled)
  BY <1>1, <1>3, <1>5, <1>9, <1>10 DEF s, data
<1>13. /\ GNSInvariant /\ CurationInvariant'
       /\ \A r \in Subgraphs : KeepsCurve(curationLedger', r)
       /\ RecordSound(e) /\ Covered(id, e)
       /\ UNCHANGED <<legacySubgraphKeys, nextAccountSeqID, ownerTaxPercentage>>
  BY <1>3, <1>5, <1>8, <1>11
<1>. QED
  BY <1>12, <1>13, RecordStepSound

LEMMA WithdrawGRTSound ==
    ASSUME GNSInvariant, NEW curator \in Namers, NEW id \in SubgraphIDs,
           WithdrawGRT(curator, id)
    PROVE  StepSound
<1>. DEFINE data == Data(id)
            tokens == (data.curatorNSignal[curator] * data.withdrawableGRT) \div data.nSignal
            e == PaidOut(data, curator, tokens)
            c == MoveGRT(curationLedger, GNSAddress, curator, tokens)
<1>1. /\ RecordSound(data) /\ data \in SubgraphData /\ data.disabled
      /\ data.withdrawableGRT > 0 /\ data.curatorNSignal[curator] > 0
      /\ CommitCuration(c)
      /\ SetData(id, e)
  BY RecordIsSound DEF WithdrawGRT
<1>2. UNCHANGED <<legacySubgraphKeys, nextAccountSeqID, owners, ownerTaxPercentage>>
  BY DEF WithdrawGRT
<1>3. curator \in Curators /\ GNSAddress \in Curators /\ curator # GNSAddress
  BY GNSAssumption, NamersFinite
<1>4. data.subgraphDeploymentID # NoDeployment
  <2>1. ~NewSubgraph(NoDeployment).disabled
    BY DEF NewSubgraph
  <2>. QED
    BY <1>1, <2>1 DEF RecordSound
<1>. HIDE DEF data
<1>5. /\ tokens \in Nat
      /\ RecordSound(e)
      /\ e.disabled
      /\ \A r \in Subgraphs : Claim(e, r) = 0 /\ Claim(data, r) = 0
      /\ e.withdrawableGRT = data.withdrawableGRT - tokens
      /\ ShareKept(data, e)
  BY <1>1, PaidOutSound
<1>. HIDE DEF tokens, e
<1>6. /\ OnCurve(c)
      /\ c.signal = curationLedger.signal
      /\ \A h \in Curators : c.grt[h] = curationLedger.grt[h]
                                + (IF h = curator THEN tokens ELSE 0)
                                - (IF h = GNSAddress THEN tokens ELSE 0)
  <2>1. tokens \in Int /\ GNSAddress # curator /\ OnCurve(curationLedger)
    BY <1>3, <1>5, PoolsSound
  <2>. QED
    BY <1>3, <2>1, TransferOnCurve
<1>. HIDE DEF c
<1>7. /\ curationLedger' = c
      /\ CurationInvariant'
      /\ \A r \in Subgraphs : KeepsCurve(curationLedger', r)
  BY <1>1, <1>6, PoolsSound, CommitOnCurve
<1>8. Covered(id, e)
  <2>1. /\ \A r \in Subgraphs : curationLedger.signal[r][GNSAddress] \in Nat
        /\ curationLedger.grt[GNSAddress] \in Int /\ data.withdrawableGRT \in Nat
        /\ c.grt[GNSAddress] = curationLedger.grt[GNSAddress] + 0 - tokens
    BY <1>1, <1>3, <1>6, PoolsSound DEF SubgraphData
  <2>2. c.grt[GNSAddress] - e.withdrawableGRT
           >= curationLedger.grt[GNSAddress] - data.withdrawableGRT
    BY <1>5, <2>1
  <2>3. \A r \in Subgraphs : c.signal[r][GNSAddress] - Claim(e, r)
           >= curationLedger.signal[r][GNSAddress] - Claim(data, r)
    BY <1>5, <1>6, <2>1
  <2>. QED
    BY <1>7, <2>2, <2>3 DEF Covered, data
<1>9. /\ SetData(id, e)
      /\ Data(id).subgraphDeploymentID # NoDeployment
      /\ ShareKept(Data(id), e)
      /\ Published(e) => Published(Data(id))
      /\ owners' = owners \/ (owners' = [owners EXCEPT ![id] = NoOwner] /\ e.disabled)
  BY <1>1, <1>2, <1>4, <1>5 DEF data, Published
<1>10. /\ GNSInvariant /\ CurationInvariant'
       /\ \A r \in Subgraphs : KeepsCurve(curationLedger', r)
       /\ RecordSound(e) /\ Covered(id, e)
       /\ UNCHANGED <<legacySubgraphKeys, nextAccountSeqID, ownerTaxPercentage>>
  BY <1>2, <1>5, <1>7, <1>8
<1>. QED
  BY <1>9, <1>10, RecordStepSound

LEMMA DeprecateSubgraphSound ==
    ASSUME GNSInvariant, NEW owner \in Namers, NEW id \in SubgraphIDs,
           DeprecateSubgraph(owner, id)
    PROVE  StepSound
<1>. DEFINE data == Data(id)
            s == data.subgraphDeploymentID
<1>1. /\ RecordSound(data) /\ data \in SubgraphData /\ Published(data)
      /\ s \in Subgraphs /\ s # NoDeployment
      /\ \A r : Claim(data, r) \in Nat
      /\ data.vSignal \in Nat /\ data.nSignal \in Nat /\ data.withdrawableGRT = 0
      /\ data.nSignal = 0 => data.vSignal = 0
  BY RecordIsSound DEF DeprecateSubgraph, IsPublished, Published, RecordSound, SubgraphData
<1>2. /\ UNCHANGED <<legacySubgraphKeys, nextAccountSeqID, ownerTaxPercentage>>
      /\ owners' = [owners EXCEPT ![id] = NoOwner]
  BY DEF DeprecateSubgraph
<1>3. GNSAddress \in Curators
  BY GNSAssumption
\* Whatever the signal was sold for is there.
<1>4. ASSUME NEW tokens \in Nat, data.nSignal = 0 => tokens = 0,
             SetData(id, Deprecated(data, tokens)),
             CurationInvariant', \A r \in Subgraphs : KeepsCurve(curationLedger', r),
             \A r \in Subgraphs : curationLedger'.signal[r][GNSAddress]
                = curationLedger.signal[r][GNSAddress] + IF r = s THEN -data.vSignal ELSE 0,
             curationLedger'.grt[GNSAddress] = curationLedger.grt[GNSAddress] + tokens
      PROVE  StepSound
  <2>. DEFINE e == Deprecated(data, tokens)
  <2>. HIDE DEF data
  <2>1. /\ RecordSound(e) /\ e.disabled
        /\ \A r \in Subgraphs : Claim(e, r) = 0
        /\ e.withdrawableGRT = tokens
        /\ ShareKept(data, e)
    BY <1>1, <1>4, DeprecatedSound
  <2>2. SetData(id, e)
    BY <1>4
  <2>. HIDE DEF e
  <2>3. Covered(id, e)
    <3>1. ASSUME NEW r \in Subgraphs
          PROVE  curationLedger'.signal[r][GNSAddress] - Claim(e, r)
                    >= curationLedger.signal[r][GNSAddress] - Claim(data, r)
      <4>1. /\ curationLedger.signal[r][GNSAddress] \in Nat
            /\ Claim(data, r) = IF r = s THEN data.vSignal ELSE 0
            /\ Claim(e, r) = 0
        BY <1>3, <2>1, PoolsSound DEF Claim
      <4>2. curationLedger'.signal[r][GNSAddress]
               = curationLedger.signal[r][GNSAddress] + IF r = s THEN -data.vSignal ELSE 0
        BY <1>4
      <4>. QED
        BY <1>1, <4>1, <4>2
    <3>2. curationLedger.grt[GNSAddress] \in Int
      BY <1>3, PoolsSound
    <3>. QED
      BY <1>1, <1>4, <2>1, <3>1, <3>2 DEF Covered, data
  <2>4. /\ Data(id).subgraphDeploymentID # NoDeployment
        /\ ShareKept(Data(id), e)
        /\ Published(e) => Published(Data(id))
        /\ owners' = owners \/ (owners' = [owners EXCEPT ![id] = NoOwner] /\ e.disabled)
    BY <1>1, <1>2, <2>1 DEF data
  <2>5. /\ GNSInvariant /\ CurationInvariant'
        /\ \A r \in Subgraphs : KeepsCurve(curationLedger', r)
        /\ RecordSound(e) /\ Covered(id, e)
        /\ UNCHANGED <<legacySubgraphKeys, nextAccountSeqID, ownerTaxPercentage>>
    BY <1>2, <1>4, <2>1, <2>3
  <2>. QED
    BY <2>2, <2>4, <2>5, RecordStepSound
<1>5. CASE data.nSignal > 0
  <2>1. PICK tokens \in TokensReturned(GNSAddress, s, data.vSignal) :
           /\ CommitCuration(Unsignalled(GNSAddress, s, data.vSignal, tokens))
           /\ SetData(id, Deprecated(data, tokens))
    BY <1>5 DEF DeprecateSubgraph
  <2>. DEFINE c == Unsignalled(GNSAddress, s, data.vSignal, tokens)
              v == data.vSignal
  <2>2. /\ OnCurve(c)
        /\ tokens \in Nat
        /\ \A r \in Subgraphs, h \in Curators :
              c.signal[r][h] = curationLedger.signal[r][h]
                                  + IF r = s /\ h = GNSAddress THEN -data.vSignal ELSE 0
        /\ \A h \in Curators :
              c.grt[h] = curationLedger.grt[h] + IF h = GNSAddress THEN tokens ELSE 0
    <3>1. /\ DraftSound(curationLedger) /\ s \in Subgraphs
          /\ v \in Nat /\ tokens \in TokensReturned(GNSAddress, s, v)
          /\ c = Unsignalled(GNSAddress, s, v, tokens)
      BY <1>1, <2>1, PoolsSound
    <3>. HIDE DEF v, s, c
    <3>2. LET k == Unsignalled(GNSAddress, s, v, tokens)
          IN /\ OnCurve(k)
             /\ tokens \in Nat
             /\ \A r \in Subgraphs, h \in Curators :
                   k.signal[r][h] = curationLedger.signal[r][h]
                                       + IF r = s /\ h = GNSAddress THEN -v ELSE 0
             /\ \A h \in Curators :
                   k.grt[h] = curationLedger.grt[h] + IF h = GNSAddress THEN tokens ELSE 0
      BY <1>3, <3>1, SignalSold
    <3>. QED
      BY <3>1, <3>2 DEF v
  <2>. HIDE DEF c, s
  <2>3. /\ curationLedger' = c
        /\ CurationInvariant'
        /\ \A r \in Subgraphs : KeepsCurve(curationLedger', r)
    BY <2>1, <2>2, PoolsSound, CommitOnCurve DEF c
  <2>4. /\ \A r \in Subgraphs : curationLedger'.signal[r][GNSAddress]
              = curationLedger.signal[r][GNSAddress] + IF r = s THEN -data.vSignal ELSE 0
        /\ curationLedger'.grt[GNSAddress] = curationLedger.grt[GNSAddress] + tokens
    BY <1>3, <2>2, <2>3
  <2>. QED
    BY <1>4, <1>5, <2>1, <2>2, <2>3, <2>4 DEF s
<1>6. CASE data.nSignal = 0
  <2>1. SetData(id, Deprecated(data, 0)) /\ UNCHANGED curationVars
    BY <1>1, <1>6 DEF DeprecateSubgraph
  <2>2. /\ curationLedger' = curationLedger
        /\ CurationInvariant'
        /\ \A r \in Subgraphs : KeepsCurve(curationLedger', r)
    BY <2>1, PoolsUntouched
  <2>3. /\ \A r \in Subgraphs : curationLedger.signal[r][GNSAddress] \in Nat
        /\ curationLedger.grt[GNSAddress] \in Int
    BY <1>3, PoolsSound
  <2>4. /\ \A r \in Subgraphs : curationLedger'.signal[r][GNSAddress]
              = curationLedger.signal[r][GNSAddress] + IF r = s THEN -data.vSignal ELSE 0
        /\ curationLedger'.grt[GNSAddress] = curationLedger.grt[GNSAddress] + 0
    BY <1>1, <1>6, <2>2, <2>3
  <2>5. 0 \in Nat
    OBVIOUS
  <2>. QED
    BY <1>4, <1>6, <2>1, <2>2, <2>4, <2>5
<1>. QED
  BY <1>1, <1>5, <1>6

\* What the owner's part of the tax makes of a deposit is an amount of GRT.
LEMMA OwnerTaxIsNat ==
    ASSUME GNSInvariant, CanChargeOwnerTax, NEW tokens \in Nat
    PROVE  WithOwnerTax(tokens) \in Nat
<1>. DEFINE rate == curationParams["curationTaxPercentage"]
            tax == Portion(rate, tokens)
            part == Portion(ownerTaxPercentage, tax)
            kept == tokens - tax + part
<1>1. /\ rate \in 0 .. MAX_PPM
      /\ ownerTaxPercentage \in 0 .. MAX_PPM
      /\ rate < MAX_PPM
  BY MaxPPM DEF GNSInvariant, GNSTyped, CurationInvariant, CurationParams, CurationSettings,
     AcceptsSetting, CanChargeOwnerTax
<1>2. WithOwnerTax(tokens) = IF rate = 0 \/ ownerTaxPercentage = 0 THEN 0
                             ELSE (kept * MAX_PPM) \div (MAX_PPM - rate)
  BY DEF WithOwnerTax
<1>. HIDE DEF rate
<1>3. tax \in 0 .. tokens
  BY <1>1, PortionBounds
<1>. HIDE DEF tax
<1>4. part \in 0 .. tax
  <2>1. tax \in Nat
    BY <1>3
  <2>. QED
    BY <1>1, <2>1, PortionBounds
<1>. HIDE DEF part
<1>5. kept \in Nat
  BY <1>3, <1>4
<1>. HIDE DEF kept
<1>6. kept * MAX_PPM \in Nat /\ MAX_PPM - rate \in Nat \ {0}
  BY <1>1, <1>5, MaxPPM, ProductNat
<1>7. (kept * MAX_PPM) \div (MAX_PPM - rate) \in Nat
  BY <1>6, DivBounds
<1>. QED
  BY <1>2, <1>7

\* Selling the signal of one deployment for that of another, which nobody curates,
\* buys all the signal there is, and leaves no GRT behind.
LEMMA MoveSignalSound ==
    ASSUME GNSInvariant, NEW owner \in Namers, NEW id \in SubgraphIDs, NEW s \in Subgraphs,
           Published(Data(id)), CanPointTo(Data(id), s), MoveSignal(owner, id, s)
    PROVE  \E x \in Nat :
              /\ x > 0
              /\ SetData(id, Repointed(Data(id), x, s))
              /\ CurationInvariant'
              /\ \A r \in Subgraphs : KeepsCurve(curationLedger', r)
              /\ CurationPoolSignal(curationLedger', s) = x
              /\ \A r \in Subgraphs : curationLedger'.signal[r][GNSAddress]
                    = curationLedger.signal[r][GNSAddress]
                         + (IF r = s THEN x ELSE 0) - Claim(Data(id), r)
              /\ curationLedger'.grt[GNSAddress] = curationLedger.grt[GNSAddress]
<1>. DEFINE data == Data(id)
            from == data.subgraphDeploymentID
            v == data.vSignal
<1>1. /\ data \in SubgraphData /\ v \in Nat /\ from \in Subgraphs
      /\ s # from /\ ~IsCurated(s) /\ CanChargeOwnerTax
  BY RecordIsSound DEF SubgraphData, Published, CanPointTo, MoveSignal
<1>2. PICK tokens \in TokensReturned(GNSAddress, from, v) :
         \E x \in SignalsMinted(s, WithOwnerTax(tokens)) :
            /\ CommitCuration(Signalled(OwnerTaxCharged(Unsignalled(GNSAddress, from, v, tokens),
                                                        owner, tokens),
                                        GNSAddress, s, WithOwnerTax(tokens), x))
            /\ SetData(id, Repointed(data, x, s))
  BY DEF MoveSignal, Repointed
<1>. DEFINE sold == Unsignalled(GNSAddress, from, v, tokens)
            charged == OwnerTaxCharged(sold, owner, tokens)
            deposit == WithOwnerTax(tokens)
<1>3. PICK x \in SignalsMinted(s, deposit) :
         /\ CommitCuration(Signalled(charged, GNSAddress, s, deposit, x))
         /\ SetData(id, Repointed(data, x, s))
  BY <1>2
<1>. DEFINE c == Signalled(charged, GNSAddress, s, deposit, x)
<1>4. owner \in Curators /\ GNSAddress \in Curators /\ owner # GNSAddress
  BY GNSAssumption, NamersFinite
<1>. HIDE DEF data, from, v
<1>5. /\ OnCurve(sold)
      /\ tokens \in Nat
      /\ \A r \in Subgraphs \ {from} : /\ sold.pools[r] = curationLedger.pools[r]
                                       /\ sold.signal[r] = curationLedger.signal[r]
      /\ \A r \in Subgraphs, h \in Curators :
            sold.signal[r][h] = curationLedger.signal[r][h]
                                   + IF r = from /\ h = GNSAddress THEN -v ELSE 0
      /\ \A h \in Curators :
            sold.grt[h] = curationLedger.grt[h] + IF h = GNSAddress THEN tokens ELSE 0
  <2>1. /\ DraftSound(curationLedger) /\ GNSAddress \in Curators /\ from \in Subgraphs
        /\ v \in Nat /\ tokens \in TokensReturned(GNSAddress, from, v)
    BY <1>1, <1>4, PoolsSound
  <2>. QED
    BY <2>1, SignalSold
<1>. HIDE DEF sold
<1>6. deposit \in Nat
  BY <1>1, <1>5, OwnerTaxIsNat
<1>. DEFINE n == IF deposit = 0 THEN 0 ELSE deposit - tokens
<1>7. charged = MoveGRT(sold, owner, GNSAddress, n) /\ n \in Int
  BY <1>5, <1>6 DEF OwnerTaxCharged
<1>. HIDE DEF n, charged, deposit
<1>8. /\ OnCurve(charged)
      /\ charged.pools = sold.pools /\ charged.signal = sold.signal
      /\ \A h \in Curators : charged.grt[h] = sold.grt[h] + (IF h = GNSAddress THEN n ELSE 0)
                                                          - (IF h = owner THEN n ELSE 0)
  <2>. DEFINE k == MoveGRT(sold, owner, GNSAddress, n)
  <2>1. /\ OnCurve(sold) /\ owner \in Curators /\ GNSAddress \in Curators
        /\ owner # GNSAddress /\ n \in Int
    BY <1>4, <1>5, <1>7
  <2>2. /\ OnCurve(k)
        /\ k.pools = sold.pools /\ k.signal = sold.signal
        /\ \A h \in Curators : k.grt[h] = sold.grt[h] + (IF h = GNSAddress THEN n ELSE 0)
                                                      - (IF h = owner THEN n ELSE 0)
    BY <2>1, TransferOnCurve
  <2>. QED
    BY <1>7, <2>2
<1>9. x \in Nat /\ deposit > 0 /\ x > 0
  <2>1. /\ DraftSound(curationLedger) /\ curationParams \in CurationParams
        /\ deposit \in Nat /\ x \in SignalsMinted(s, deposit)
    BY <1>3, <1>6, PoolsSound
  <2>2. x \in Nat /\ deposit > 0 /\ (~IsCurated(s) => x > 0)
    BY <2>1, MintedSignal
  <2>. QED
    BY <1>1, <2>2
<1>10. /\ OnCurve(c)
       /\ ~IsCurated(s) => CurationPoolSignal(c, s) = x
       /\ \A r \in Subgraphs, h \in Curators :
             c.signal[r][h] = charged.signal[r][h] + IF r = s /\ h = GNSAddress THEN x ELSE 0
       /\ \A h \in Curators :
             c.grt[h] = charged.grt[h] + IF h = GNSAddress THEN -deposit ELSE 0
  <2>1. /\ DraftSound(curationLedger) /\ curationParams \in CurationParams
        /\ OnCurve(charged)
        /\ charged.pools[s] = curationLedger.pools[s]
        /\ charged.signal[s] = curationLedger.signal[s]
        /\ GNSAddress \in Curators /\ deposit \in Nat /\ x \in SignalsMinted(s, deposit)
    BY <1>1, <1>3, <1>4, <1>5, <1>6, <1>8, PoolsSound
  <2>. QED
    BY <2>1, SignalBought
<1>. HIDE DEF c
<1>11. /\ curationLedger' = c
       /\ CurationInvariant'
       /\ \A r \in Subgraphs : KeepsCurve(curationLedger', r)
  <2>1. CurationInvariant /\ OnCurve(c) /\ CommitCuration(c)
    BY <1>3, <1>10, PoolsSound DEF c
  <2>. QED
    BY <2>1, CommitOnCurve
<1>12. ASSUME NEW r \in Subgraphs
       PROVE  c.signal[r][GNSAddress] = curationLedger.signal[r][GNSAddress]
                 + (IF r = s THEN x ELSE 0) - Claim(data, r)
  <2>1. /\ Claim(data, r) = IF r = from THEN v ELSE 0
        /\ curationLedger.signal[r][GNSAddress] \in Nat
        /\ c.signal[r][GNSAddress] = charged.signal[r][GNSAddress] + IF r = s THEN x ELSE 0
        /\ charged.signal[r][GNSAddress] = sold.signal[r][GNSAddress]
        /\ sold.signal[r][GNSAddress]
              = curationLedger.signal[r][GNSAddress] + IF r = from THEN -v ELSE 0
    BY <1>4, <1>5, <1>8, <1>10, PoolsSound DEF Claim, from, v
  <2>. QED
    BY <1>1, <1>9, <2>1
<1>13. c.grt[GNSAddress] = curationLedger.grt[GNSAddress]
  <2>1. /\ curationLedger.grt[GNSAddress] \in Int
        /\ c.grt[GNSAddress] = charged.grt[GNSAddress] + (-deposit)
        /\ charged.grt[GNSAddress] = sold.grt[GNSAddress] + n - 0
        /\ sold.grt[GNSAddress] = curationLedger.grt[GNSAddress] + tokens
        /\ n = deposit - tokens
    BY <1>4, <1>5, <1>8, <1>9, <1>10, PoolsSound DEF n
  <2>. QED
    BY <1>5, <1>6, <2>1
<1>14. CurationPoolSignal(curationLedger', s) = x
  BY <1>1, <1>10, <1>11
<1>. QED
  BY <1>3, <1>9, <1>11, <1>12, <1>13, <1>14 DEF data

LEMMA PublishNewVersionSound ==
    ASSUME GNSInvariant, NEW owner \in Namers, NEW id \in SubgraphIDs, NEW s \in Subgraphs,
           PublishNewVersion(owner, id, s)
    PROVE  StepSound
<1>. DEFINE data == Data(id)
<1>1. /\ RecordSound(data) /\ data \in SubgraphData /\ Published(data)
      /\ data.subgraphDeploymentID # NoDeployment
      /\ \A r : Claim(data, r) \in Nat
      /\ data.vSignal \in Nat /\ data.nSignal \in Nat /\ data.withdrawableGRT \in Nat
      /\ data.nSignal = 0 => data.vSignal = 0
      /\ CanPointTo(data, s) /\ s # data.subgraphDeploymentID
  BY RecordIsSound
  DEF PublishNewVersion, IsPublished, Published, RecordSound, SubgraphData, CanPointTo
<1>2. UNCHANGED <<legacySubgraphKeys, nextAccountSeqID, owners, ownerTaxPercentage>>
  BY DEF PublishNewVersion
<1>3. GNSAddress \in Curators
  BY GNSAssumption
\* The record has the signal of its new deployment.
<1>4. ASSUME NEW x \in Nat, SetData(id, Repointed(data, x, s)), data.nSignal > 0 <=> x > 0,
             data.nSignal > 0 => CurationPoolSignal(curationLedger', s) = x,
             CurationInvariant', \A r \in Subgraphs : KeepsCurve(curationLedger', r),
             \A r \in Subgraphs : curationLedger'.signal[r][GNSAddress]
                >= curationLedger.signal[r][GNSAddress]
                      + (IF r = s THEN x ELSE 0) - Claim(data, r),
             curationLedger'.grt[GNSAddress] = curationLedger.grt[GNSAddress]
      PROVE  StepSound
  <2>. DEFINE e == Repointed(data, x, s)
  <2>. HIDE DEF data
  <2>1. /\ RecordSound(e)
        /\ \A r \in Subgraphs : Claim(e, r) = IF r = s THEN x ELSE 0
        /\ e.withdrawableGRT = data.withdrawableGRT
        /\ ShareKept(data, e)
    BY <1>1, <1>4, RepointedSound
  <2>2. SetData(id, e)
    BY <1>4
  <2>. HIDE DEF e
  <2>3. Covered(id, e)
    <3>1. ASSUME NEW r \in Subgraphs
          PROVE  curationLedger'.signal[r][GNSAddress] - Claim(e, r)
                    >= curationLedger.signal[r][GNSAddress] - Claim(data, r)
      <4>1. /\ curationLedger.signal[r][GNSAddress] \in Nat
            /\ Claim(data, r) \in Nat
            /\ Claim(e, r) = IF r = s THEN x ELSE 0
            /\ curationLedger'.signal[r][GNSAddress]
                  >= curationLedger.signal[r][GNSAddress]
                        + (IF r = s THEN x ELSE 0) - Claim(data, r)
        BY <1>1, <1>3, <1>4, <2>1, PoolsSound
      <4>2. curationLedger'.signal[r][GNSAddress] \in Nat
        BY <1>3, <1>4 DEF CurationInvariant, DraftSound, CurationDraft
      <4>. QED
        BY <4>1, <4>2
    <3>2. curationLedger.grt[GNSAddress] \in Int
      BY <1>3, PoolsSound
    <3>. QED
      BY <1>1, <1>4, <2>1, <3>1, <3>2 DEF Covered, data
  <2>4. /\ Data(id).subgraphDeploymentID # NoDeployment
        /\ ShareKept(Data(id), e)
        /\ Published(e) => Published(Data(id))
        /\ owners' = owners \/ (owners' = [owners EXCEPT ![id] = NoOwner] /\ e.disabled)
    BY <1>1, <1>2, <2>1 DEF data
  <2>5. /\ GNSInvariant /\ CurationInvariant'
        /\ \A r \in Subgraphs : KeepsCurve(curationLedger', r)
        /\ RecordSound(e) /\ Covered(id, e)
        /\ UNCHANGED <<legacySubgraphKeys, nextAccountSeqID, ownerTaxPercentage>>
    BY <1>2, <1>4, <2>1, <2>3
  <2>. QED
    BY <2>2, <2>4, <2>5, RecordStepSound
<1>5. CASE data.nSignal > 0
  <2>1. MoveSignal(owner, id, s)
    BY <1>5 DEF PublishNewVersion
  <2>2. PICK x \in Nat :
           /\ x > 0
           /\ SetData(id, Repointed(data, x, s))
           /\ CurationInvariant'
           /\ \A r \in Subgraphs : KeepsCurve(curationLedger', r)
           /\ CurationPoolSignal(curationLedger', s) = x
           /\ \A r \in Subgraphs : curationLedger'.signal[r][GNSAddress]
                 = curationLedger.signal[r][GNSAddress]
                      + (IF r = s THEN x ELSE 0) - Claim(data, r)
           /\ curationLedger'.grt[GNSAddress] = curationLedger.grt[GNSAddress]
    BY <1>1, <2>1, MoveSignalSound
  <2>3. \A r \in Subgraphs : curationLedger'.signal[r][GNSAddress]
           >= curationLedger.signal[r][GNSAddress]
                 + (IF r = s THEN x ELSE 0) - Claim(data, r)
    <3>1. \A r \in Subgraphs : /\ curationLedger.signal[r][GNSAddress] \in Nat
                               /\ Claim(data, r) \in Nat
      BY <1>1, <1>3, PoolsSound
    <3>. HIDE DEF data
    <3>. QED
      BY <2>2, <3>1
  <2>. QED
    BY <1>4, <1>5, <2>2, <2>3
<1>6. CASE data.nSignal = 0
  <2>1. SetData(id, [data EXCEPT !.subgraphDeploymentID = s]) /\ UNCHANGED curationVars
    BY <1>6 DEF PublishNewVersion
  <2>2. [data EXCEPT !.subgraphDeploymentID = s] = Repointed(data, 0, s)
    <3>. DEFINE d == data.subgraphDeploymentID
                n == data.nSignal
                owned == data.curatorNSignal
                off == data.disabled
                grt == data.withdrawableGRT
    <3>1. data = RecordOf(d, 0, n, owned, off, grt)
      BY <1>1, <1>6, RecordParts
    <3>. HIDE DEF d, n, owned, off, grt, data
    <3>2. [RecordOf(d, 0, n, owned, off, grt) EXCEPT !.subgraphDeploymentID = s]
             = RecordOf(s, 0, n, owned, off, grt)
      BY DeploymentSet
    <3>3. Repointed(RecordOf(d, 0, n, owned, off, grt), 0, s)
             = RecordOf(s, 0, n, owned, off, grt)
      BY RepointedIs
    <3>. QED
      BY <3>1, <3>2, <3>3, Zenon
  <2>3. /\ curationLedger' = curationLedger
        /\ CurationInvariant'
        /\ \A r \in Subgraphs : KeepsCurve(curationLedger', r)
    BY <2>1, PoolsUntouched
  <2>4. /\ \A r \in Subgraphs : curationLedger.signal[r][GNSAddress] \in Nat
        /\ curationLedger.grt[GNSAddress] \in Int
    BY <1>3, PoolsSound
  <2>5. \A r \in Subgraphs : curationLedger'.signal[r][GNSAddress]
           >= curationLedger.signal[r][GNSAddress]
                 + (IF r = s THEN 0 ELSE 0) - Claim(data, r)
    <3>. HIDE DEF data
    <3>. QED
      BY <1>1, <2>3, <2>4
  <2>6. 0 \in Nat /\ ~(0 > 0) /\ ~(data.nSignal > 0)
    BY <1>6
  <2>. QED
    BY <1>4, <2>1, <2>2, <2>3, <2>5, <2>6
<1>. QED
  BY <1>1, <1>5, <1>6

\* A step that leaves the records alone, and the contract no less than it had.
LEMMA RecordsUntouchedSound ==
    ASSUME GNSInvariant, CurationInvariant',
           \A r \in Subgraphs : KeepsCurve(curationLedger', r),
           UNCHANGED <<subgraphs, legacySubgraphData, legacySubgraphKeys, nextAccountSeqID>>,
           ownerTaxPercentage' \in 0 .. MAX_PPM,
           owners' \in [SubgraphIDs -> Namers \cup {NoOwner}],
           \A j \in SubgraphIDs : owners[j] \in Namers => owners'[j] \in Namers,
           \A s \in Subgraphs : curationLedger'.signal[s][GNSAddress]
                                   >= curationLedger.signal[s][GNSAddress],
           curationLedger'.grt[GNSAddress] >= curationLedger.grt[GNSAddress]
    PROVE  StepSound
<1>1. \A j : Data(j)' = Data(j)
  BY DEF Data
<1>2. GNSTyped' /\ LegacyUntouched'
  BY DEF GNSInvariant, GNSTyped, LegacyUntouched
<1>3. RecordsSound'
  <2>1. ASSUME NEW j \in SubgraphIDs
        PROVE  RecordSound(Data(j)') /\ (Published(Data(j)') => owners'[j] \in Namers)
    BY <1>1, RecordIsSound
  <2>2. (\A j \in SubgraphIDs : /\ RecordSound(Data(j))
                                /\ Published(Data(j)) => owners[j] \in Namers)'
    BY <2>1 DEF RecordSound, Published
  <2>. QED
    BY <2>2 DEF RecordsSound
<1>4. IDsUnused'
  BY <1>1 DEF GNSInvariant, IDsUnused
<1>5. SignalHeld'
  <2>1. GNSAddress \in Curators
    BY GNSAssumption
  <2>2. /\ curationLedger.grt[GNSAddress] \in Int
        /\ curationLedger'.grt[GNSAddress] \in Int
        /\ \A s \in Subgraphs : /\ curationLedger.signal[s][GNSAddress] \in Int
                                /\ curationLedger'.signal[s][GNSAddress] \in Int
    BY <2>1 DEF GNSInvariant, CurationInvariant, DraftSound, CurationDraft, CurationHolders
  <2>3. ASSUME NEW s \in Subgraphs
        PROVE  SumFunction([j \in SubgraphIDs |->
                  IF Data(j)'.subgraphDeploymentID = s THEN Data(j)'.vSignal ELSE 0])
                  <= curationLedger'.signal[s][GNSAddress]
    <3>. DEFINE f == [j \in SubgraphIDs |->
                         IF Data(j).subgraphDeploymentID = s THEN Data(j).vSignal ELSE 0]
    <3>1. SumFunction(f) <= curationLedger.signal[s][GNSAddress]
      BY DEF GNSInvariant, SignalHeld
    <3>2. [j \in SubgraphIDs |->
              IF Data(j)'.subgraphDeploymentID = s THEN Data(j)'.vSignal ELSE 0] = f
      BY <1>1
    <3>3. SumFunction(f) \in Int
      <4>1. \A j \in SubgraphIDs : f[j] \in Nat
        <5>1. \A j \in SubgraphIDs : Data(j).vSignal \in Nat
          BY RecordIsSound DEF SubgraphData
        <5>. QED
          BY <5>1
      <4>2. DOMAIN f = SubgraphIDs
        OBVIOUS
      <4>. HIDE DEF f
      <4>3. SumFunctionOnSet(f, SubgraphIDs) \in Nat
        BY <4>1, SumIsNat, SubgraphIDsFinite
      <4>. QED
        BY <4>2, <4>3 DEF SumFunction
    <3>. HIDE DEF f
    <3>. QED
      BY <2>2, <3>1, <3>2, <3>3
  <2>4. SumFunction([j \in SubgraphIDs |-> Data(j)'.withdrawableGRT])
           <= curationLedger'.grt[GNSAddress]
    <3>. DEFINE f == [j \in SubgraphIDs |-> Data(j).withdrawableGRT]
    <3>1. SumFunction(f) <= curationLedger.grt[GNSAddress]
      BY DEF GNSInvariant, SignalHeld
    <3>2. [j \in SubgraphIDs |-> Data(j)'.withdrawableGRT] = f
      BY <1>1
    <3>3. SumFunction(f) \in Int
      <4>1. \A j \in SubgraphIDs : f[j] \in Nat
        BY RecordIsSound DEF SubgraphData
      <4>2. DOMAIN f = SubgraphIDs
        OBVIOUS
      <4>. HIDE DEF f
      <4>3. SumFunctionOnSet(f, SubgraphIDs) \in Nat
        BY <4>1, SumIsNat, SubgraphIDsFinite
      <4>. QED
        BY <4>2, <4>3 DEF SumFunction
    <3>. HIDE DEF f
    <3>. QED
      BY <2>2, <3>1, <3>2, <3>3
  <2>. QED
    BY <2>3, <2>4 DEF SignalHeld
<1>6. \A j \in SubgraphIDs : ShareKept(Data(j), Data(j)')
  <2>1. \A j \in SubgraphIDs : ShareKept(Data(j), Data(j))
    BY RecordIsSound, SameShares
  <2>. QED
    BY <1>1, <2>1
<1>. QED
  BY <1>2, <1>3, <1>4, <1>5, <1>6 DEF StepSound, GNSInvariant

\* Among them are those that leave the pools alone, too.
LEMMA PoolsAndRecordsUntouchedSound ==
    ASSUME GNSInvariant, UNCHANGED curationVars,
           UNCHANGED <<subgraphs, legacySubgraphData, legacySubgraphKeys, nextAccountSeqID>>,
           ownerTaxPercentage' \in 0 .. MAX_PPM,
           owners' \in [SubgraphIDs -> Namers \cup {NoOwner}],
           \A j \in SubgraphIDs : owners[j] \in Namers => owners'[j] \in Namers
    PROVE  StepSound
<1>1. /\ curationLedger' = curationLedger
      /\ CurationInvariant'
      /\ \A r \in Subgraphs : KeepsCurve(curationLedger', r)
  BY PoolsUntouched
<1>2. /\ \A s \in Subgraphs : curationLedger.signal[s][GNSAddress] \in Nat
      /\ curationLedger.grt[GNSAddress] \in Int
  BY PoolsSound
<1>3. /\ \A s \in Subgraphs : curationLedger'.signal[s][GNSAddress]
                                 >= curationLedger.signal[s][GNSAddress]
      /\ curationLedger'.grt[GNSAddress] >= curationLedger.grt[GNSAddress]
  BY <1>1, <1>2
<1>. QED
  BY <1>1, <1>3, RecordsUntouchedSound

LEMMA TransferSubgraphSound ==
    ASSUME GNSInvariant, NEW from \in Namers, NEW to \in Namers, NEW id \in SubgraphIDs,
           TransferSubgraph(from, to, id)
    PROVE  StepSound
<1>1. GNSTyped
  BY DEF GNSInvariant
<1>2. /\ owners' = [owners EXCEPT ![id] = to]
      /\ UNCHANGED curationVars
      /\ UNCHANGED <<subgraphs, legacySubgraphData, legacySubgraphKeys, nextAccountSeqID>>
      /\ ownerTaxPercentage' \in 0 .. MAX_PPM
  BY <1>1 DEF TransferSubgraph, recordVars, GNSTyped
<1>3. /\ owners' \in [SubgraphIDs -> Namers \cup {NoOwner}]
      /\ \A j \in SubgraphIDs : owners[j] \in Namers => owners'[j] \in Namers
  BY <1>1, <1>2 DEF GNSTyped
<1>. QED
  BY <1>2, <1>3, PoolsAndRecordsUntouchedSound

LEMMA SetOwnerTaxPercentageSound ==
    ASSUME GNSInvariant, NEW p \in OwnerTaxChoices, SetOwnerTaxPercentage(p)
    PROVE  StepSound
<1>1. GNSTyped
  BY DEF GNSInvariant
<1>2. p \in 0 .. MAX_PPM
  BY GNSAssumption, MaxPPM DEF SetOwnerTaxPercentage, AcceptsOwnerTax
<1>3. /\ UNCHANGED curationVars
      /\ UNCHANGED <<subgraphs, legacySubgraphData, legacySubgraphKeys, nextAccountSeqID>>
      /\ ownerTaxPercentage' \in 0 .. MAX_PPM
      /\ owners' \in [SubgraphIDs -> Namers \cup {NoOwner}]
      /\ \A j \in SubgraphIDs : owners[j] \in Namers => owners'[j] \in Namers
  BY <1>1, <1>2 DEF SetOwnerTaxPercentage, recordVars, GNSTyped
<1>. QED
  BY <1>3, PoolsAndRecordsUntouchedSound

\* Whatever others do in the pools, the contract has no less than before.
LEMMA OthersLeaveTheContractAlone ==
    ASSUME GNSInvariant, DirectSteps \/ FeeSteps \/ SettingSteps
    PROVE  /\ \A s \in Subgraphs : curationLedger'.signal[s][GNSAddress]
                                      >= curationLedger.signal[s][GNSAddress]
           /\ curationLedger'.grt[GNSAddress] >= curationLedger.grt[GNSAddress]
<1>. DEFINE Kept(k) == /\ \A s \in Subgraphs : k.signal[s][GNSAddress]
                                                  >= curationLedger.signal[s][GNSAddress]
                       /\ k.grt[GNSAddress] >= curationLedger.grt[GNSAddress]
<1>1. /\ GNSAddress \in Curators
      /\ DraftSound(curationLedger) /\ OnCurve(curationLedger)
      /\ curationParams \in CurationParams
      /\ \A s \in Subgraphs : curationLedger.signal[s][GNSAddress] \in Nat
      /\ curationLedger.grt[GNSAddress] \in Int
  BY PoolsSound
<1>2. PICK pools \in [Subgraphs -> CurationPool], grt \in [CurationHolders -> Int],
           signal \in [Subgraphs -> [Curators -> Nat]] :
              curationLedger = [pools |-> pools, signal |-> signal, grt |-> grt]
  BY <1>1, LedgerParts DEF DraftSound
<1>3. ASSUME NEW c \in DirectCurators PROVE c \in Curators /\ c # GNSAddress
  BY GNSAssumption, NamersFinite
<1>4. ASSUME NEW c \in DirectCurators, NEW s \in Subgraphs, NEW t \in SignalDeposits,
             NEW m \in SlippageBounds, Mint(c, s, t, m)
      PROVE  Kept(curationLedger')
  <2>1. PICK x \in SignalsMinted(s, t) :
           CommitCuration(Signalled(curationLedger, c, s, t, x))
    BY <1>4 DEF Mint
  <2>. DEFINE k == Signalled(curationLedger, c, s, t, x)
  <2>2. /\ DraftSound(curationLedger) /\ curationParams \in CurationParams
        /\ OnCurve(curationLedger) /\ c \in Curators /\ t \in Nat
    BY <1>1, <1>3, CurationAssumption
  <2>3. /\ \A r \in Subgraphs, h \in Curators :
              k.signal[r][h] = curationLedger.signal[r][h] + IF r = s /\ h = c THEN x ELSE 0
        /\ \A h \in Curators :
              k.grt[h] = curationLedger.grt[h] + IF h = c THEN -t ELSE 0
    BY <2>2, SignalBought
  <2>4. curationLedger' = k
    BY <2>1 DEF CommitCuration
  <2>. HIDE DEF k
  <2>. QED
    BY <1>1, <1>3, <2>3, <2>4
<1>5. ASSUME NEW c \in DirectCurators, NEW s \in Subgraphs, NEW n \in SignalAmounts,
             NEW m \in SlippageBounds, Burn(c, s, n, m)
      PROVE  Kept(curationLedger')
  <2>1. PICK tokens \in TokensReturned(c, s, n) :
           CommitCuration(Unsignalled(c, s, n, tokens))
    BY <1>5 DEF Burn
  <2>. DEFINE k == Unsignalled(c, s, n, tokens)
  <2>2. DraftSound(curationLedger) /\ c \in Curators /\ n \in Nat
    BY <1>1, <1>3, CurationAssumption
  <2>3. /\ \A r \in Subgraphs, h \in Curators :
              k.signal[r][h] = curationLedger.signal[r][h] + IF r = s /\ h = c THEN -n ELSE 0
        /\ \A h \in Curators :
              k.grt[h] = curationLedger.grt[h] + IF h = c THEN tokens ELSE 0
    BY <2>2, SignalSold
  <2>4. curationLedger' = k
    BY <2>1 DEF CommitCuration
  <2>. HIDE DEF k
  <2>. QED
    BY <1>1, <1>3, <2>3, <2>4
<1>6. ASSUME NEW c \in DirectCurators, NEW s \in Subgraphs, NEW n \in SignalAmounts,
             TransferSignal(c, GNSAddress, s, n)
      PROVE  Kept(curationLedger')
  <2>. DEFINE h == Transferred(curationLedger.signal[s], c, GNSAddress, n)
  <2>1. curationLedger' = SetSignal(curationLedger, s, h)
    BY <1>6, Zenon DEF TransferSignal, CommitCuration, SetSignal, Transferred
  <2>2. h[GNSAddress] = curationLedger.signal[s][GNSAddress] + n /\ n \in Nat
    <3>1. curationLedger.signal[s] \in [Curators -> Nat]
      BY <1>1 DEF DraftSound, CurationDraft
    <3>. QED
      BY <1>1, <1>3, <3>1, CurationAssumption DEF Transferred
  <2>. HIDE DEF h
  <2>. DEFINE new == [signal EXCEPT ![s] = h]
  <2>3. /\ new[s] = h
        /\ \A r \in Subgraphs \ {s} : new[r] = signal[r]
    OBVIOUS
  <2>. HIDE DEF new
  <2>4. SetSignal(curationLedger, s, h) = [pools |-> pools, signal |-> new, grt |-> grt]
    <3>1. SetSignal([pools |-> pools, signal |-> signal, grt |-> grt], s, h)
             = [pools |-> pools, signal |-> [signal EXCEPT ![s] = h], grt |-> grt]
      BY SetSignalIs
    <3>. QED
      BY <1>2, <3>1, Zenon DEF new
  <2>5. /\ curationLedger'.signal = new /\ curationLedger'.grt = curationLedger.grt
        /\ curationLedger.signal = signal
    BY <1>2, <2>1, <2>4
  <2>. QED
    BY <1>1, <2>2, <2>3, <2>5
<1>7. ASSUME NEW s \in Subgraphs, NEW t \in CurationFeeAmounts, CollectCurationFees(s, t)
      PROVE  Kept(curationLedger')
  <2>1. /\ curationLedger'.signal = curationLedger.signal
        /\ \A h \in Curators : curationLedger'.grt[h] = curationLedger.grt[h]
    <3>1. curationLedger' = FeesCollected(s, t)
      BY <1>7 DEF CollectCurationFees, CommitCuration
    <3>2. CurationAddress \notin Curators
      BY CurationAssumption
    <3>. QED
      BY <1>2, <3>1, <3>2 DEF FeesCollected, CurationHolders
  <2>. QED
    BY <1>1, <2>1
<1>8. ASSUME NEW x \in CurationSettings, NEW v \in CurationSettingChoices[x],
             SetCurationParameter(x, v)
      PROVE  Kept(curationLedger')
  <2>1. curationLedger' = curationLedger
    BY <1>8 DEF SetCurationParameter
  <2>. QED
    BY <1>1, <2>1
<1>9. Kept(curationLedger')
  BY <1>4, <1>5, <1>6, <1>7, <1>8 DEF DirectSteps, FeeSteps, SettingSteps
<1>. QED
  BY <1>9

LEMMA OthersSound ==
    ASSUME GNSInvariant, UNCHANGED <<pauses, gnsVars>>, DirectSteps \/ FeeSteps \/ SettingSteps
    PROVE  StepSound
<1>1. CurationNext
  <2>1. DirectCurators \subseteq Curators /\ GNSAddress \in Curators
    BY GNSAssumption, NamersFinite
  <2>2. DirectSteps => MintSteps \/ BurnSteps \/ TransferSteps
    BY <2>1 DEF DirectSteps, MintSteps, BurnSteps, TransferSteps
  <2>. QED
    BY <2>2 DEF CurationNext
<1>2. CurationInvariant' /\ \A r \in Subgraphs : KeepsCurve(curationLedger', r)
  <2>1. CurationInvariant /\ [CurationNext]_<<curationVars, pauses>>
    BY <1>1, PoolsSound
  <2>. QED
    BY <2>1, CurationStepKeeps
<1>3. /\ \A s \in Subgraphs : curationLedger'.signal[s][GNSAddress]
                                 >= curationLedger.signal[s][GNSAddress]
      /\ curationLedger'.grt[GNSAddress] >= curationLedger.grt[GNSAddress]
  BY OthersLeaveTheContractAlone
<1>4. /\ UNCHANGED <<subgraphs, legacySubgraphData, legacySubgraphKeys, nextAccountSeqID>>
      /\ ownerTaxPercentage' \in 0 .. MAX_PPM
      /\ owners' \in [SubgraphIDs -> Namers \cup {NoOwner}]
      /\ \A j \in SubgraphIDs : owners[j] \in Namers => owners'[j] \in Namers
  BY DEF gnsVars, GNSInvariant, GNSTyped
<1>. QED
  BY <1>2, <1>3, <1>4, RecordsUntouchedSound

-----------------------------------------------------------------------------
(* The invariant *)

\* The first sequence ID of an account that is free is as high as the number of
\* its subgraphs of version 1.
LEMMA LegacyIDsAreUsed ==
    ASSUME NEW id \in DOMAIN LegacyDeployments
    PROVE  id[2] < Cardinality({j \in DOMAIN LegacyDeployments : j[1] = id[1]})
<1>. DEFINE T == {j \in DOMAIN LegacyDeployments : j[1] = id[1]}
            S == 0 .. id[2]
            f == [n \in S |-> <<id[1], n>>]
<1>1. id[2] \in Nat
  BY LegacyIDs, GNSAssumption DEF SubgraphIDs
<1>2. IsFiniteSet(T) /\ Cardinality(T) \in Nat
  <2>1. T \in SUBSET SubgraphIDs
    BY LegacyIDs
  <2>2. IsFiniteSet(T)
    BY <2>1, FS_Subset, SubgraphIDsFinite
  <2>. QED
    BY <2>2, FS_CardinalityType
<1>3. IsFiniteSet(S) /\ Cardinality(S) = id[2] + 1
  <2>1. 0 \in Int /\ id[2] \in Int
    BY <1>1
  <2>2. /\ IsFiniteSet(0 .. id[2])
        /\ Cardinality(0 .. id[2]) = IF 0 > id[2] THEN 0 ELSE id[2] - 0 + 1
    BY <2>1, FS_Interval
  <2>. QED
    BY <1>1, <2>2
<1>4. f \in [S -> T]
  BY GNSAssumption
<1>5. \A x, y \in S : x # y => f[x] # f[y]
  OBVIOUS
<1>. HIDE DEF T, S, f
<1>6. ~(Cardinality(T) < Cardinality(S))
  BY <1>2, <1>3, <1>4, <1>5, FS_PigeonHole
<1>. QED
  BY <1>1, <1>2, <1>3, <1>6 DEF T

\* The invariant holds initially.
LEMMA GNSInitially == GNSInit => GNSInvariant
<1>. SUFFICES ASSUME GNSInit PROVE GNSInvariant
  OBVIOUS
<1>1. /\ CurationAlone
      /\ subgraphs = [id \in SubgraphIDs |-> NewSubgraph(NoDeployment)]
      /\ legacySubgraphData = [id \in DOMAIN LegacyDeployments |->
                                  NewSubgraph(LegacyDeployments[id])]
      /\ legacySubgraphKeys = {}
      /\ nextAccountSeqID = [a \in Publishers |->
                                Cardinality({id \in DOMAIN LegacyDeployments : id[1] = a})]
      /\ owners = [id \in SubgraphIDs |-> NoOwner]
      /\ ownerTaxPercentage = InitialOwnerTaxPercentage
  BY DEF GNSInit
<1>2. CurationInvariant
  BY <1>1, CurationInitially
<1>3. ASSUME NEW id \in SubgraphIDs PROVE Data(id) = NewSubgraph(NoDeployment)
  BY <1>1 DEF Data
<1>4. \A s \in Subgraphs \cup {NoDeployment} :
         /\ RecordSound(NewSubgraph(s)) /\ NewSubgraph(s) \in SubgraphData
         /\ NewSubgraph(s).subgraphDeploymentID = s
         /\ NewSubgraph(s).withdrawableGRT = 0
         /\ \A r : Claim(NewSubgraph(s), r) = 0
  BY NewSubgraphSound DEF RecordSound
<1>5. GNSTyped
  <2>1. \A a \in Publishers :
           Cardinality({id \in DOMAIN LegacyDeployments : id[1] = a}) \in Nat
    <3>1. ASSUME NEW a \in Publishers
          PROVE  Cardinality({id \in DOMAIN LegacyDeployments : id[1] = a}) \in Nat
      <4>. DEFINE T == {id \in DOMAIN LegacyDeployments : id[1] = a}
      <4>1. T \in SUBSET SubgraphIDs
        BY LegacyIDs
      <4>. HIDE DEF T
      <4>2. IsFiniteSet(T)
        BY <4>1, FS_Subset, SubgraphIDsFinite
      <4>3. Cardinality(T) \in Nat
        BY <4>2, FS_CardinalityType
      <4>. QED
        BY <4>3 DEF T
    <3>. QED
      BY <3>1
  <2>2. nextAccountSeqID \in [Publishers -> Nat]
    BY <1>1, <2>1
  <2>3. /\ subgraphs \in [SubgraphIDs -> SubgraphData]
        /\ legacySubgraphData \in [DOMAIN LegacyDeployments -> SubgraphData]
    <3>1. \A id \in DOMAIN LegacyDeployments : LegacyDeployments[id] \in Subgraphs
      BY GNSAssumption
    <3>. QED
      BY <1>1, <1>4, <3>1
  <2>4. ownerTaxPercentage \in 0 .. MAX_PPM
    BY <1>1, GNSAssumption, MaxPPM DEF AcceptsOwnerTax
  <2>. QED
    BY <1>1, <2>2, <2>3, <2>4 DEF GNSTyped
<1>6. RecordsSound
  <2>1. NoDeployment \in Subgraphs \cup {NoDeployment}
    OBVIOUS
  <2>2. ~Published(NewSubgraph(NoDeployment)) /\ RecordSound(NewSubgraph(NoDeployment))
    BY <1>4, <2>1 DEF Published
  <2>. QED
    BY <1>3, <2>2 DEF RecordsSound
<1>7. LegacyUntouched
  BY <1>1 DEF LegacyUntouched
<1>8. IDsUnused
  <2>1. ASSUME NEW id \in SubgraphIDs, id[2] >= nextAccountSeqID[id[1]]
        PROVE  /\ id \notin DOMAIN LegacyDeployments
               /\ Data(id).subgraphDeploymentID = NoDeployment
    <3>1. NewSubgraph(NoDeployment).subgraphDeploymentID = NoDeployment
      BY <1>4
    <3>2. ASSUME id \in DOMAIN LegacyDeployments PROVE FALSE
      <4>1. id[1] \in Publishers /\ id[2] \in Nat
        BY GNSAssumption DEF SubgraphIDs
      <4>2. id[2] < nextAccountSeqID[id[1]]
        <5>1. nextAccountSeqID[id[1]]
                 = Cardinality({j \in DOMAIN LegacyDeployments : j[1] = id[1]})
          BY <1>1, <4>1
        <5>. QED
          BY <3>2, <5>1, LegacyIDsAreUsed
      <4>3. nextAccountSeqID[id[1]] \in Nat
        BY <1>5, <4>1 DEF GNSTyped
      <4>. QED
        BY <2>1, <4>1, <4>2, <4>3
    <3>. QED
      BY <1>3, <3>1, <3>2
  <2>. QED
    BY <2>1 DEF IDsUnused
<1>9. SignalHeld
  <2>1. /\ \A id \in SubgraphIDs, s \in Subgraphs : Claim(Data(id), s) = 0
        /\ \A id \in SubgraphIDs : Data(id).withdrawableGRT = 0
    <3>1. NoDeployment \in Subgraphs \cup {NoDeployment}
      OBVIOUS
    <3>2. /\ \A s : Claim(NewSubgraph(NoDeployment), s) = 0
          /\ NewSubgraph(NoDeployment).withdrawableGRT = 0
      BY <1>4, <3>1
    <3>. QED
      BY <1>3, <3>2
  <2>2. /\ \A s \in Subgraphs : curationLedger.signal[s][GNSAddress] >= 0
        /\ curationLedger.grt[GNSAddress] >= 0
    <3>1. GNSAddress \in Curators /\ GNSAddress \in CurationHolders
      BY GNSAssumption DEF CurationHolders
    <3>. QED
      BY <1>2, <3>1 DEF CurationInvariant, DraftSound, CurationDraft, Settled
  <2>3. ASSUME NEW f, DOMAIN f = SubgraphIDs, \A id \in SubgraphIDs : f[id] = 0
        PROVE  SumFunction(f) = 0
    <3>1. SumFunctionOnSet(f, SubgraphIDs) = 0
      BY <2>3, SumOfZeros, SubgraphIDsFinite
    <3>. QED
      BY <2>3, <3>1, Zenon DEF SumFunction
  <2>4. ASSUME NEW s \in Subgraphs
        PROVE  SumFunction([id \in SubgraphIDs |->
                  IF Data(id).subgraphDeploymentID = s THEN Data(id).vSignal ELSE 0])
                  <= curationLedger.signal[s][GNSAddress]
    <3>. DEFINE f == [id \in SubgraphIDs |->
                         IF Data(id).subgraphDeploymentID = s THEN Data(id).vSignal ELSE 0]
    <3>1. DOMAIN f = SubgraphIDs /\ \A id \in SubgraphIDs : f[id] = 0
      BY <2>1 DEF Claim
    <3>. HIDE DEF f
    <3>2. SumFunction(f) = 0
      BY <2>3, <3>1
    <3>3. SumFunction(f) <= curationLedger.signal[s][GNSAddress]
      BY <1>2, <2>2, <3>2
    <3>. QED
      BY <3>3 DEF f
  <2>5. SumFunction([id \in SubgraphIDs |-> Data(id).withdrawableGRT])
           <= curationLedger.grt[GNSAddress]
    <3>. DEFINE f == [id \in SubgraphIDs |-> Data(id).withdrawableGRT]
    <3>1. DOMAIN f = SubgraphIDs /\ \A id \in SubgraphIDs : f[id] = 0
      BY <2>1
    <3>. HIDE DEF f
    <3>2. SumFunction(f) = 0
      BY <2>3, <3>1
    <3>3. SumFunction(f) <= curationLedger.grt[GNSAddress]
      BY <2>2, <3>2
    <3>. QED
      BY <3>3 DEF f
  <2>. QED
    BY <2>4, <2>5 DEF SignalHeld
<1>. QED
  BY <1>2, <1>5, <1>6, <1>7, <1>8, <1>9 DEF GNSInvariant

\* Every step keeps it, and does right by the curators of every subgraph.
LEMMA GNSStepSound ==
    ASSUME GNSInvariant, [GNSNext]_<<curationVars, pauses, gnsVars>>
    PROVE  StepSound
<1>1. CASE PublishSteps
  BY <1>1, PublishNewSubgraphSound DEF PublishSteps
<1>2. CASE OwnerSteps
  BY <1>2, PublishNewVersionSound, DeprecateSubgraphSound, TransferSubgraphSound
  DEF OwnerSteps
<1>3. CASE MigrationSteps
  BY <1>3, MigrateLegacySubgraphSound DEF MigrationSteps
<1>4. CASE NameSteps
  BY <1>4, MintSignalSound, BurnSignalSound, WithdrawGRTSound DEF NameSteps
<1>5. CASE OwnerTaxSteps
  BY <1>5, SetOwnerTaxPercentageSound DEF OwnerTaxSteps
<1>6. CASE UNCHANGED <<pauses, gnsVars>> /\ (DirectSteps \/ FeeSteps \/ SettingSteps)
  BY <1>6, OthersSound
<1>7. CASE UNCHANGED <<curationVars, gnsVars>>
  <2>1. /\ UNCHANGED curationVars
        /\ UNCHANGED <<subgraphs, legacySubgraphData, legacySubgraphKeys, nextAccountSeqID>>
        /\ ownerTaxPercentage' \in 0 .. MAX_PPM
        /\ owners' \in [SubgraphIDs -> Namers \cup {NoOwner}]
        /\ \A j \in SubgraphIDs : owners[j] \in Namers => owners'[j] \in Namers
    BY <1>7 DEF gnsVars, GNSInvariant, GNSTyped
  <2>. QED
    BY <2>1, PoolsAndRecordsUntouchedSound
<1>. QED
  BY <1>1, <1>2, <1>3, <1>4, <1>5, <1>6, <1>7 DEF GNSNext

LEMMA GNSInvariantHolds == GNSSpec => []GNSInvariant
<1>1. GNSInvariant /\ [GNSNext]_<<curationVars, pauses, gnsVars>> => GNSInvariant'
  BY GNSStepSound DEF StepSound
<1>. QED
  BY <1>1, GNSInitially, PTL DEF GNSSpec

-----------------------------------------------------------------------------
(* What the contract promises *)

\* However many subgraphs point to a deployment, and whoever moves, deprecates or
\* leaves them, the contract holds the signal and the GRT their records stand for.
THEOREM SubgraphSignalIsHeld == GNSSpec => []SignalHeld
<1>1. GNSInvariant => SignalHeld
  BY DEF GNSInvariant
<1>. QED
  BY <1>1, GNSInvariantHolds, PTL

\* The name signal of every subgraph is that of its curators, and stands for signal
\* while the subgraph is published, which then has an owner.
THEOREM NameSignalIsOwned == GNSSpec => []NameSignalAddsUp
<1>1. ASSUME GNSInvariant PROVE NameSignalAddsUp
  <2>1. ASSUME NEW id \in SubgraphIDs
        PROVE  /\ Data(id).nSignal = SumFunction(Data(id).curatorNSignal)
               /\ IsPublished(id) => /\ Data(id).nSignal > 0 <=> Data(id).vSignal > 0
                                     /\ owners[id] # NoOwner
    <3>1. RecordSound(Data(id)) /\ (Published(Data(id)) => owners[id] \in Namers)
      BY <1>1 DEF GNSInvariant, RecordsSound
    <3>2. NoOwner \notin Namers
      BY NamersFinite
    <3>. QED
      BY <3>1, <3>2 DEF RecordSound, Published, IsPublished
  <2>. QED
    BY <2>1 DEF NameSignalAddsUp
<1>. QED
  BY <1>1, GNSInvariantHolds, PTL

\* No step of anyone takes from the shares of those who stay in a subgraph, rounds
\* at their expense, or buys its new signal behind somebody else.
THEOREM SharesAreKept == GNSSpec => SharesKeepTheirWorth
<1>. DEFINE Body == \A id \in SubgraphIDs :
          LET was == Data(id)
              is  == Data(id)'
              s   == is.subgraphDeploymentID
          IN  /\ (is.nSignal > 0 /\ s = was.subgraphDeploymentID /\ ~is.disabled) =>
                     is.vSignal * was.nSignal >= was.vSignal * is.nSignal
              /\ was.disabled =>
                     /\ is.withdrawableGRT * was.nSignal >= was.withdrawableGRT * is.nSignal
                     /\ is.nSignal = 0 => is.withdrawableGRT = 0
                     /\ is.withdrawableGRT = 0 => is.nSignal = 0 \/ was.withdrawableGRT = 0
              /\ (is.nSignal > 0 /\ s # was.subgraphDeploymentID) =>
                     CurationPoolSignal(curationLedger', s) = is.vSignal
<1>1. GNSInvariant /\ [GNSNext]_<<curationVars, pauses, gnsVars>> => Body
  <2>1. ASSUME GNSInvariant, [GNSNext]_<<curationVars, pauses, gnsVars>>, NEW id \in SubgraphIDs
        PROVE  ShareKept(Data(id), Data(id)')
    BY <2>1, GNSStepSound DEF StepSound
  <2>. QED
    BY <2>1, Zenon DEF ShareKept
<1>2. [][Body]_<<curationVars, pauses, gnsVars>> => SharesKeepTheirWorth
  BY Zenon DEF SharesKeepTheirWorth
<1>. HIDE DEF Body
<1>. QED
  BY <1>1, <1>2, GNSInvariantHolds, PTL DEF GNSSpec

\* The pools below the subgraphs stay what Curation.tla promises: their reserves
\* are there for all the signal, that of the contract among it.
THEOREM SubgraphReservesSound == GNSSpec => []ReservesSound
<1>1. GNSInvariant => ReservesSound
  BY DEF GNSInvariant, CurationInvariant, DraftSound, PoolSound, ReservesSound,
         ReservesHeld, ReserveBacksSignal
<1>. QED
  BY <1>1, GNSInvariantHolds, PTL

\* A new version, which sells and buys signal in one transaction, is no way round
\* the curve, and neither is any other operation on a subgraph.
THEOREM SubgraphsBeatNoCurve == GNSSpec => NobodyBeatsTheCurve
<1>. DEFINE Body == \A s \in Subgraphs :
                LET pool  == curationLedger'.pools[s]
                    k     == Steepness(pool.reserveRatio)
                    first == ~IsCurated(s)
                    from  == IF first THEN StartOfCurve(curationParams)
                             ELSE PointOnCurve(curationLedger, s)
                    to    == PointOnCurve(curationLedger', s)
                IN  to.supply > 0 =>
                       /\ to.tokens * Power(from.supply, k) >= from.tokens * Power(to.supply, k)
                       /\ first \/ pool.reserveRatio = curationLedger.pools[s].reserveRatio
<1>1. GNSInvariant /\ [GNSNext]_<<curationVars, pauses, gnsVars>> => Body
  <2>1. ASSUME GNSInvariant, [GNSNext]_<<curationVars, pauses, gnsVars>>, NEW s \in Subgraphs
        PROVE  KeepsCurve(curationLedger', s)
    BY <2>1, GNSStepSound DEF StepSound
  <2>. QED
    BY <2>1, Zenon DEF KeepsCurve
<1>2. [][Body]_<<curationVars, pauses>> => NobodyBeatsTheCurve
  BY Zenon DEF NobodyBeatsTheCurve
<1>. HIDE DEF Body
<1>. QED
  BY <1>1, <1>2, GNSInvariantHolds, PTL DEF GNSSpec
=============================================================================
