------------------------------ MODULE Curation ------------------------------
(***************************************************************************)
(* contracts/curation/Curation.sol: curators deposit GRT in the pool of a  *)
(* subgraph deployment for signal, which a bonding curve prices, and burn  *)
(* the signal to get GRT back.  Curation fees that the staking contract    *)
(* collects raise the reserve of the pool without any new signal.          *)
(*                                                                         *)
(* The pools, the balances of their curation tokens (GraphCurationToken)   *)
(* and the GRT of the curators and of the contract are one record.  The    *)
(* calls that mint and burn make to the rewards manager change nothing     *)
(* here; RewardsManager.tla adds them.                                     *)
(***************************************************************************)
EXTENDS TokenMath, Managed, FiniteSetsExt

CONSTANTS
    CurationAddress,          \* the contract's own address
    Curators,                 \* the accounts that signal
    SignalPerMinimumDeposit,  \* SIGNAL_PER_MINIMUM_DEPOSIT, 10^18 in the code
    InitialCuratorGRT,        \* GRT held by each curator
    InitialCurationParams     \* the settings passed to initialize()

\* The inputs tried for each kind of argument; each is a bound of the model.
CONSTANTS
    SignalDeposits,           \* _tokensIn of mint
    SignalAmounts,            \* _signalIn of burn, and of transfers of signal
    SlippageBounds,           \* _signalOutMin and _tokensOutMin
    CurationFeeAmounts,       \* curation fees of a collect()
    MaxCurationGRT,           \* bound: fees never raise the GRT in the model beyond it
    CurationSettingChoices    \* [setting -> values the governor may set]

CurationSettings == {"defaultReserveRatio", "minimumCurationDeposit",
                     "curationTaxPercentage"}

\* The settings the governor's setters, and initialize(), accept.
AcceptsSetting(setting, value) ==
    /\ setting \in {"defaultReserveRatio", "minimumCurationDeposit"} => value > 0
    /\ setting \in {"defaultReserveRatio", "curationTaxPercentage"} => value <= MAX_PPM

CurationParams == {p \in [CurationSettings -> Nat] :
                      \A x \in CurationSettings : AcceptsSetting(x, p[x])}

ASSUME CurationAssumption ==
    /\ CurationAddress \notin Curators
    /\ SignalPerMinimumDeposit \in Nat \ {0}
    /\ InitialCuratorGRT \in [Curators -> Nat]
    /\ InitialCurationParams \in CurationParams
    /\ SignalDeposits \subseteq Nat
    /\ SignalAmounts \subseteq Nat
    /\ SlippageBounds \subseteq Nat
    /\ CurationFeeAmounts \subseteq Nat
    /\ MaxCurationGRT \in Nat
    /\ CurationSettingChoices \in [CurationSettings -> SUBSET Nat]

\* An address has 160 bits and a deployment ID 256.
ASSUME FiniteCurationAssumption == IsFiniteSet(Curators) /\ IsFiniteSet(Subgraphs)

VARIABLES
    curationLedger,           \* the pools and the GRT in and around them
    curationParams            \* the settings under governance

curationVars == <<curationLedger, curationParams>>

-----------------------------------------------------------------------------
(* State *)

\* reserveRatio is that of the bonding curve, in PPM; zero: no curve yet.
CurationPool   == [tokens : Nat, reserveRatio : Nat]
NoCurationPool == [tokens |-> 0, reserveRatio |-> 0]

CurationHolders == Curators \cup {CurationAddress}

CurationState == [pools  : [Subgraphs -> CurationPool],
                  signal : [Subgraphs -> [Curators -> Nat]],
                  grt    : [CurationHolders -> Nat]]

CurationInit ==
    /\ curationLedger =
          [pools  |-> [s \in Subgraphs |-> NoCurationPool],
           signal |-> [s \in Subgraphs |-> [c \in Curators |-> 0]],
           grt    |-> [h \in CurationHolders |->
                         IF h \in Curators THEN InitialCuratorGRT[h] ELSE 0]]
    /\ curationParams = InitialCurationParams

IsCurated(s) == curationLedger.pools[s].tokens > 0

\* gcs.totalSupply()
CurationPoolSignal(c, s) == SumFunction(c.signal[s])

MoveGRT(c, from, to, tokens) ==
    LET debited == [c.grt EXCEPT ![from] = @ - tokens]
    IN  [c EXCEPT !.grt = [debited EXCEPT ![to] = @ + tokens]]

\* The end of a transaction; transfers and burns of more than a balance revert.
CommitCuration(c) == /\ \A h \in CurationHolders : c.grt[h] >= 0
                     /\ curationLedger' = c
                     /\ UNCHANGED curationParams

-----------------------------------------------------------------------------
(* The bonding curve: bancor/BancorFormula.sol *)

(***************************************************************************)
(* With a reserve ratio 1/k the curve keeps reserve / supply^k constant:   *)
(* the exact returns are the largest amounts that do not lower it.  A      *)
(* ratio of 100% is computed exactly; any other as a power truncated in    *)
(* 127-bit fixed point, which may fall short by one unit.                  *)
(***************************************************************************)
Steepness(ratio) == MAX_PPM \div ratio

Power(base, exponent) ==
    LET power[n \in Nat] == IF n = 0 THEN 1 ELSE base * power[n - 1]
    IN  power[exponent]

\* Faulty variant: rounded the other way.
RoundedUp(ratio, exact) == IF ratio = MAX_PPM THEN {exact} ELSE {exact, exact + 1}

Truncated(ratio, exact) == IF ratio = MAX_PPM \/ exact = 0 THEN {exact} ELSE {exact - 1, exact}

\* The results calculatePurchaseReturn may have.
PurchaseReturns(supply, reserve, ratio, deposit) ==
    LET k == Steepness(ratio)
        bought == {x \in 0 .. ((supply * deposit) \div reserve) :
                      Power(supply + x, k) * reserve <= Power(supply, k) * (reserve + deposit)}
    IN  IF supply > 0 THEN Truncated(ratio, Max(bought)) ELSE {}

\* The results calculateSaleReturn may have; the entire supply sells for the
\* entire reserve.
SaleReturns(supply, reserve, ratio, sold) ==
    LET k == Steepness(ratio)
        paid == {x \in 0 .. reserve :
                    Power(supply - sold, k) * reserve <= Power(supply, k) * (reserve - x)}
    IN  IF sold = supply THEN {reserve} ELSE Truncated(ratio, Max(paid))

CurationTax(tokensIn) == Portion(curationParams["curationTaxPercentage"], tokensIn)

\* _tokensToSignal: the first deposit pays the minimum for the first signal and
\* buys more along the curve with the rest; it reverts below the minimum.
TokensToSignal(s, tokensIn) ==
    LET pool    == curationLedger.pools[s]
        minimum == curationParams["minimumCurationDeposit"]
    IN  CASE pool.tokens > 0 ->
               PurchaseReturns(CurationPoolSignal(curationLedger, s), pool.tokens,
                               pool.reserveRatio, tokensIn)
          [] pool.tokens = 0 /\ tokensIn >= minimum ->
               {SignalPerMinimumDeposit + x :
                   x \in PurchaseReturns(SignalPerMinimumDeposit, minimum,
                                         curationParams["defaultReserveRatio"],
                                         tokensIn - minimum)}
          [] OTHER -> {}

\* signalToTokens: reverts unless the deployment is curated.
SignalToTokens(s, signalIn) ==
    LET pool   == curationLedger.pools[s]
        supply == CurationPoolSignal(curationLedger, s)
    IN  IF pool.tokens > 0 /\ supply >= signalIn
        THEN SaleReturns(supply, pool.tokens, pool.reserveRatio, signalIn)
        ELSE {}

-----------------------------------------------------------------------------
(* Curators *)

\* The deposit less the tax, which is burned, enters the pool.  A pool without
\* reserve starts with the ratio of the day.
Signalled(c, curator, s, tokensIn, signalOut) ==
    LET pulled == MoveGRT(c, curator, CurationAddress, tokensIn)
        pool   == c.pools[s]
        tax    == CurationTax(tokensIn)
    IN  [pulled EXCEPT
            !.grt[CurationAddress] = @ - tax,
            !.pools[s] = [tokens       |-> pool.tokens + tokensIn - tax,
                          reserveRatio |-> IF IsCurated(s) THEN pool.reserveRatio
                                           ELSE curationParams["defaultReserveRatio"]],
            !.signal[s][curator] = @ + signalOut]

\* The signal mint() may give, to anyone, for a deposit; none: it reverts.
SignalsMinted(s, tokensIn) ==
    IF NotPartialPaused /\ tokensIn > 0
    THEN TokensToSignal(s, tokensIn - CurationTax(tokensIn))
    ELSE {}

Mint(curator, s, tokensIn, signalOutMin) ==
    \E signalOut \in SignalsMinted(s, tokensIn) :
        /\ signalOut >= signalOutMin
        /\ CommitCuration(Signalled(curationLedger, curator, s, tokensIn, signalOut))

\* Faulty variant: the pool is closed when its reserve is down to the minimum.
UnsignalledClosing(curator, s, signalIn, tokensOut) ==
    LET pool   == [curationLedger.pools[s] EXCEPT !.tokens = @ - tokensOut]
        left   == pool.tokens - curationParams["minimumCurationDeposit"]
        burned == [curationLedger EXCEPT
                      !.signal[s][curator] = @ - signalIn,
                      !.pools[s] = IF left <= 0 THEN NoCurationPool ELSE pool]
    IN  MoveGRT(burned, CurationAddress, curator, tokensOut)

\* The last signal takes the curve along, not only the reserve.
Unsignalled(curator, s, signalIn, tokensOut) ==
    LET pool   == [curationLedger.pools[s] EXCEPT !.tokens = @ - tokensOut]
        burned == [curationLedger EXCEPT !.signal[s][curator] = @ - signalIn]
        closed == CurationPoolSignal(burned, s) = 0
    IN  MoveGRT([burned EXCEPT !.pools[s] = IF closed THEN NoCurationPool ELSE pool],
                CurationAddress, curator, tokensOut)

\* The tokens burn() may pay a curator for signal; none: it reverts.
TokensReturned(curator, s, signalIn) ==
    IF /\ NotPartialPaused
       /\ signalIn > 0
       /\ curationLedger.signal[s][curator] >= signalIn
    THEN {x \in SignalToTokens(s, signalIn) : x <= curationLedger.pools[s].tokens}
    ELSE {}

Burn(curator, s, signalIn, tokensOutMin) ==
    \E tokensOut \in TokensReturned(curator, s, signalIn) :
        /\ tokensOut >= tokensOutMin
        /\ CommitCuration(Unsignalled(curator, s, signalIn, tokensOut))

\* A curation token is an ERC20 token, and not paused.
TransferSignal(from, to, s, signal) ==
    /\ curationLedger.signal[s][from] >= signal
    /\ LET debited == [curationLedger.signal[s] EXCEPT ![from] = @ - signal]
       IN  CommitCuration([curationLedger EXCEPT
              !.signal[s] = [debited EXCEPT ![to] = @ + signal]])

-----------------------------------------------------------------------------
(* Curation fees and governance *)

\* Faulty variant: without the check that someone holds signal of the pool.
CanCollectAlways(s) == TRUE

CanCollect(s) == IsCurated(s)

\* The staking contract pushes the fees and calls collect(), which is never paused.
FeesCollected(s, tokens) ==
    [curationLedger EXCEPT !.grt[CurationAddress] = @ + tokens,
                     !.pools[s].tokens = @ + tokens]

CollectCurationFees(s, tokens) ==
    /\ CanCollect(s)
    /\ tokens > 0
    /\ CommitCuration(FeesCollected(s, tokens))

\* setDefaultReserveRatio, setMinimumCurationDeposit, setCurationTaxPercentage
SetCurationParameter(setting, value) ==
    /\ AcceptsSetting(setting, value)
    /\ curationParams' = [curationParams EXCEPT ![setting] = value]
    /\ UNCHANGED curationLedger

-----------------------------------------------------------------------------
(* Next-state relation *)

MintSteps == \E c \in Curators, s \in Subgraphs, t \in SignalDeposits, m \in SlippageBounds :
                 Mint(c, s, t, m)
BurnSteps == \E c \in Curators, s \in Subgraphs, n \in SignalAmounts, m \in SlippageBounds :
                 Burn(c, s, n, m)
TransferSteps == \E from, to \in Curators, s \in Subgraphs, n \in SignalAmounts :
                     TransferSignal(from, to, s, n)
FeeSteps == \E s \in Subgraphs, t \in CurationFeeAmounts :
                /\ SumFunction(curationLedger.grt) + t <= MaxCurationGRT
                /\ CollectCurationFees(s, t)
SettingSteps == \E x \in CurationSettings :
                    \E v \in CurationSettingChoices[x] : SetCurationParameter(x, v)

CurationNext ==
    \/ /\ UNCHANGED pauses
       /\ MintSteps \/ BurnSteps \/ TransferSteps \/ FeeSteps \/ SettingSteps
    \/ SwitchPause /\ UNCHANGED curationVars

CurationAlone == /\ CurationInit
                 /\ paused = FALSE
                 /\ partialPaused = FALSE

CurationSpec == CurationAlone /\ [][CurationNext]_<<curationVars, pauses>>
=============================================================================
