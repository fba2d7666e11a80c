------------------------- MODULE CurationProperties -------------------------
(***************************************************************************)
(* What Curation.tla promises to the curators of a pool: their tokens are  *)
(* there, nobody beats the curve, and the way out is open.                 *)
(***************************************************************************)
EXTENDS Curation

\* The contract holds what its pools record, to the token: taxes, curation fees
\* and the pool that the last signal closes leave nothing over and nothing owed.
ReservesHeld ==
    curationLedger.grt[CurationAddress] =
        SumFunction([s \in Subgraphs |-> curationLedger.pools[s].tokens])

\* A pool has a reserve, and a curve, exactly while someone holds signal.  A
\* reserve without signal could never be bought into or paid out, and signal
\* without a reserve would be diluted by the next first deposit, which is priced
\* as if there were none (Curation.sol:383).
ReserveBacksSignal ==
    \A s \in Subgraphs :
        LET pool == curationLedger.pools[s]
        IN  /\ pool.tokens > 0 <=> CurationPoolSignal(curationLedger, s) > 0
            /\ pool.tokens > 0 <=> pool.reserveRatio > 0

\* What curators deposited is there, for the signal they hold.
ReservesSound == ReservesHeld /\ ReserveBacksSignal

\* The reserve a curve starts from, for the signal of the minimum deposit.
StartOfCurve(p) == [tokens |-> p["minimumCurationDeposit"],
                    supply |-> SignalPerMinimumDeposit]

PointOnCurve(c, s) == [tokens |-> c.pools[s].tokens, supply |-> CurationPoolSignal(c, s)]

\* No deposit, withdrawal, transfer or fee moves a pool below its curve: who
\* mints and burns, in any order, in parts and with others in between, gets no
\* more than the curve gives, and a pool keeps its ratio while it has signal.
NobodyBeatsTheCurve ==
    [][\A s \in Subgraphs :
          LET pool  == curationLedger'.pools[s]
              k     == Steepness(pool.reserveRatio)
              first == ~IsCurated(s)
              from  == IF first THEN StartOfCurve(curationParams)
                       ELSE PointOnCurve(curationLedger, s)
              to    == PointOnCurve(curationLedger', s)
          IN  to.supply > 0 =>
                 /\ to.tokens * Power(from.supply, k) >= from.tokens * Power(to.supply, k)
                 /\ first \/ pool.reserveRatio = curationLedger.pools[s].reserveRatio
      ]_<<curationVars, pauses>>

\* Unless the protocol is paused a curator can always burn all the signal it
\* holds: no checked subtraction, and no transfer, stops it.
CuratorsCanLeave ==
    NotPartialPaused =>
        \A c \in Curators, s \in Subgraphs :
            LET owned == curationLedger.signal[s][c]
            IN  owned > 0 => ENABLED Burn(c, s, owned, 0)
=============================================================================
