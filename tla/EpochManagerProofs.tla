------------------------- MODULE EpochManagerProofs -------------------------
(***************************************************************************)
(* Proofs about EpochManager.tla for any epoch lengths and any number of   *)
(* blocks.  The arithmetic is that of one truncating division, by a length *)
(* that the governor changes; the invariant adds to the types that an      *)
(* epoch takes a block at least, so that the epochs cannot overtake the    *)
(* blocks.                                                                 *)
(***************************************************************************)
EXTENDS EpochManager, TLAPS

LEMMA QuotientBounds ==
    ASSUME NEW a \in Nat, NEW b \in Nat \ {0}
    PROVE  /\ a \div b \in 0 .. a
           /\ (a \div b) * b <= a
           /\ a < (a \div b) * b + b
OBVIOUS

\* One more block ends one epoch at most.
LEMMA NextQuotient ==
    ASSUME NEW a \in Nat, NEW b \in Nat \ {0}
    PROVE  (a + 1) \div b \in {a \div b, (a \div b) + 1}
<1>. DEFINE p == a \div b
            q == (a + 1) \div b
<1>1. p \in Nat /\ p * b <= a /\ a < p * b + b
  BY QuotientBounds
<1>2. q \in Nat /\ q * b <= a + 1 /\ a + 1 < q * b + b
  BY QuotientBounds
<1>. HIDE DEF p, q
<1>3. p < q + 1
  <2>1. p * b < (q + 1) * b
    BY <1>1, <1>2
  <2>. QED
    BY <1>1, <1>2, <2>1
<1>4. q < p + 2
  <2>1. q * b < (p + 2) * b
    BY <1>1, <1>2
  <2>. QED
    BY <1>1, <1>2, <2>1
<1>. QED
  BY <1>1, <1>2, <1>3, <1>4 DEF p, q

LEMMA WithinBound ==
    ASSUME NEW n \in Nat \ {0}, NEW bound \in Nat, n <= bound, NEW e \in 0 .. n - 1
    PROVE  e \in Nat /\ e <= bound /\ n \in 1 .. bound
OBVIOUS

IInv == /\ TypeOK
        /\ block <= MaxBlock
        /\ lastLengthUpdateEpoch < lastLengthUpdateBlock
        /\ CurrentEpoch \in 0 .. block - 1
        /\ NoRunAhead

\* The epoch and its first block, in terms of the blocks since the last change.
LEMMA EpochBounds ==
    ASSUME TypeOK, lastLengthUpdateEpoch < lastLengthUpdateBlock
    PROVE  /\ EpochsSinceUpdate \in Nat
           /\ CurrentEpoch \in Nat /\ CurrentEpoch < block
           /\ CurrentEpochBlock \in lastLengthUpdateBlock .. block
           /\ CurrentEpoch < CurrentEpochBlock
<1>. DEFINE q == EpochsSinceUpdate
            past == block - lastLengthUpdateBlock
<1>1. past \in Nat /\ epochLength \in Nat \ {0} /\ lastLengthUpdateBlock \in Nat
      /\ lastLengthUpdateEpoch \in Nat /\ block \in Nat
  BY DEF TypeOK
<1>2. q = past \div epochLength
  BY DEF EpochsSinceUpdate
<1>3. q \in 0 .. past /\ q * epochLength <= past
  BY <1>1, <1>2, QuotientBounds
<1>4. q * 1 <= q * epochLength
  BY <1>1, <1>3
<1>5. CurrentEpoch = lastLengthUpdateEpoch + q
      /\ CurrentEpochBlock = lastLengthUpdateBlock + q * epochLength
  BY DEF CurrentEpoch, CurrentEpochBlock
<1>. HIDE DEF q
<1>. QED
  BY <1>1, <1>3, <1>4, <1>5 DEF q

-----------------------------------------------------------------------------
(* The steps *)

\* A block starts the next epoch or none.
LEMMA NextBlockStep ==
    ASSUME IInv, NextBlock
    PROVE  /\ IInv'
           /\ CurrentEpoch' \in {CurrentEpoch, CurrentEpoch + 1}
           /\ CurrentEpochBlock' >= CurrentEpochBlock
           /\ CurrentEpoch' = CurrentEpoch => CurrentEpochBlock' = CurrentEpochBlock
<1>. DEFINE past == block - lastLengthUpdateBlock
            p == past \div epochLength
            q == (past + 1) \div epochLength
<1>1. /\ past \in Nat /\ epochLength \in Nat \ {0} /\ lastLengthUpdateBlock \in Nat
      /\ lastLengthUpdateEpoch \in Nat /\ block \in Nat \ {0} /\ lastRunEpoch \in Nat
  BY DEF IInv, TypeOK
<1>2. /\ block' = block + 1 /\ block' <= MaxBlock
      /\ epochLength' = epochLength /\ lastRunEpoch' = lastRunEpoch
      /\ lastLengthUpdateEpoch' = lastLengthUpdateEpoch
      /\ lastLengthUpdateBlock' = lastLengthUpdateBlock
  BY <1>1, EpochManagerAssumption DEF NextBlock
<1>3. p \in Nat /\ q \in {p, p + 1}
  BY <1>1, NextQuotient, QuotientBounds
<1>4. CurrentEpoch = lastLengthUpdateEpoch + p
      /\ CurrentEpochBlock = lastLengthUpdateBlock + p * epochLength
  BY DEF CurrentEpoch, CurrentEpochBlock, EpochsSinceUpdate
<1>5. CurrentEpoch' = lastLengthUpdateEpoch + q
      /\ CurrentEpochBlock' = lastLengthUpdateBlock + q * epochLength
  <2>1. block' - lastLengthUpdateBlock' = past + 1
    BY <1>1, <1>2
  <2>. QED
    BY <1>2, <2>1 DEF CurrentEpoch, CurrentEpochBlock, EpochsSinceUpdate
<1>. HIDE DEF p, q
<1>6. q * epochLength \in {p * epochLength, p * epochLength + epochLength}
      /\ p * epochLength \in Nat
  BY <1>1, <1>3
<1>7. TypeOK'
  BY <1>1, <1>2 DEF TypeOK, IInv
<1>8. NoRunAhead'
  BY <1>1, <1>2, <1>3, <1>4, <1>5 DEF NoRunAhead, IInv
<1>9. CurrentEpoch' \in 0 .. block' - 1
  BY <1>1, <1>2, <1>3, <1>4, <1>5 DEF IInv
<1>10. IInv'
  BY <1>1, <1>2, <1>7, <1>8, <1>9 DEF IInv
<1>. QED
  BY <1>1, <1>3, <1>4, <1>5, <1>6, <1>10

\* A change of length keeps the running epoch, or ends it.
LEMMA SetEpochLengthStep ==
    ASSUME IInv, NEW length \in Nat, SetEpochLength(length)
    PROVE  /\ IInv'
           /\ CurrentEpoch' \in Nat /\ CurrentEpoch' >= CurrentEpoch
           /\ CurrentEpochBlock' >= CurrentEpochBlock
           /\ CurrentEpoch' = CurrentEpoch => CurrentEpochBlock' = CurrentEpochBlock
<1>. DEFINE e == CurrentEpoch
            b == CurrentEpochBlock
            q == (block - b) \div length
<1>1. /\ TypeOK /\ block \in Nat \ {0} /\ lastRunEpoch \in Nat /\ length \in Nat \ {0}
      /\ e \in Nat /\ b \in 1 .. block /\ e < b
  BY EpochBounds DEF IInv, TypeOK, SetEpochLength
<1>2. /\ lastLengthUpdateEpoch' = e /\ lastLengthUpdateBlock' = b /\ epochLength' = length
      /\ block' = block /\ lastRunEpoch' = lastRunEpoch
  BY DEF SetEpochLength, LengthFromEpochStart
<1>3. q \in 0 .. (block - b) /\ q * length \in Nat /\ (q = 0 => q * length = 0)
  <2>1. block - b \in Nat
    BY <1>1
  <2>. QED
    BY <1>1, <2>1, QuotientBounds
<1>4. CurrentEpoch' = e + q /\ CurrentEpochBlock' = b + q * length
  BY <1>2 DEF CurrentEpoch, CurrentEpochBlock, EpochsSinceUpdate
<1>5. lastRunEpoch <= e
  BY DEF IInv, NoRunAhead
<1>. HIDE DEF e, b, q
<1>6. TypeOK'
  BY <1>1, <1>2 DEF TypeOK
<1>7. NoRunAhead'
  BY <1>1, <1>2, <1>3, <1>4, <1>5 DEF NoRunAhead
<1>8. CurrentEpoch' \in 0 .. block' - 1
  BY <1>1, <1>2, <1>3, <1>4
<1>9. IInv'
  BY <1>1, <1>2, <1>6, <1>7, <1>8 DEF IInv
<1>. QED
  BY <1>1, <1>3, <1>4, <1>9 DEF e, b

\* Running an epoch, or nothing at all, leaves the clock alone.
LEMMA RunEpochStep ==
    ASSUME IInv, RunEpoch \/ UNCHANGED vars
    PROVE  /\ IInv' /\ block' = block
           /\ CurrentEpoch' = CurrentEpoch /\ CurrentEpochBlock' = CurrentEpochBlock
<1>1. /\ block' = block /\ epochLength' = epochLength
      /\ lastLengthUpdateEpoch' = lastLengthUpdateEpoch
      /\ lastLengthUpdateBlock' = lastLengthUpdateBlock
  BY DEF RunEpoch, vars
<1>2. CurrentEpoch' = CurrentEpoch /\ CurrentEpochBlock' = CurrentEpochBlock
  BY <1>1 DEF CurrentEpoch, CurrentEpochBlock, EpochsSinceUpdate
<1>3. CurrentEpoch \in Nat
  BY EpochBounds DEF IInv
<1>4. lastRunEpoch' \in {lastRunEpoch, CurrentEpoch}
  BY DEF RunEpoch, vars
<1>5. TypeOK' /\ NoRunAhead'
  BY <1>1, <1>2, <1>3, <1>4 DEF IInv, TypeOK, NoRunAhead
<1>. QED
  BY <1>1, <1>2, <1>5 DEF IInv

LEMMA InitGood == Init => IInv
<1>. SUFFICES ASSUME Init PROVE IInv
  OBVIOUS
<1>1. TypeOK /\ lastLengthUpdateEpoch < lastLengthUpdateBlock /\ block <= MaxBlock
  BY EpochManagerAssumption DEF Init, TypeOK
<1>2. CurrentEpoch \in 0 .. block - 1
  BY <1>1, EpochBounds DEF TypeOK
<1>. QED
  BY <1>1, <1>2 DEF Init, IInv, NoRunAhead

LEMMA NextGood ==
    ASSUME IInv, [Next]_vars
    PROVE  IInv'
<1>1. \A length \in EpochLengths : length \in Nat
  BY EpochManagerAssumption
<1>. QED
  BY <1>1, NextBlockStep, SetEpochLengthStep, RunEpochStep DEF Next

-----------------------------------------------------------------------------
(* The specification *)

\* The inductive invariant holds in every reachable state of EpochManager.sol.
THEOREM Invariant == Spec => []IInv
BY InitGood, NextGood, PTL DEF Spec

\* The variables keep their types: the epoch length is never zero, so
\* currentEpoch() is always defined, and no change of it lies in the future.
THEOREM TypeCorrect == Spec => []TypeOK
<1>1. IInv => TypeOK
  BY DEF IInv
<1>. QED
  BY <1>1, Invariant, PTL

\* currentEpoch() never falls behind an epoch that was run.
THEOREM NeverRunAhead == Spec => []NoRunAhead
<1>1. IInv => NoRunAhead
  BY DEF IInv
<1>. QED
  BY <1>1, Invariant, PTL

\* The start of the running epoch stays where it is, whatever length the governor
\* sets, until the epoch ends.
THEOREM StartsNeverMove == Spec => StartsStay
<1>1. IInv /\ [Next]_vars =>
         [CurrentEpochBlock' >= CurrentEpochBlock
          /\ (CurrentEpoch' = CurrentEpoch => CurrentEpochBlock' = CurrentEpochBlock)]_vars
  <2>. SUFFICES ASSUME IInv, Next
       PROVE  CurrentEpochBlock' >= CurrentEpochBlock
              /\ (CurrentEpoch' = CurrentEpoch => CurrentEpochBlock' = CurrentEpochBlock)
    OBVIOUS
  <2>1. CurrentEpochBlock \in Nat
    BY EpochBounds DEF IInv, TypeOK
  <2>2. \A length \in EpochLengths : length \in Nat
    BY EpochManagerAssumption
  <2>. QED
    BY <2>1, <2>2, NextBlockStep, SetEpochLengthStep, RunEpochStep DEF Next
<1>. QED
  BY <1>1, Invariant, PTL DEF Spec, StartsStay

\* The epoch manager is the clock that the other contracts rely on: its epochs
\* never go back, a block starts one at most and there are no more than blocks.
THEOREM IsAClock == Spec => ImplementsClock
<1>1. Init => Clock!ClockInit
  <2>. SUFFICES ASSUME Init PROVE Clock!ClockInit
    OBVIOUS
  <2>1. epochLength \in Nat \ {0}
    BY EpochManagerAssumption DEF Init
  <2>2. (block - lastLengthUpdateBlock) \div epochLength = 0
    BY <2>1 DEF Init
  <2>. QED
    BY <2>2 DEF Init, Clock!ClockInit, CurrentEpoch, EpochsSinceUpdate
<1>2. IInv /\ IInv' /\ [Next]_vars => [Clock!Tick \/ Clock!Skip]_(Clock!clock)
  <2>. SUFFICES ASSUME IInv, IInv', [Next]_vars
       PROVE  \/ Clock!Tick \/ Clock!Skip
              \/ block' = block /\ CurrentEpoch' = CurrentEpoch
    BY DEF Clock!clock
  <2>1. /\ CurrentEpoch \in Nat /\ CurrentEpoch' \in Nat
        /\ CurrentEpoch' <= MaxBlock
        /\ block \in Nat \ {0} /\ block' \in 1 .. MaxBlock
    <3>1. CurrentEpoch \in Nat /\ block \in Nat \ {0}
      BY DEF IInv, TypeOK
    <3>2. block' \in Nat \ {0} /\ block' <= MaxBlock /\ MaxBlock \in Nat
      BY EpochManagerAssumption DEF IInv, TypeOK
    <3>3. CurrentEpoch' \in 0 .. block' - 1
      BY DEF IInv
    <3>. QED
      BY <3>1, <3>2, <3>3, WithinBound
  <2>2. CASE NextBlock
    <3>1. block' = block + 1 /\ CurrentEpoch' \in {CurrentEpoch, CurrentEpoch + 1}
      BY <2>2, NextBlockStep DEF NextBlock
    <3>2. Clock!Tick
      BY <2>1, <3>1, EpochManagerAssumption DEF Clock!Tick, Clock!Blocks, Clock!Epochs
    <3>. QED
      BY <3>2
  <2>3. CASE \E length \in EpochLengths : SetEpochLength(length)
    <3>1. block' = block /\ CurrentEpoch' >= CurrentEpoch
      BY <2>3, SetEpochLengthStep, EpochManagerAssumption DEF SetEpochLength
    <3>2. CASE CurrentEpoch' = CurrentEpoch
      BY <3>1, <3>2
    <3>3. CASE CurrentEpoch' # CurrentEpoch
      <4>1. CurrentEpoch' \in (CurrentEpoch + 1) .. MaxBlock
        BY <2>1, <3>1, <3>3, EpochManagerAssumption
      <4>. QED
        BY <3>1, <4>1 DEF Clock!Skip
    <3>. QED
      BY <3>2, <3>3
  <2>4. CASE RunEpoch \/ UNCHANGED vars
    BY <2>4, RunEpochStep
  <2>. QED
    BY <2>2, <2>3, <2>4 DEF Next
<1>. QED
  BY <1>1, <1>2, Invariant, PTL DEF Spec, ImplementsClock, Clock!ClockSpec

\* Whatever lengths the governor sets and whenever epochs are run, the epochs are a
\* clock, keep their first blocks and are run only once they have started.
THEOREM EpochsAreKept == Spec => EpochsKept
BY NeverRunAhead, StartsNeverMove, IsAClock, PTL DEF EpochsKept
=============================================================================
