--------------------------- MODULE CurationProofs ---------------------------
(***************************************************************************)
(* What holds of the curation pools for any curators, deposits, fees,      *)
(* taxes and reserve ratios.                                               *)
(*                                                                         *)
(* The curve is a matter of powers.  What is needed of them, that they     *)
(* grow with the base and stay positive, is shown by the least exponent    *)
(* for which it could fail.  The amounts the curve gives are the largest   *)
(* that do not lower it, so that whatever is minted or burned keeps the    *)
(* pool on its curve or above, and a pool that sells not all of its signal *)
(* keeps a reserve.  Each operation is shown to be a step that moves GRT   *)
(* into one pool or out of it and leaves the pool sound (SoundStep); such  *)
(* steps keep the sum of the reserves, and the two theorems follow.        *)
(***************************************************************************)
EXTENDS CurationProperties, SumProofs

-----------------------------------------------------------------------------
(* Powers *)

\* g holds the first powers of b, up to the exponent n.
IsPowerTable(g, b, n) ==
    /\ g \in [0 .. n -> Nat]
    /\ g[0] = 1
    /\ \A i \in 1 .. n : g[i] = b * g[i - 1]

\* A product of natural numbers is one.
LEMMA ProductNat == \A x, y \in Nat : x * y \in Nat
OBVIOUS

\* There are tables of powers of any length.
LEMMA PowerTableExists ==
    ASSUME NEW b \in Nat, NEW n \in Nat
    PROVE  \E g : IsPowerTable(g, b, n)
<1>. DEFINE Q == {k \in Nat : ~\E g : IsPowerTable(g, b, k)}
<1>1. SUFFICES ASSUME Q # {} PROVE FALSE
  OBVIOUS
<1>2. PICK m \in Q : \A k \in Q : m <= k
  <2>1. Q \in SUBSET Nat
    OBVIOUS
  <2>. HIDE DEF Q
  <2>. QED
    BY <1>1, <2>1, LeastNumber
<1>3. m # 0
  <2>1. IsPowerTable([i \in 0 .. 0 |-> 1], b, 0)
    BY DEF IsPowerTable
  <2>. QED
    BY <2>1
<1>4. m \in Nat /\ m - 1 \in Nat /\ m - 1 \notin Q
  BY <1>2, <1>3
<1>5. PICK g : IsPowerTable(g, b, m - 1)
  BY <1>4
<1>. DEFINE last == b * g[m - 1]
            h == [i \in 0 .. m |-> IF i = m THEN last ELSE g[i]]
<1>6. last \in Nat
  <2>1. g[m - 1] \in Nat
    BY <1>4, <1>5 DEF IsPowerTable
  <2>. QED
    BY <2>1, ProductNat
<1>7. h \in [0 .. m -> Nat]
  <2>1. \A i \in 0 .. m : i # m => i \in 0 .. (m - 1)
    BY <1>4
  <2>. HIDE DEF last
  <2>. QED
    BY <1>5, <1>6, <2>1 DEF IsPowerTable
<1>8. h[0] = 1
  BY <1>3, <1>4, <1>5 DEF IsPowerTable
<1>9. ASSUME NEW i \in 1 .. m PROVE h[i] = b * h[i - 1]
  <2>1. i \in 0 .. m /\ i - 1 \in 0 .. m /\ i - 1 # m
    BY <1>4
  <2>2. h[i - 1] = g[i - 1]
    BY <2>1
  <2>3. CASE i = m
    BY <2>1, <2>2, <2>3
  <2>4. CASE i # m
    <3>1. i \in 1 .. (m - 1) /\ h[i] = g[i]
      BY <1>4, <2>1, <2>4
    <3>. QED
      BY <1>5, <2>2, <3>1 DEF IsPowerTable
  <2>. QED
    BY <2>3, <2>4
<1>. HIDE DEF h
<1>10. IsPowerTable(h, b, m)
  BY <1>7, <1>8, <1>9 DEF IsPowerTable
<1>. QED
  BY <1>2, <1>10

\* They agree where they overlap.
LEMMA PowerTablesAgree ==
    ASSUME NEW b \in Nat, NEW m \in Nat, NEW n \in Nat, m <= n,
           NEW g, IsPowerTable(g, b, m), NEW h, IsPowerTable(h, b, n), NEW i \in 0 .. m
    PROVE  g[i] = h[i]
<1>. DEFINE Q == {k \in 0 .. m : g[k] # h[k]}
<1>1. SUFFICES ASSUME Q # {} PROVE FALSE
  OBVIOUS
<1>2. PICK j \in Q : \A k \in Q : j <= k
  <2>1. Q \in SUBSET Nat
    OBVIOUS
  <2>. HIDE DEF Q
  <2>. QED
    BY <1>1, <2>1, LeastNumber
<1>3. j # 0
  BY <1>2 DEF IsPowerTable
<1>4. j \in 1 .. m /\ j \in 1 .. n /\ j - 1 \in 0 .. m /\ j - 1 \notin Q
  BY <1>2, <1>3
<1>5. g[j] = b * g[j - 1] /\ h[j] = b * h[j - 1]
  BY <1>4 DEF IsPowerTable
<1>. QED
  BY <1>2, <1>4, <1>5

\* A power is what its recursive definition says.
LEMMA PowerIs ==
    ASSUME NEW b \in Nat
    PROVE  /\ Power(b, 0) = 1
           /\ \A n \in Nat : Power(b, n + 1) = b * Power(b, n)
<1>. DEFINE T(n) == CHOOSE g : IsPowerTable(g, b, n)
            F == [n \in Nat |-> T(n)[n]]
            Next(p) == [n \in Nat |-> IF n = 0 THEN 1 ELSE b * p[n - 1]]
            G == CHOOSE p : p = Next(p)
<1>1. \A n \in Nat : IsPowerTable(T(n), b, n)
  BY PowerTableExists
<1>. HIDE DEF T
<1>2. ASSUME NEW n \in Nat PROVE F[n] = IF n = 0 THEN 1 ELSE b * F[n - 1]
  <2>1. CASE n = 0
    BY <1>1, <2>1 DEF IsPowerTable
  <2>2. CASE n # 0
    <3>1. n - 1 \in Nat /\ n - 1 \in 0 .. (n - 1) /\ n \in 1 .. n
      BY <2>2
    <3>2. T(n)[n] = b * T(n)[n - 1]
      BY <1>1, <3>1 DEF IsPowerTable
    <3>3. T(n - 1)[n - 1] = T(n)[n - 1]
      <4>1. n - 1 <= n
        OBVIOUS
      <4>. QED
        BY <1>1, <3>1, <4>1, PowerTablesAgree
    <3>. QED
      BY <2>2, <3>1, <3>2, <3>3
  <2>. QED
    BY <2>1, <2>2
<1>3. F = Next(F)
  <2>1. F = [n \in Nat |-> F[n]]
    OBVIOUS
  <2>. HIDE DEF F
  <2>. QED
    BY <1>2, <2>1
<1>4. G = Next(G)
  <2>. HIDE DEF F, Next
  <2>. QED
    BY <1>3
<1>5. \A n : Power(b, n) = G[n]
  BY DEF Power
<1>. HIDE DEF G
<1>6. G[0] = 1 /\ \A n \in Nat : G[n + 1] = b * G[n]
  BY <1>4
<1>. QED
  BY <1>5, <1>6

\* Powers of natural numbers are natural numbers, positive ones of positive ones.
LEMMA PowerNat ==
    ASSUME NEW b \in Nat, NEW n \in Nat
    PROVE  Power(b, n) \in Nat /\ (b > 0 => Power(b, n) > 0)
<1>. DEFINE Fits(k) == Power(b, k) \in Nat /\ (b > 0 => Power(b, k) > 0)
            Q == {k \in Nat : ~Fits(k)}
<1>1. SUFFICES ASSUME Q # {} PROVE FALSE
  OBVIOUS
<1>2. PICK m \in Q : \A k \in Q : m <= k
  <2>1. Q \in SUBSET Nat
    OBVIOUS
  <2>. HIDE DEF Q
  <2>. QED
    BY <1>1, <2>1, LeastNumber
<1>3. m # 0
  BY <1>2, PowerIs
<1>4. m - 1 \in Nat /\ m - 1 \notin Q /\ m = (m - 1) + 1
  BY <1>2, <1>3
<1>. DEFINE p == Power(b, m - 1)
<1>5. p \in Nat /\ (b > 0 => p > 0) /\ Power(b, m) = b * p
  BY <1>4, PowerIs
<1>. HIDE DEF p
<1>6. b * p \in Nat /\ (b > 0 => b * p > 0)
  <2>1. \A x, y \in Nat : x > 0 /\ y > 0 => x * y > 0
    OBVIOUS
  <2>. QED
    BY <1>5, <2>1, ProductNat
<1>. QED
  BY <1>2, <1>5, <1>6

\* A product grows with both of its factors.
LEMMA ProductGrows ==
    \A w, x, y, z \in Nat : w <= x /\ y <= z => w * y <= x * z
<1>1. \A w, x, y \in Nat : w <= x => w * y <= x * y
  OBVIOUS
<1>2. SUFFICES ASSUME NEW w \in Nat, NEW x \in Nat, NEW y \in Nat, NEW z \in Nat,
                      w <= x, y <= z
               PROVE  w * y <= x * z
  OBVIOUS
<1>3. w * y <= x * y /\ y * x <= z * x
  BY <1>1, <1>2
<1>. QED
  BY <1>3

\* A power grows with its base.
LEMMA PowerGrows ==
    ASSUME NEW a \in Nat, NEW b \in Nat, a <= b, NEW n \in Nat
    PROVE  Power(a, n) <= Power(b, n)
<1>. DEFINE Q == {k \in Nat : ~(Power(a, k) <= Power(b, k))}
<1>1. SUFFICES ASSUME Q # {} PROVE FALSE
  OBVIOUS
<1>2. PICK m \in Q : \A k \in Q : m <= k
  <2>1. Q \in SUBSET Nat
    OBVIOUS
  <2>. HIDE DEF Q
  <2>. QED
    BY <1>1, <2>1, LeastNumber
<1>3. m # 0
  BY <1>2, PowerIs
<1>4. m - 1 \in Nat /\ m - 1 \notin Q /\ m = (m - 1) + 1
  BY <1>2, <1>3
<1>. DEFINE p == Power(a, m - 1)
            q == Power(b, m - 1)
<1>5. p \in Nat /\ q \in Nat /\ p <= q
  BY <1>4, PowerNat
<1>6. Power(a, m) = a * p /\ Power(b, m) = b * q
  BY <1>4, PowerIs
<1>. HIDE DEF p, q
<1>7. a * p <= b * q
  BY <1>5, ProductGrows
<1>. QED
  BY <1>2, <1>6, <1>7

-----------------------------------------------------------------------------
(* The curve *)

\* Numbers that are bounded have a largest one.
LEMMA LargestExists ==
    ASSUME NEW n \in Nat, NEW S \in SUBSET (0 .. n), S # {}
    PROVE  Max(S) \in S
<1>. DEFINE Q == {n - x : x \in S}
<1>1. PICK q \in Q : \A k \in Q : q <= k
  <2>1. \A x \in S : n - x \in Nat
    OBVIOUS
  <2>2. Q \in SUBSET Nat /\ Q # {}
    BY <2>1, Zenon
  <2>. HIDE DEF Q
  <2>. QED
    BY <2>2, LeastNumber
<1>2. PICK x \in S : q = n - x
  BY <1>1
<1>3. \A y \in S : x >= y
  <2>1. \A y \in S : n - x <= n - y
    BY <1>1, <1>2
  <2>. QED
    BY <2>1
<1>. QED
  BY <1>3 DEF Max

\* A reserve ratio gives the curve a whole exponent.
LEMMA SteepnessNat == \A ratio \in 1 .. MAX_PPM : Steepness(ratio) \in Nat
BY MaxPPM, DivBounds DEF Steepness

\* Truncation takes at most one unit, and no unit from zero.
LEMMA TruncatedBelow ==
    ASSUME NEW ratio, NEW exact \in Nat, NEW x \in Truncated(ratio, exact)
    PROVE  x \in Nat /\ x <= exact
BY DEF Truncated

\* What is bought leaves the pool on its curve or above it.
LEMMA PurchaseKeepsCurve ==
    ASSUME NEW supply \in Nat, NEW reserve \in Nat \ {0}, NEW ratio \in 1 .. MAX_PPM,
           NEW deposit \in Nat, NEW x \in PurchaseReturns(supply, reserve, ratio, deposit)
    PROVE  /\ supply > 0 /\ x \in Nat
           /\ Power(supply + x, Steepness(ratio)) * reserve
                 <= Power(supply, Steepness(ratio)) * (reserve + deposit)
<1>. DEFINE k == Steepness(ratio)
            most == (supply * deposit) \div reserve
            Bought(y) == Power(supply + y, k) * reserve <= Power(supply, k) * (reserve + deposit)
            bought == {y \in 0 .. most : Bought(y)}
            exact == Max(bought)
<1>1. supply > 0 /\ x \in Truncated(ratio, exact)
  BY DEF PurchaseReturns
<1>2. k \in Nat
  BY SteepnessNat
<1>3. most \in Nat
  <2>1. supply * deposit \in Nat
    BY ProductNat
  <2>. QED
    BY <2>1
<1>. HIDE DEF k, most
<1>4. Bought(0)
  <2>1. Power(supply, k) \in Nat
    BY <1>2, PowerNat, Zenon
  <2>2. Power(supply, k) * reserve <= Power(supply, k) * (reserve + deposit)
    BY <2>1, ProductGrows
  <2>3. supply + 0 = supply
    OBVIOUS
  <2>. QED
    BY <2>2, <2>3
<1>5. exact \in bought
  <2>1. bought \in SUBSET (0 .. most) /\ bought # {}
    BY <1>3, <1>4
  <2>. HIDE DEF bought
  <2>. QED
    BY <1>3, <2>1, LargestExists
<1>6. exact \in Nat /\ Bought(exact)
  BY <1>3, <1>5
<1>. HIDE DEF exact
<1>7. x \in Nat /\ x <= exact
  BY <1>1, <1>6, TruncatedBelow
<1>8. Power(supply + x, k) * reserve <= Power(supply + exact, k) * reserve
  <2>1. /\ supply + x \in Nat /\ supply + exact \in Nat
        /\ supply + x <= supply + exact
    BY <1>6, <1>7
  <2>2. /\ Power(supply + x, k) \in Nat /\ Power(supply + exact, k) \in Nat
        /\ Power(supply + x, k) <= Power(supply + exact, k)
    BY <1>2, <2>1, PowerNat, PowerGrows
  <2>. QED
    BY <2>2, ProductGrows
<1>9. /\ Power(supply + x, k) * reserve \in Int /\ Power(supply + exact, k) * reserve \in Int
      /\ Power(supply, k) * (reserve + deposit) \in Int
  <2>1. supply + x \in Nat /\ supply + exact \in Nat
    BY <1>6, <1>7
  <2>2. /\ Power(supply + x, k) \in Nat /\ Power(supply + exact, k) \in Nat
        /\ Power(supply, k) \in Nat
    BY <1>2, <2>1, PowerNat, Zenon
  <2>. QED
    BY <2>2
<1>10. Power(supply + x, k) * reserve <= Power(supply, k) * (reserve + deposit)
  BY <1>6, <1>8, <1>9
<1>. QED
  BY <1>1, <1>7, <1>10 DEF k

\* What is sold too; and a pool that does not sell all of its signal keeps a reserve.
LEMMA SaleKeepsCurve ==
    ASSUME NEW supply \in Nat \ {0}, NEW reserve \in Nat \ {0}, NEW ratio \in 1 .. MAX_PPM,
           NEW sold \in 0 .. supply, NEW x \in SaleReturns(supply, reserve, ratio, sold)
    PROVE  /\ x \in Nat /\ x <= reserve
           /\ sold = supply => x = reserve
           /\ sold < supply =>
                 /\ x < reserve
                 /\ Power(supply - sold, Steepness(ratio)) * reserve
                       <= Power(supply, Steepness(ratio)) * (reserve - x)
<1>. DEFINE k == Steepness(ratio)
            Paid(y) == Power(supply - sold, k) * reserve <= Power(supply, k) * (reserve - y)
            paid == {y \in 0 .. reserve : Paid(y)}
            exact == Max(paid)
            left == supply - sold
<1>1. CASE sold = supply
  BY <1>1 DEF SaleReturns
<1>2. CASE sold < supply
  <2>1. x \in Truncated(ratio, exact)
    BY <1>2 DEF SaleReturns
  <2>2. k \in Nat
    BY SteepnessNat
  <2>. HIDE DEF k
  <2>3. left \in Nat \ {0} /\ left <= supply
    BY <1>2
  <2>. DEFINE P == Power(left, k)
              R == Power(supply, k)
  <2>. HIDE DEF left
  <2>4. P \in Nat \ {0} /\ R \in Nat \ {0} /\ P <= R
    <3>1. left \in Nat /\ supply \in Nat /\ left > 0 /\ supply > 0
      BY <2>3
    <3>2. P \in Nat /\ R \in Nat /\ (left > 0 => P > 0) /\ (supply > 0 => R > 0)
      BY <2>2, <3>1, PowerNat, Zenon
    <3>3. P <= R
      BY <2>2, <2>3, <3>1, PowerGrows, Zenon
    <3>. QED
      BY <3>1, <3>2, <3>3
  <2>5. \A y : Paid(y) <=> P * reserve <= R * (reserve - y)
    BY DEF left
  <2>. HIDE DEF P, R, Paid
  <2>6. Paid(0)
    <3>1. P * reserve <= R * reserve
      BY <2>4, ProductGrows
    <3>. QED
      BY <2>5, <3>1
  <2>7. exact \in paid
    <3>1. paid \in SUBSET (0 .. reserve) /\ paid # {}
      BY <2>6
    <3>. HIDE DEF paid
    <3>. QED
      BY <3>1, LargestExists
  <2>8. exact \in 0 .. reserve /\ Paid(exact)
    BY <2>7
  <2>. HIDE DEF exact
  <2>9. x \in Nat /\ x <= exact
    BY <2>1, <2>8, TruncatedBelow
  <2>10. P * reserve \in Nat \ {0} /\ R * (reserve - exact) \in Int /\ R * (reserve - x) \in Int
    <3>1. \A y, z \in Nat \ {0} : y * z \in Nat \ {0}
      OBVIOUS
    <3>. QED
      BY <2>4, <2>8, <2>9, <3>1
  <2>11. R * (reserve - exact) <= R * (reserve - x)
    <3>1. reserve - exact \in Nat /\ reserve - x \in Nat /\ reserve - exact <= reserve - x
      BY <2>8, <2>9
    <3>. QED
      BY <2>4, <3>1, ProductGrows
  <2>12. P * reserve <= R * (reserve - x)
    BY <2>5, <2>8, <2>10, <2>11
  <2>13. x < reserve
    <3>1. x # reserve
      BY <2>4, <2>10, <2>12
    <3>. QED
      BY <2>8, <2>9, <3>1
  <2>. QED
    BY <1>2, <2>9, <2>12, <2>13 DEF P, R, k, left
<1>. QED
  BY <1>1, <1>2

-----------------------------------------------------------------------------
(* The books of a ledger *)

\* A ledger within a transaction: accounts may still owe GRT.
CurationDraft == [pools  : [Subgraphs -> CurationPool],
                  signal : [Subgraphs -> [Curators -> Nat]],
                  grt    : [CurationHolders -> Int]]

\* The commit of a transaction refuses a ledger in which someone owes GRT.
Settled(c) == \A h \in CurationHolders : c.grt[h] >= 0

\* What is true of each pool: it has a reserve, and a curve, while it has signal.
PoolSound(c, s) ==
    LET pool == c.pools[s]
    IN  /\ pool.tokens > 0 <=> CurationPoolSignal(c, s) > 0
        /\ pool.tokens > 0 <=> pool.reserveRatio > 0
        /\ pool.reserveRatio <= MAX_PPM

\* And of all of them: their tokens are there.
DraftSound(c) ==
    /\ c \in CurationDraft
    /\ c.grt[CurationAddress] = SumFunction([s \in Subgraphs |-> c.pools[s].tokens])
    /\ \A s \in Subgraphs : PoolSound(c, s)

\* The inductive invariant.
CurationInvariant ==
    /\ DraftSound(curationLedger) /\ Settled(curationLedger)
    /\ curationParams \in CurationParams

\* A step to the ledger c does not take the pool s below its curve.
KeepsCurve(c, s) ==
    LET k     == Steepness(c.pools[s].reserveRatio)
        first == ~IsCurated(s)
        from  == IF first THEN StartOfCurve(curationParams)
                 ELSE PointOnCurve(curationLedger, s)
        to    == PointOnCurve(c, s)
    IN  to.supply > 0 =>
           /\ to.tokens * Power(from.supply, k) >= from.tokens * Power(to.supply, k)
           /\ first \/ c.pools[s].reserveRatio = curationLedger.pools[s].reserveRatio

\* What every operation on a draft d comes to: it moves GRT into one pool or out of
\* it, and leaves the pool sound and not below its curve.
SoundStep(d, c, s) ==
    /\ c \in CurationDraft
    /\ \A r \in Subgraphs \ {s} : /\ c.pools[r] = d.pools[r]
                                  /\ c.signal[r] = d.signal[r]
    /\ c.grt[CurationAddress] - d.grt[CurationAddress] = c.pools[s].tokens - d.pools[s].tokens
    /\ PoolSound(c, s)
    /\ KeepsCurve(c, s)

\* The signal of a pool is the sum of what its curators hold.
LEMMA SignalIsSum ==
    ASSUME NEW c \in CurationDraft, NEW s \in Subgraphs
    PROVE  /\ CurationPoolSignal(c, s) = SumFunctionOnSet(c.signal[s], Curators)
           /\ CurationPoolSignal(c, s) \in Nat
<1>1. c.signal[s] \in [Curators -> Nat]
  BY DEF CurationDraft
<1>2. \A h \in Curators : c.signal[s][h] \in Nat
  BY <1>1
<1>3. SumFunctionOnSet(c.signal[s], Curators) \in Nat
  BY <1>2, SumIsNat, FiniteCurationAssumption
<1>4. CurationPoolSignal(c, s) = SumFunctionOnSet(c.signal[s], Curators)
  BY <1>1 DEF CurationPoolSignal, SumFunction
<1>. QED
  BY <1>3, <1>4

\* It moves by as much as the balance of one of them.
LEMMA SignalMoves ==
    ASSUME NEW f \in [Curators -> Int], NEW h, NEW curator \in Curators, NEW n \in Int,
           \A x \in Curators : h[x] = f[x] + IF x = curator THEN n ELSE 0
    PROVE  SumFunctionOnSet(h, Curators) = SumFunctionOnSet(f, Curators) + n
<1>1. /\ \A x \in Curators : f[x] \in Int /\ h[x] \in Int
      /\ \A x \in Curators \ {curator} : h[x] = f[x]
      /\ h[curator] = f[curator] + n
  OBVIOUS
<1>2. SumFunctionOnSet(h, Curators)
         = SumFunctionOnSet(f, Curators) + (h[curator] - f[curator])
  BY <1>1, SumAfterUpdate, FiniteCurationAssumption
<1>. QED
  BY <1>1, <1>2

\* A pool that nothing changed is where it was.
LEMMA UnchangedKeepsCurve ==
    ASSUME DraftSound(curationLedger), NEW c \in CurationDraft, NEW s \in Subgraphs,
           c.pools[s] = curationLedger.pools[s],
           CurationPoolSignal(c, s) = CurationPoolSignal(curationLedger, s)
    PROVE  PoolSound(c, s) /\ KeepsCurve(c, s)
<1>1. CurationPoolSignal(c, s) = CurationPoolSignal(curationLedger, s)
  OBVIOUS
<1>2. PoolSound(curationLedger, s) /\ curationLedger.pools[s].tokens \in Nat
  BY DEF DraftSound, CurationDraft, CurationPool
<1>3. PoolSound(c, s)
  BY <1>1, <1>2 DEF PoolSound
<1>4. ASSUME PointOnCurve(c, s).supply > 0
      PROVE  /\ IsCurated(s)
             /\ PointOnCurve(c, s) = PointOnCurve(curationLedger, s)
  BY <1>1, <1>2, <1>4 DEF PointOnCurve, PoolSound, IsCurated
<1>5. ASSUME PointOnCurve(c, s).supply > 0
      PROVE  LET k == Steepness(c.pools[s].reserveRatio)
                 p == PointOnCurve(c, s)
             IN  p.tokens * Power(p.supply, k) >= p.tokens * Power(p.supply, k)
  <2>1. c.pools[s].reserveRatio \in 1 .. MAX_PPM
    <3>1. c.pools[s].reserveRatio \in Nat
      BY DEF CurationDraft, CurationPool
    <3>. QED
      BY <1>3, <1>5, <3>1, MaxPPM DEF PointOnCurve, PoolSound
  <2>2. /\ PointOnCurve(c, s).tokens \in Nat
        /\ PointOnCurve(c, s).supply \in Nat
    BY SignalIsSum DEF PointOnCurve, CurationDraft, CurationPool
  <2>3. Power(PointOnCurve(c, s).supply, Steepness(c.pools[s].reserveRatio)) \in Nat
    BY <2>1, <2>2, SteepnessNat, PowerNat
  <2>. QED
    BY <2>2, <2>3
<1>6. KeepsCurve(c, s)
  BY <1>4, <1>5 DEF KeepsCurve
<1>. QED
  BY <1>3, <1>6

\* Whether a pool is below its curve depends on its reserve and its signal only.
LEMMA CurveKept ==
    ASSUME NEW d, NEW c, NEW r, c.pools[r] = d.pools[r], c.signal[r] = d.signal[r]
    PROVE  /\ PoolSound(d, r) => PoolSound(c, r)
           /\ KeepsCurve(d, r) => KeepsCurve(c, r)
<1>1. CurationPoolSignal(c, r) = CurationPoolSignal(d, r)
  BY DEF CurationPoolSignal
<1>2. PointOnCurve(c, r) = PointOnCurve(d, r)
  BY <1>1 DEF PointOnCurve
<1>. QED
  BY <1>1, <1>2 DEF PoolSound, KeepsCurve

\* A sound step leaves a sound ledger, and every pool on its curve or above.
LEMMA SoundStepKeeps ==
    ASSUME NEW d, DraftSound(d), \A r \in Subgraphs : KeepsCurve(d, r),
           NEW s \in Subgraphs, NEW c, SoundStep(d, c, s)
    PROVE  /\ DraftSound(c)
           /\ \A r \in Subgraphs : KeepsCurve(c, r)
<1>1. c \in CurationDraft /\ d \in CurationDraft
  BY DEF SoundStep, DraftSound
<1>2. ASSUME NEW r \in Subgraphs PROVE PoolSound(c, r) /\ KeepsCurve(c, r)
  <2>1. CASE r = s
    BY <2>1 DEF SoundStep
  <2>2. CASE r # s
    <3>1. c.pools[r] = d.pools[r] /\ c.signal[r] = d.signal[r]
      BY <2>2 DEF SoundStep
    <3>2. PoolSound(d, r) /\ KeepsCurve(d, r)
      BY DEF DraftSound
    <3>. QED
      BY <3>1, <3>2, CurveKept
  <2>. QED
    BY <2>1, <2>2
<1>. DEFINE f == [r \in Subgraphs |-> d.pools[r].tokens]
            g == [r \in Subgraphs |-> c.pools[r].tokens]
<1>3. c.grt[CurationAddress] = SumFunctionOnSet(g, Subgraphs)
  <2>1. /\ \A r \in Subgraphs : f[r] \in Int /\ g[r] \in Int
        /\ \A r \in Subgraphs \ {s} : g[r] = f[r]
    BY <1>1 DEF SoundStep, CurationDraft, CurationPool
  <2>2. /\ c.grt[CurationAddress] - d.grt[CurationAddress] = g[s] - f[s]
        /\ g[s] \in Int /\ f[s] \in Int
    BY <2>1 DEF SoundStep
  <2>3. d.grt[CurationAddress] = SumFunctionOnSet(f, Subgraphs)
    BY DEF DraftSound, SumFunction
  <2>4. c.grt[CurationAddress] \in Int /\ d.grt[CurationAddress] \in Int
    BY <1>1 DEF CurationDraft, CurationHolders
  <2>. HIDE DEF f, g
  <2>5. SumFunctionOnSet(g, Subgraphs) = SumFunctionOnSet(f, Subgraphs) + (g[s] - f[s])
    BY <2>1, SumAfterUpdate, FiniteCurationAssumption
  <2>. QED
    BY <2>2, <2>3, <2>4, <2>5
<1>4. DraftSound(c)
  BY <1>1, <1>2, <1>3 DEF DraftSound, SumFunction
<1>. QED
  BY <1>2, <1>4

-----------------------------------------------------------------------------
(* What an operation changes of a ledger, field by field *)

SetSignal(c, s, signal) == [c EXCEPT !.signal[s] = signal]
SetPool(c, s, pool)     == [c EXCEPT !.pools[s] = pool]
AddTokens(c, s, tokens) == [c EXCEPT !.pools[s].tokens = @ + tokens]
AddGRT(c, tokens)       == [c EXCEPT !.grt[CurationAddress] = @ + tokens]

\* Taking signal from a curator changes the balances of that signal only.
LEMMA BurnIs ==
    ASSUME NEW pools, NEW signal, NEW grt, NEW n, NEW curator, NEW s
    PROVE  [[pools |-> pools, signal |-> signal, grt |-> grt] EXCEPT
                  !.signal[s][curator] = @ - n]
              = [pools |-> pools, signal |-> [signal EXCEPT ![s][curator] = @ - n], grt |-> grt]
OBVIOUS

\* So does setting the balances of a signal.
LEMMA SetSignalIs ==
    ASSUME NEW pools, NEW signal, NEW grt, NEW h, NEW s
    PROVE  SetSignal([pools |-> pools, signal |-> signal, grt |-> grt], s, h)
              = [pools |-> pools, signal |-> [signal EXCEPT ![s] = h], grt |-> grt]
BY DEF SetSignal

\* Setting a pool changes that pool only.
LEMMA SetPoolIs ==
    ASSUME NEW pools, NEW signal, NEW grt, NEW pool, NEW s
    PROVE  SetPool([pools |-> pools, signal |-> signal, grt |-> grt], s, pool)
              = [pools |-> [pools EXCEPT ![s] = pool], signal |-> signal, grt |-> grt]
BY DEF SetPool

\* So does adding to its reserve.
LEMMA AddTokensIs ==
    ASSUME NEW pools, NEW signal, NEW grt, NEW tokens, NEW s
    PROVE  AddTokens([pools |-> pools, signal |-> signal, grt |-> grt], s, tokens)
              = [pools |-> [pools EXCEPT ![s].tokens = @ + tokens], signal |-> signal, grt |-> grt]
BY DEF AddTokens

\* Adding to the GRT of the contract changes that balance only.
LEMMA AddGRTIs ==
    ASSUME NEW pools, NEW signal, NEW grt, NEW tokens
    PROVE  AddGRT([pools |-> pools, signal |-> signal, grt |-> grt], tokens)
              = [pools |-> pools, signal |-> signal,
                 grt |-> [grt EXCEPT ![CurationAddress] = @ + tokens]]
BY DEF AddGRT

\* The balances after a transfer.
Transferred(grt, from, to, n) ==
    LET debited == [grt EXCEPT ![from] = @ - n] IN [debited EXCEPT ![to] = @ + n]

\* Moving GRT into the contract, or out of it, changes balances only.
LEMMA MoveGRTIs ==
    ASSUME NEW pools, NEW signal, NEW grt, NEW n, NEW from, NEW to
    PROVE  MoveGRT([pools |-> pools, signal |-> signal, grt |-> grt], from, to, n)
              = [pools |-> pools, signal |-> signal, grt |-> Transferred(grt, from, to, n)]
BY DEF MoveGRT, Transferred

\* They change by as much.
LEMMA TransferredIs ==
    ASSUME NEW grt \in [CurationHolders -> Int], NEW n \in Int,
           NEW from \in CurationHolders, NEW to \in CurationHolders, from # to
    PROVE  /\ Transferred(grt, from, to, n) \in [CurationHolders -> Int]
           /\ Transferred(grt, from, to, n)[to] = grt[to] + n
           /\ Transferred(grt, from, to, n)[from] = grt[from] - n
           /\ \A h \in CurationHolders \ {from, to} : Transferred(grt, from, to, n)[h] = grt[h]
BY DEF Transferred

\* The parts of a ledger.
LEMMA LedgerParts ==
    ASSUME NEW c \in CurationDraft
    PROVE  \E pools \in [Subgraphs -> CurationPool], grt \in [CurationHolders -> Int],
              signal \in [Subgraphs -> [Curators -> Nat]] :
                 c = [pools |-> pools, signal |-> signal, grt |-> grt]
<1>1. /\ c = [pools |-> c.pools, signal |-> c.signal, grt |-> c.grt]
      /\ c.pools \in [Subgraphs -> CurationPool]
      /\ c.grt \in [CurationHolders -> Int]
      /\ c.signal \in [Subgraphs -> [Curators -> Nat]]
  BY DEF CurationDraft
<1>. QED
  BY <1>1, Zenon

-----------------------------------------------------------------------------
(* The operations, on the ledger *)

\* A curator's accounts, of the signal and of GRT, move by as much, and nobody else's.
Accounted(d, c, s, curator, signal, tokens) ==
    \A h \in Curators :
        /\ c.signal[s][h] = d.signal[s][h] + IF h = curator THEN signal ELSE 0
        /\ c.grt[h] = d.grt[h] + IF h = curator THEN tokens ELSE 0

\* A deposit: what is left of it after the tax enters the pool and the contract.
LEMMA SignalledIs ==
    ASSUME NEW d \in CurationDraft, curationParams \in CurationParams,
           NEW curator \in Curators, NEW s \in Subgraphs, NEW tokensIn \in Nat,
           NEW signalOut \in Nat
    PROVE  LET c       == Signalled(d, curator, s, tokensIn, signalOut)
               deposit == tokensIn - CurationTax(tokensIn)
           IN  /\ c \in CurationDraft
               /\ deposit \in Nat
               /\ \A r \in Subgraphs \ {s} : /\ c.pools[r] = d.pools[r]
                                             /\ c.signal[r] = d.signal[r]
               /\ c.grt[CurationAddress] = d.grt[CurationAddress] + deposit
               /\ c.pools[s].tokens = d.pools[s].tokens + deposit
               /\ c.pools[s].reserveRatio = IF IsCurated(s) THEN d.pools[s].reserveRatio
                                            ELSE curationParams["defaultReserveRatio"]
               /\ CurationPoolSignal(c, s) = CurationPoolSignal(d, s) + signalOut
               /\ Accounted(d, c, s, curator, signalOut, -tokensIn)
<1>. DEFINE c == Signalled(d, curator, s, tokensIn, signalOut)
            pulled == MoveGRT(d, curator, CurationAddress, tokensIn)
            tax == CurationTax(tokensIn)
            pool == [tokens       |-> d.pools[s].tokens + tokensIn - tax,
                     reserveRatio |-> IF IsCurated(s) THEN d.pools[s].reserveRatio
                                      ELSE curationParams["defaultReserveRatio"]]
<1>1. tax \in 0 .. tokensIn
  <2>1. curationParams["curationTaxPercentage"] \in 0 .. MAX_PPM
    BY MaxPPM DEF CurationParams, CurationSettings, AcceptsSetting
  <2>. QED
    BY <2>1, PortionBounds DEF CurationTax
<1>. HIDE DEF tax
<1>a. PICK pools \in [Subgraphs -> CurationPool], grt \in [CurationHolders -> Int],
           signal \in [Subgraphs -> [Curators -> Nat]] :
              d = [pools |-> pools, signal |-> signal, grt |-> grt]
  BY LedgerParts
<1>b. d.pools = pools /\ d.signal = signal /\ d.grt = grt
  BY <1>a
<1>. DEFINE g == Transferred(grt, curator, CurationAddress, tokensIn)
<1>2. /\ pulled = [pools |-> pools, signal |-> signal, grt |-> g]
      /\ g \in [CurationHolders -> Int]
      /\ g[CurationAddress] = grt[CurationAddress] + tokensIn
      /\ g[curator] = grt[curator] - tokensIn
      /\ \A h \in CurationHolders \ {curator, CurationAddress} : g[h] = grt[h]
  <2>1. /\ curator \in CurationHolders /\ CurationAddress \in CurationHolders
        /\ curator # CurationAddress /\ grt \in [CurationHolders -> Int]
        /\ tokensIn \in Int
    BY CurationAssumption DEF CurationHolders
  <2>2. /\ g \in [CurationHolders -> Int]
        /\ g[CurationAddress] = grt[CurationAddress] + tokensIn
        /\ g[curator] = grt[curator] - tokensIn
        /\ \A h \in CurationHolders \ {curator, CurationAddress} : g[h] = grt[h]
    BY <2>1 DEF Transferred
  <2>3. pulled = [pools |-> pools, signal |-> signal, grt |-> g]
    BY <1>a, MoveGRTIs
  <2>. QED
    BY <2>2, <2>3
<1>. HIDE DEF pulled, g
<1>3. c = [pools  |-> [pools EXCEPT ![s] = pool],
           signal |-> [signal EXCEPT ![s][curator] = @ + signalOut],
           grt    |-> [g EXCEPT ![CurationAddress] = @ - tax]]
  <2>1. c = [pulled EXCEPT !.grt[CurationAddress] = @ - tax,
                           !.pools[s] = pool,
                           !.signal[s][curator] = @ + signalOut]
    BY Zenon DEF Signalled, pulled, tax
  <2>. HIDE DEF c, pool
  <2>. QED
    BY <1>2, <2>1
<1>4. pool \in CurationPool
  <2>1. d.pools[s] \in CurationPool
    BY DEF CurationDraft
  <2>2. curationParams["defaultReserveRatio"] \in Nat
    BY DEF CurationParams, CurationSettings
  <2>. QED
    BY <1>1, <2>1, <2>2 DEF CurationPool
<1>. HIDE DEF pool, c
<1>5. c.grt \in [CurationHolders -> Int]
  BY <1>1, <1>2, <1>3 DEF CurationHolders
<1>6. c \in CurationDraft
  <2>1. /\ c.pools \in [Subgraphs -> CurationPool]
        /\ c.signal \in [Subgraphs -> [Curators -> Nat]]
    BY <1>3, <1>4 DEF CurationDraft
  <2>. QED
    BY <1>3, <1>5, <2>1 DEF CurationDraft
<1>7. CurationPoolSignal(c, s) = CurationPoolSignal(d, s) + signalOut
  <2>1. /\ d.signal[s] \in [Curators -> Int]
        /\ \A x \in Curators : c.signal[s][x] = d.signal[s][x]
                                                   + IF x = curator THEN signalOut ELSE 0
    BY <1>b, <1>3
  <2>. DEFINE before == d.signal[s]
              after == c.signal[s]
  <2>2. /\ before \in [Curators -> Int] /\ signalOut \in Int
        /\ \A x \in Curators : after[x] = before[x] + IF x = curator THEN signalOut ELSE 0
    BY <2>1
  <2>. HIDE DEF before, after
  <2>3. SumFunctionOnSet(after, Curators) = SumFunctionOnSet(before, Curators) + signalOut
    BY <2>2, SignalMoves
  <2>. QED
    BY <1>6, <2>3, SignalIsSum DEF before, after
<1>8. \A r \in Subgraphs \ {s} : /\ c.pools[r] = d.pools[r]
                                 /\ c.signal[r] = d.signal[r]
  BY <1>b, <1>3
<1>9. c.pools[s] = pool /\ c.grt[CurationAddress] = g[CurationAddress] - tax
  BY <1>2, <1>3 DEF CurationHolders
<1>10. /\ c.grt[CurationAddress] = d.grt[CurationAddress] + (tokensIn - tax)
       /\ c.pools[s].tokens = d.pools[s].tokens + (tokensIn - tax)
       /\ c.pools[s].reserveRatio = IF IsCurated(s) THEN d.pools[s].reserveRatio
                                    ELSE curationParams["defaultReserveRatio"]
       /\ tokensIn - tax \in Nat
  <2>1. /\ d.pools[s].tokens \in Nat
        /\ d.grt[CurationAddress] \in Int
    BY DEF CurationDraft, CurationPool, CurationHolders
  <2>. QED
    BY <1>1, <1>2, <1>9, <1>b, <2>1 DEF pool
<1>11. ASSUME NEW h \in Curators
       PROVE  /\ c.signal[s][h] = d.signal[s][h] + IF h = curator THEN signalOut ELSE 0
              /\ c.grt[h] = d.grt[h] + IF h = curator THEN -tokensIn ELSE 0
  <2>1. c.signal[s][h] = d.signal[s][h] + IF h = curator THEN signalOut ELSE 0
    BY <1>b, <1>3
  <2>2. h \in CurationHolders /\ h # CurationAddress /\ grt[h] \in Int
    BY CurationAssumption DEF CurationHolders
  <2>3. c.grt[h] = g[h]
    BY <1>2, <1>3, <2>2
  <2>. QED
    BY <1>b, <1>2, <2>1, <2>2, <2>3
<1>12. Accounted(d, c, s, curator, signalOut, -tokensIn)
  BY <1>11 DEF Accounted
<1>. QED
  BY <1>6, <1>7, <1>8, <1>10, <1>12 DEF c, tax

\* What the settings are worth, and that the tax leaves a deposit.
LEMMA SettingsTyped ==
    ASSUME curationParams \in CurationParams
    PROVE  /\ curationParams["minimumCurationDeposit"] \in Nat \ {0}
           /\ curationParams["defaultReserveRatio"] \in 1 .. MAX_PPM
           /\ \A t \in Nat : CurationTax(t) \in 0 .. t
<1>1. /\ curationParams["minimumCurationDeposit"] \in Nat \ {0}
      /\ curationParams["defaultReserveRatio"] \in 1 .. MAX_PPM
      /\ curationParams["curationTaxPercentage"] \in 0 .. MAX_PPM
  BY MaxPPM DEF CurationParams, CurationSettings, AcceptsSetting
<1>. QED
  BY <1>1, PortionBounds DEF CurationTax

\* A sound pool, in numbers.
LEMMA PoolTyped ==
    ASSUME DraftSound(curationLedger), NEW s \in Subgraphs
    PROVE  /\ curationLedger.pools[s].tokens \in Nat
           /\ curationLedger.pools[s].reserveRatio \in Nat
           /\ CurationPoolSignal(curationLedger, s) \in Nat
           /\ IsCurated(s) => /\ curationLedger.pools[s].tokens > 0
                              /\ curationLedger.pools[s].reserveRatio \in 1 .. MAX_PPM
                              /\ CurationPoolSignal(curationLedger, s) > 0
           /\ ~IsCurated(s) => /\ curationLedger.pools[s].tokens = 0
                               /\ CurationPoolSignal(curationLedger, s) = 0
<1>1. /\ curationLedger \in CurationDraft
      /\ PoolSound(curationLedger, s)
  BY DEF DraftSound
<1>2. /\ curationLedger.pools[s].tokens \in Nat
      /\ curationLedger.pools[s].reserveRatio \in Nat
  BY <1>1 DEF CurationDraft, CurationPool
<1>3. CurationPoolSignal(curationLedger, s) \in Nat
  BY <1>1, SignalIsSum
<1>. QED
  BY <1>1, <1>2, <1>3, MaxPPM DEF PoolSound, IsCurated

\* The inequality of the curve, as the properties write it.
LEMMA ProductTurned ==
    ASSUME NEW p \in Nat, NEW r \in Nat, NEW q \in Nat, NEW t \in Nat, p * r <= q * t
    PROVE  t * q >= r * p
<1>1. p * r = r * p /\ q * t = t * q
  OBVIOUS
<1>2. r * p \in Nat /\ t * q \in Nat
  BY ProductNat
<1>. QED
  BY <1>1, <1>2

\* A deposit that mints what the curve allows is a sound step.
LEMMA MintSound ==
    ASSUME DraftSound(curationLedger), curationParams \in CurationParams,
           NEW d \in CurationDraft, NEW s \in Subgraphs,
           d.pools[s] = curationLedger.pools[s], d.signal[s] = curationLedger.signal[s],
           NEW curator \in Curators, NEW tokensIn \in Nat,
           NEW signalOut \in SignalsMinted(s, tokensIn)
    PROVE  SoundStep(d, Signalled(d, curator, s, tokensIn, signalOut), s)
<1>. DEFINE c == Signalled(d, curator, s, tokensIn, signalOut)
            deposit == tokensIn - CurationTax(tokensIn)
            pool == curationLedger.pools[s]
            supply == CurationPoolSignal(curationLedger, s)
            minimum == curationParams["minimumCurationDeposit"]
            fresh == curationParams["defaultReserveRatio"]
            ratio == IF IsCurated(s) THEN pool.reserveRatio ELSE fresh
            fromTokens == IF IsCurated(s) THEN pool.tokens ELSE minimum
            fromSupply == IF IsCurated(s) THEN supply ELSE SignalPerMinimumDeposit
            k == Steepness(ratio)
            toTokens == pool.tokens + deposit
            toSupply == supply + signalOut
<1>1. /\ deposit \in Nat
      /\ minimum \in Nat \ {0}
      /\ fresh \in 1 .. MAX_PPM
  BY SettingsTyped
<1>2. /\ pool.tokens \in Nat
      /\ supply \in Nat
      /\ IsCurated(s) => pool.tokens > 0 /\ supply > 0 /\ pool.reserveRatio \in 1 .. MAX_PPM
      /\ ~IsCurated(s) => pool.tokens = 0 /\ supply = 0
  BY PoolTyped
<1>3. ratio \in 1 .. MAX_PPM
  BY <1>1, <1>2
<1>4. /\ signalOut \in Nat
      /\ toTokens > 0 /\ toSupply > 0
      /\ fromTokens \in Nat /\ fromSupply \in Nat
      /\ Power(toSupply, k) * fromTokens <= Power(fromSupply, k) * toTokens
  <2>1. signalOut \in TokensToSignal(s, deposit)
    BY DEF SignalsMinted
  <2>2. CASE IsCurated(s)
    <3>1. signalOut \in PurchaseReturns(supply, pool.tokens, pool.reserveRatio, deposit)
      BY <1>2, <2>1, <2>2 DEF TokensToSignal
    <3>2. /\ pool.tokens \in Nat \ {0} /\ supply \in Nat /\ deposit \in Nat
          /\ pool.reserveRatio \in 1 .. MAX_PPM /\ supply > 0
      BY <1>1, <1>2, <2>2
    <3>3. /\ signalOut \in Nat
          /\ Power(supply + signalOut, Steepness(pool.reserveRatio)) * pool.tokens
                <= Power(supply, Steepness(pool.reserveRatio)) * (pool.tokens + deposit)
      <4>. HIDE DEF pool, supply, deposit
      <4>. QED
        BY <3>1, <3>2, PurchaseKeepsCurve
    <3>4. ratio = pool.reserveRatio /\ fromTokens = pool.tokens /\ fromSupply = supply
      BY <2>2
    <3>5. toTokens > 0 /\ toSupply > 0
      <4>. HIDE DEF pool, supply, deposit
      <4>. QED
        BY <3>2, <3>3
    <3>. HIDE DEF pool, supply, deposit, ratio, fromTokens, fromSupply
    <3>. QED
      BY <3>2, <3>3, <3>4, <3>5
  <2>3. CASE ~IsCurated(s)
    <3>1. /\ pool.tokens = 0 /\ supply = 0
          /\ ratio = fresh /\ fromTokens = minimum /\ fromSupply = SignalPerMinimumDeposit
      BY <1>2, <2>3
    <3>2. PICK x \in PurchaseReturns(SignalPerMinimumDeposit, minimum, fresh, deposit - minimum) :
             signalOut = SignalPerMinimumDeposit + x /\ deposit >= minimum
      BY <2>1, <3>1 DEF TokensToSignal
    <3>3. SignalPerMinimumDeposit \in Nat \ {0}
      BY CurationAssumption
    <3>. HIDE DEF pool, supply, deposit, ratio, minimum, fresh, fromTokens, fromSupply
    <3>4. deposit - minimum \in Nat /\ minimum + (deposit - minimum) = deposit
      BY <1>1, <3>2
    <3>5. /\ x \in Nat
          /\ Power(SignalPerMinimumDeposit + x, Steepness(fresh)) * minimum
                <= Power(SignalPerMinimumDeposit, Steepness(fresh)) * (minimum + (deposit - minimum))
      BY <1>1, <3>3, <3>4, PurchaseKeepsCurve
    <3>6. toSupply = SignalPerMinimumDeposit + x /\ toTokens = deposit
      BY <1>1, <3>1, <3>2, <3>3, <3>5
    <3>7. signalOut \in Nat /\ toTokens > 0 /\ toSupply > 0
      BY <1>1, <3>2, <3>3, <3>5, <3>6
    <3>8. Power(toSupply, k) * fromTokens <= Power(fromSupply, k) * toTokens
      <4>. HIDE DEF toSupply, toTokens
      <4>. QED
        BY <3>1, <3>4, <3>5, <3>6
    <3>. QED
      BY <1>1, <3>1, <3>3, <3>7, <3>8
  <2>. QED
    BY <2>2, <2>3
<1>. HIDE DEF deposit
<1>5. /\ c \in CurationDraft
      /\ \A r \in Subgraphs \ {s} : c.pools[r] = d.pools[r] /\ c.signal[r] = d.signal[r]
      /\ c.grt[CurationAddress] = d.grt[CurationAddress] + deposit
      /\ c.pools[s].tokens = toTokens
      /\ c.pools[s].reserveRatio = ratio
      /\ CurationPoolSignal(c, s) = toSupply
  <2>1. CurationPoolSignal(d, s) = supply
    BY DEF CurationPoolSignal
  <2>2. signalOut \in Nat
    BY <1>4
  <2>. DEFINE is == tokensIn - CurationTax(tokensIn)
  <2>3. /\ c \in CurationDraft
        /\ \A r \in Subgraphs \ {s} : c.pools[r] = d.pools[r] /\ c.signal[r] = d.signal[r]
        /\ c.grt[CurationAddress] = d.grt[CurationAddress] + is
        /\ c.pools[s].tokens = d.pools[s].tokens + is
        /\ c.pools[s].reserveRatio = IF IsCurated(s) THEN d.pools[s].reserveRatio ELSE fresh
        /\ CurationPoolSignal(c, s) = CurationPoolSignal(d, s) + signalOut
    BY <2>2, SignalledIs
  <2>. HIDE DEF c
  <2>. QED
    BY <2>1, <2>3 DEF deposit
<1>6. PoolSound(c, s)
  <2>. HIDE DEF c, toTokens, toSupply, ratio
  <2>. QED
    BY <1>3, <1>4, <1>5, MaxPPM DEF PoolSound
<1>7. KeepsCurve(c, s)
  <2>1. toTokens * Power(fromSupply, k) >= fromTokens * Power(toSupply, k)
    <3>1. k \in Nat /\ toSupply \in Nat /\ toTokens \in Nat
      <4>. HIDE DEF ratio, pool, supply
      <4>. QED
        BY <1>1, <1>2, <1>3, <1>4, SteepnessNat
    <3>. HIDE DEF k, toSupply, toTokens, fromTokens, fromSupply
    <3>2. Power(toSupply, k) \in Nat /\ Power(fromSupply, k) \in Nat
      BY <1>4, <3>1, PowerNat
    <3>. QED
      BY <1>4, <3>1, <3>2, ProductTurned
  <2>2. PointOnCurve(c, s) = [tokens |-> toTokens, supply |-> toSupply]
    BY <1>5 DEF PointOnCurve
  <2>3. fromTokens = (IF ~IsCurated(s) THEN StartOfCurve(curationParams)
                      ELSE PointOnCurve(curationLedger, s)).tokens
    BY DEF StartOfCurve, PointOnCurve
  <2>4. fromSupply = (IF ~IsCurated(s) THEN StartOfCurve(curationParams)
                      ELSE PointOnCurve(curationLedger, s)).supply
    BY DEF StartOfCurve, PointOnCurve
  <2>5. ~IsCurated(s) \/ c.pools[s].reserveRatio = curationLedger.pools[s].reserveRatio
    BY <1>5
  <2>. HIDE DEF fromTokens, fromSupply, toTokens, toSupply, ratio, c
  <2>. QED
    BY <1>5, <2>1, <2>2, <2>3, <2>4, <2>5 DEF KeepsCurve
<1>8. c.grt[CurationAddress] - d.grt[CurationAddress] = c.pools[s].tokens - pool.tokens
  <2>1. d.grt[CurationAddress] \in Int
    BY DEF CurationDraft, CurationHolders
  <2>2. deposit \in Nat /\ c.pools[s].tokens = pool.tokens + deposit
    BY <1>1, <1>5 DEF deposit
  <2>. HIDE DEF c, pool
  <2>. QED
    BY <1>2, <1>5, <2>1, <2>2
<1>. QED
  BY <1>5, <1>6, <1>7, <1>8 DEF SoundStep

\* A withdrawal: the tokens leave the pool and the contract, and the last signal
\* closes the pool.
LEMMA UnsignalledIs ==
    ASSUME curationLedger \in CurationDraft,
           NEW curator \in Curators, NEW s \in Subgraphs,
           NEW signalIn \in 0 .. curationLedger.signal[s][curator],
           NEW tokensOut \in 0 .. curationLedger.pools[s].tokens
    PROVE  LET c    == Unsignalled(curator, s, signalIn, tokensOut)
               left == CurationPoolSignal(curationLedger, s) - signalIn
           IN  /\ c \in CurationDraft
               /\ \A r \in Subgraphs \ {s} : /\ c.pools[r] = curationLedger.pools[r]
                                             /\ c.signal[r] = curationLedger.signal[r]
               /\ c.grt[CurationAddress] = curationLedger.grt[CurationAddress] - tokensOut
               /\ CurationPoolSignal(c, s) = left
               /\ left = 0 => c.pools[s] = NoCurationPool
               /\ left # 0 => c.pools[s] = [curationLedger.pools[s] EXCEPT !.tokens = @ - tokensOut]
               /\ Accounted(curationLedger, c, s, curator, -signalIn, tokensOut)
<1>. DEFINE c == Unsignalled(curator, s, signalIn, tokensOut)
            pool == [curationLedger.pools[s] EXCEPT !.tokens = @ - tokensOut]
            burned == [curationLedger EXCEPT !.signal[s][curator] = @ - signalIn]
            next == IF CurationPoolSignal(burned, s) = 0 THEN NoCurationPool ELSE pool
            paying == [burned EXCEPT !.pools[s] = next]
<1>1. PICK pools \in [Subgraphs -> CurationPool], grt \in [CurationHolders -> Int],
           signal \in [Subgraphs -> [Curators -> Nat]] :
              curationLedger = [pools |-> pools, signal |-> signal, grt |-> grt]
  BY LedgerParts
<1>2. curationLedger.pools = pools /\ curationLedger.signal = signal /\ curationLedger.grt = grt
  BY <1>1
<1>. DEFINE g == Transferred(grt, CurationAddress, curator, tokensOut)
<1>3. next \in CurationPool
  BY <1>2 DEF CurationPool, NoCurationPool
<1>4. paying = [pools |-> [pools EXCEPT ![s] = next],
                signal |-> [signal EXCEPT ![s][curator] = @ - signalIn],
                grt |-> grt]
  <2>1. burned = [pools |-> pools, signal |-> [signal EXCEPT ![s][curator] = @ - signalIn],
                  grt |-> grt]
    BY <1>1, BurnIs
  <2>. DEFINE newSignal == [signal EXCEPT ![s][curator] = @ - signalIn]
  <2>2. burned = [pools |-> pools, signal |-> newSignal, grt |-> grt]
    BY <2>1
  <2>. HIDE DEF next, burned, newSignal
  <2>3. paying = SetPool(burned, s, next)
    BY DEF SetPool
  <2>. HIDE DEF paying
  <2>4. paying = [pools |-> [pools EXCEPT ![s] = next], signal |-> newSignal, grt |-> grt]
    BY <2>2, <2>3, SetPoolIs
  <2>. QED
    BY <2>4 DEF newSignal
<1>5. /\ c = [pools |-> [pools EXCEPT ![s] = next],
              signal |-> [signal EXCEPT ![s][curator] = @ - signalIn],
              grt |-> g]
      /\ g \in [CurationHolders -> Int]
      /\ g[CurationAddress] = grt[CurationAddress] - tokensOut
      /\ g[curator] = grt[curator] + tokensOut
      /\ \A h \in CurationHolders \ {curator, CurationAddress} : g[h] = grt[h]
  <2>1. /\ curator \in CurationHolders /\ CurationAddress \in CurationHolders
        /\ curator # CurationAddress /\ grt \in [CurationHolders -> Int]
        /\ tokensOut \in Int
    BY <1>2, CurationAssumption DEF CurationHolders, CurationPool
  <2>2. /\ g \in [CurationHolders -> Int]
        /\ g[CurationAddress] = grt[CurationAddress] - tokensOut
        /\ g[curator] = grt[curator] + tokensOut
        /\ \A h \in CurationHolders \ {curator, CurationAddress} : g[h] = grt[h]
    BY <2>1, TransferredIs
  <2>3. c = MoveGRT(paying, CurationAddress, curator, tokensOut)
    BY Zenon DEF Unsignalled
  <2>. DEFINE newPools == [pools EXCEPT ![s] = next]
              newSignal == [signal EXCEPT ![s][curator] = @ - signalIn]
  <2>4. paying = [pools |-> newPools, signal |-> newSignal, grt |-> grt]
    BY <1>4
  <2>. HIDE DEF paying, next, c, newPools, newSignal
  <2>5. c = [pools |-> newPools, signal |-> newSignal, grt |-> g]
    BY <2>3, <2>4, MoveGRTIs
  <2>. QED
    BY <2>2, <2>5 DEF newPools, newSignal
<1>. HIDE DEF g
<1>6. c.grt \in [CurationHolders -> Int]
  <2>. HIDE DEF c, next
  <2>. QED
    BY <1>5
<1>7. c \in CurationDraft
  <2>1. c.signal \in [Subgraphs -> [Curators -> Nat]]
    <3>. HIDE DEF c, next
    <3>. QED
      BY <1>2, <1>5
  <2>. HIDE DEF c, next
  <2>. QED
    BY <1>3, <1>5, <1>6, <2>1 DEF CurationDraft
<1>. DEFINE before == curationLedger.signal[s]
            after == c.signal[s]
<1>8. SumFunctionOnSet(after, Curators) = SumFunctionOnSet(before, Curators) - signalIn
  <2>1. /\ before \in [Curators -> Int] /\ -signalIn \in Int
        /\ \A x \in Curators : after[x] = before[x] + IF x = curator THEN -signalIn ELSE 0
    <3>1. before = signal[s] /\ after = [signal[s] EXCEPT ![curator] = @ - signalIn]
      <4>. HIDE DEF c, next
      <4>. QED
        BY <1>2, <1>5
    <3>. HIDE DEF before, after
    <3>. QED
      BY <1>2, <3>1
  <2>2. SumFunctionOnSet(before, Curators) \in Int
    <3>1. \A x \in Curators : before[x] \in Int
      BY <2>1
    <3>. HIDE DEF before
    <3>. QED
      BY <3>1, SumIsInt, FiniteCurationAssumption
  <2>. HIDE DEF before, after
  <2>3. SumFunctionOnSet(after, Curators) = SumFunctionOnSet(before, Curators) + (-signalIn)
    BY <2>1, SignalMoves
  <2>. QED
    BY <2>2, <2>3
<1>9. CurationPoolSignal(c, s) = CurationPoolSignal(curationLedger, s) - signalIn
  BY <1>7, <1>8, SignalIsSum
<1>10. CurationPoolSignal(burned, s) = CurationPoolSignal(c, s)
  <2>1. burned.signal[s] = c.signal[s]
    <3>. HIDE DEF c, next
    <3>. QED
      BY <1>1, <1>5
  <2>. HIDE DEF c, burned
  <2>. QED
    BY <2>1 DEF CurationPoolSignal
<1>11. c.pools[s] = next /\ c.grt[CurationAddress] = grt[CurationAddress] - tokensOut
  <2>. HIDE DEF c, next
  <2>. QED
    BY <1>5
<1>12. \A r \in Subgraphs \ {s} : /\ c.pools[r] = curationLedger.pools[r]
                                  /\ c.signal[r] = curationLedger.signal[r]
  <2>. HIDE DEF c, next
  <2>. QED
    BY <1>2, <1>5
<1>13. ASSUME NEW h \in Curators
       PROVE  /\ c.signal[s][h] = curationLedger.signal[s][h]
                                      + IF h = curator THEN -signalIn ELSE 0
              /\ c.grt[h] = curationLedger.grt[h] + IF h = curator THEN tokensOut ELSE 0
  <2>. HIDE DEF c, next
  <2>1. /\ h \in CurationHolders /\ h # CurationAddress
        /\ grt[h] \in Int /\ signal[s][h] \in Int
    BY CurationAssumption DEF CurationHolders
  <2>2. c.signal[s][h] = signal[s][h] + IF h = curator THEN -signalIn ELSE 0
    BY <1>5, <2>1
  <2>3. c.grt[h] = grt[h] + IF h = curator THEN tokensOut ELSE 0
    BY <1>5, <2>1
  <2>. QED
    BY <1>2, <2>2, <2>3
<1>14. Accounted(curationLedger, c, s, curator, -signalIn, tokensOut)
  BY <1>13 DEF Accounted
<1>. HIDE DEF c, burned
<1>. QED
  BY <1>2, <1>7, <1>9, <1>10, <1>11, <1>12, <1>14 DEF c

\* A withdrawal that pays what the curve allows is a sound step.
LEMMA BurnSound ==
    ASSUME DraftSound(curationLedger),
           NEW curator \in Curators, NEW s \in Subgraphs, NEW signalIn \in Nat,
           NEW tokensOut \in TokensReturned(curator, s, signalIn)
    PROVE  SoundStep(curationLedger, Unsignalled(curator, s, signalIn, tokensOut), s)
<1>. DEFINE c == Unsignalled(curator, s, signalIn, tokensOut)
            pool == curationLedger.pools[s]
            supply == CurationPoolSignal(curationLedger, s)
            left == supply - signalIn
            k == Steepness(pool.reserveRatio)
            toTokens == pool.tokens - tokensOut
<1>1. /\ signalIn > 0 /\ curationLedger.signal[s][curator] >= signalIn
      /\ tokensOut <= pool.tokens
      /\ pool.tokens > 0 /\ supply >= signalIn
      /\ tokensOut \in SaleReturns(supply, pool.tokens, pool.reserveRatio, signalIn)
  BY DEF TokensReturned, SignalToTokens
<1>2. /\ IsCurated(s)
      /\ pool.tokens \in Nat \ {0} /\ supply \in Nat \ {0}
      /\ pool.reserveRatio \in 1 .. MAX_PPM
  BY <1>1, PoolTyped DEF IsCurated
<1>3. left \in Nat /\ signalIn \in 0 .. supply
  BY <1>1, <1>2
<1>4. /\ tokensOut \in Nat
      /\ left = 0 => toTokens = 0
      /\ left # 0 => /\ toTokens > 0
                     /\ Power(left, k) * pool.tokens <= Power(supply, k) * toTokens
  <2>1. /\ tokensOut \in Nat
        /\ signalIn = supply => tokensOut = pool.tokens
        /\ signalIn < supply =>
              /\ tokensOut < pool.tokens
              /\ Power(supply - signalIn, Steepness(pool.reserveRatio)) * pool.tokens
                    <= Power(supply, Steepness(pool.reserveRatio)) * (pool.tokens - tokensOut)
    <3>. HIDE DEF pool, supply
    <3>. QED
      BY <1>1, <1>2, <1>3, SaleKeepsCurve
  <2>2. (signalIn = supply <=> left = 0) /\ (left # 0 => signalIn < supply)
    <3>. HIDE DEF supply
    <3>. QED
      BY <1>2, <1>3
  <2>3. /\ tokensOut = pool.tokens => toTokens = 0
        /\ tokensOut < pool.tokens => toTokens > 0
    <3>. HIDE DEF pool
    <3>. QED
      BY <1>2, <2>1
  <2>. HIDE DEF pool, supply
  <2>. QED
    BY <2>1, <2>2, <2>3
<1>5. /\ c \in CurationDraft
      /\ \A r \in Subgraphs \ {s} : /\ c.pools[r] = curationLedger.pools[r]
                                    /\ c.signal[r] = curationLedger.signal[r]
      /\ c.grt[CurationAddress] = curationLedger.grt[CurationAddress] - tokensOut
      /\ CurationPoolSignal(c, s) = left
      /\ left = 0 => c.pools[s] = NoCurationPool
      /\ left # 0 => c.pools[s] = [pool EXCEPT !.tokens = @ - tokensOut]
  <2>1. curationLedger \in CurationDraft
    BY DEF DraftSound
  <2>2. /\ signalIn \in 0 .. curationLedger.signal[s][curator]
        /\ tokensOut \in 0 .. pool.tokens
    <3>1. curationLedger.signal[s][curator] \in Nat
      BY <2>1 DEF CurationDraft
    <3>. QED
      BY <1>1, <1>2, <1>4, <3>1
  <2>. QED
    BY <2>1, <2>2, UnsignalledIs
<1>6. /\ c.pools[s].tokens = toTokens
      /\ left = 0 => c.pools[s].reserveRatio = 0
      /\ left # 0 => c.pools[s].reserveRatio = pool.reserveRatio
  <2>1. pool \in CurationPool
    BY DEF DraftSound, CurationDraft
  <2>. HIDE DEF c, pool, left
  <2>. QED
    BY <1>4, <1>5, <2>1 DEF NoCurationPool, CurationPool
<1>7. PoolSound(c, s)
  <2>. HIDE DEF c, toTokens, pool, left
  <2>. QED
    BY <1>2, <1>3, <1>4, <1>5, <1>6, MaxPPM DEF PoolSound
<1>8. KeepsCurve(c, s)
  <2>1. CASE left = 0
    <3>1. ~(PointOnCurve(c, s).supply > 0)
      BY <1>5, <2>1 DEF PointOnCurve
    <3>. QED
      BY <3>1 DEF KeepsCurve
  <2>2. CASE left # 0
    <3>1. toTokens * Power(supply, k) >= pool.tokens * Power(left, k)
      <4>1. k \in Nat /\ toTokens \in Nat
        <5>. HIDE DEF pool
        <5>. QED
          BY <1>2, <1>4, <2>2, SteepnessNat
      <4>. HIDE DEF k, left, supply, toTokens, pool
      <4>2. Power(left, k) \in Nat /\ Power(supply, k) \in Nat
        BY <1>2, <1>3, <4>1, PowerNat
      <4>. QED
        BY <1>2, <1>4, <2>2, <4>1, <4>2, ProductTurned
    <3>2. /\ PointOnCurve(c, s) = [tokens |-> toTokens, supply |-> left]
          /\ PointOnCurve(curationLedger, s) = [tokens |-> pool.tokens, supply |-> supply]
      BY <1>5, <1>6 DEF PointOnCurve
    <3>. HIDE DEF c, toTokens, left, supply
    <3>. QED
      BY <1>2, <1>6, <2>2, <3>1, <3>2 DEF KeepsCurve
  <2>. QED
    BY <2>1, <2>2
<1>9. c.grt[CurationAddress] - curationLedger.grt[CurationAddress] = c.pools[s].tokens - pool.tokens
  <2>1. curationLedger.grt[CurationAddress] \in Int
    BY DEF DraftSound, CurationDraft, CurationHolders
  <2>. HIDE DEF c, pool, left
  <2>. QED
    BY <1>2, <1>4, <1>5, <1>6, <2>1
<1>. QED
  BY <1>5, <1>7, <1>8, <1>9 DEF SoundStep

\* A transfer of signal among curators leaves its sum as it is.
LEMMA TransferKeepsSum ==
    ASSUME NEW f \in [Curators -> Nat], NEW from \in Curators, NEW to \in Curators,
           NEW n \in Nat, f[from] >= n
    PROVE  /\ Transferred(f, from, to, n) \in [Curators -> Nat]
           /\ SumFunctionOnSet(Transferred(f, from, to, n), Curators)
                 = SumFunctionOnSet(f, Curators)
<1>. DEFINE debited == [f EXCEPT ![from] = @ - n]
            h == [debited EXCEPT ![to] = @ + n]
<1>1. /\ debited \in [Curators -> Nat]
      /\ \A x \in Curators : debited[x] = f[x] + IF x = from THEN -n ELSE 0
  OBVIOUS
<1>. HIDE DEF debited
<1>2. /\ h \in [Curators -> Nat]
      /\ \A x \in Curators : h[x] = debited[x] + IF x = to THEN n ELSE 0
  BY <1>1
<1>. HIDE DEF h
<1>3. /\ f \in [Curators -> Int] /\ -n \in Int
      /\ \A x \in Curators : debited[x] = f[x] + IF x = from THEN -n ELSE 0
  BY <1>1
<1>4. SumFunctionOnSet(debited, Curators) = SumFunctionOnSet(f, Curators) + (-n)
  BY <1>3, SignalMoves, Zenon
<1>5. /\ debited \in [Curators -> Int] /\ n \in Int
      /\ \A x \in Curators : h[x] = debited[x] + IF x = to THEN n ELSE 0
  BY <1>1, <1>2
<1>6. SumFunctionOnSet(h, Curators) = SumFunctionOnSet(debited, Curators) + n
  BY <1>5, SignalMoves, Zenon
<1>7. SumFunctionOnSet(f, Curators) \in Int
  <2>1. \A x \in Curators : f[x] \in Int
    BY <1>3
  <2>. QED
    BY <2>1, SumIsInt, FiniteCurationAssumption
<1>8. SumFunctionOnSet(h, Curators) = SumFunctionOnSet(f, Curators)
  BY <1>4, <1>6, <1>7
<1>. QED
  BY <1>2, <1>8, Zenon DEF h, debited, Transferred

\* Signal that changes hands is a sound step.
LEMMA TransferSound ==
    ASSUME DraftSound(curationLedger), NEW s \in Subgraphs, NEW h \in [Curators -> Nat],
           SumFunctionOnSet(h, Curators) = SumFunctionOnSet(curationLedger.signal[s], Curators)
    PROVE  SoundStep(curationLedger, [curationLedger EXCEPT !.signal[s] = h], s)
<1>. DEFINE c == [curationLedger EXCEPT !.signal[s] = h]
<1>6. /\ c \in CurationDraft
      /\ c.pools = curationLedger.pools /\ c.grt = curationLedger.grt
      /\ c.signal[s] = h
      /\ \A r \in Subgraphs \ {s} : c.signal[r] = curationLedger.signal[r]
  <2>1. PICK pools \in [Subgraphs -> CurationPool], grt \in [CurationHolders -> Int],
             signal \in [Subgraphs -> [Curators -> Nat]] :
                curationLedger = [pools |-> pools, signal |-> signal, grt |-> grt]
    BY LedgerParts DEF DraftSound
  <2>. DEFINE newSignal == [signal EXCEPT ![s] = h]
  <2>2. /\ newSignal \in [Subgraphs -> [Curators -> Nat]]
        /\ newSignal[s] = h
        /\ \A r \in Subgraphs \ {s} : newSignal[r] = signal[r]
    OBVIOUS
  <2>3. c = SetSignal(curationLedger, s, h)
    BY DEF SetSignal
  <2>. HIDE DEF c
  <2>4. c = [pools |-> pools, signal |-> newSignal, grt |-> grt]
    BY <2>1, <2>3, SetSignalIs
  <2>. HIDE DEF newSignal
  <2>. QED
    BY <2>1, <2>2, <2>4 DEF CurationDraft
<1>. HIDE DEF c
<1>7. CurationPoolSignal(c, s) = CurationPoolSignal(curationLedger, s)
  <2>1. curationLedger \in CurationDraft
    BY DEF DraftSound
  <2>. QED
    BY <1>6, <2>1, SignalIsSum
<1>8. PoolSound(c, s) /\ KeepsCurve(c, s)
  BY <1>6, <1>7, UnchangedKeepsCurve
<1>9. c.grt[CurationAddress] - curationLedger.grt[CurationAddress]
         = c.pools[s].tokens - curationLedger.pools[s].tokens
  <2>1. /\ curationLedger.grt[CurationAddress] \in Int
        /\ curationLedger.pools[s].tokens \in Nat
    BY DEF DraftSound, CurationDraft, CurationHolders, CurationPool
  <2>. QED
    BY <1>6, <2>1
<1>. QED
  BY <1>6, <1>8, <1>9 DEF SoundStep, c

\* And the arrival of fees, which lifts the pool above its curve.
LEMMA FeesSound ==
    ASSUME DraftSound(curationLedger),
           NEW s \in Subgraphs, NEW tokens \in Nat, IsCurated(s)
    PROVE  SoundStep(curationLedger, FeesCollected(s, tokens), s)
<1>. DEFINE c == FeesCollected(s, tokens)
            pool == curationLedger.pools[s]
            supply == CurationPoolSignal(curationLedger, s)
            k == Steepness(pool.reserveRatio)
<1>1. /\ pool.tokens \in Nat \ {0} /\ supply \in Nat \ {0}
      /\ pool.reserveRatio \in 1 .. MAX_PPM
  BY PoolTyped
<1>2. /\ c \in CurationDraft
      /\ c.signal = curationLedger.signal
      /\ \A r \in Subgraphs \ {s} : c.pools[r] = curationLedger.pools[r]
      /\ c.pools[s].tokens = pool.tokens + tokens
      /\ c.pools[s].reserveRatio = pool.reserveRatio
      /\ c.grt[CurationAddress] = curationLedger.grt[CurationAddress] + tokens
  <2>1. PICK pools \in [Subgraphs -> CurationPool], grt \in [CurationHolders -> Int],
             signal \in [Subgraphs -> [Curators -> Nat]] :
                curationLedger = [pools |-> pools, signal |-> signal, grt |-> grt]
    BY LedgerParts DEF DraftSound
  <2>. DEFINE richer == AddGRT(curationLedger, tokens)
              g == [grt EXCEPT ![CurationAddress] = @ + tokens]
  <2>2. c = AddTokens(richer, s, tokens)
    BY DEF FeesCollected, AddTokens, AddGRT
  <2>3. richer = [pools |-> pools, signal |-> signal, grt |-> g]
    BY <2>1, AddGRTIs
  <2>. HIDE DEF c, richer, g
  <2>4. c = [pools |-> [pools EXCEPT ![s].tokens = @ + tokens], signal |-> signal, grt |-> g]
    BY <2>2, <2>3, AddTokensIs
  <2>5. /\ [pools EXCEPT ![s].tokens = @ + tokens] \in [Subgraphs -> CurationPool]
        /\ g \in [CurationHolders -> Int]
        /\ g[CurationAddress] = grt[CurationAddress] + tokens
    BY DEF CurationPool, CurationHolders, g
  <2>. QED
    BY <2>1, <2>4, <2>5 DEF CurationDraft, CurationPool
<1>. HIDE DEF c
<1>3. CurationPoolSignal(c, s) = supply
  BY <1>2 DEF CurationPoolSignal
<1>4. PoolSound(c, s)
  <2>. HIDE DEF pool, supply
  <2>. QED
    BY <1>1, <1>2, <1>3, MaxPPM DEF PoolSound
<1>5. KeepsCurve(c, s)
  <2>1. (pool.tokens + tokens) * Power(supply, k) >= pool.tokens * Power(supply, k)
    <3>1. k \in Nat
      BY <1>1, SteepnessNat
    <3>. HIDE DEF pool, supply, k
    <3>2. Power(supply, k) \in Nat
      BY <1>1, <3>1, PowerNat
    <3>3. \A x, y, p \in Nat : (x + y) * p >= x * p
      OBVIOUS
    <3>. QED
      BY <1>1, <3>2, <3>3
  <2>2. /\ PointOnCurve(c, s) = [tokens |-> pool.tokens + tokens, supply |-> supply]
        /\ PointOnCurve(curationLedger, s) = [tokens |-> pool.tokens, supply |-> supply]
    BY <1>2, <1>3 DEF PointOnCurve
  <2>. HIDE DEF supply
  <2>. QED
    BY <1>2, <2>1, <2>2 DEF KeepsCurve
<1>6. c.grt[CurationAddress] - curationLedger.grt[CurationAddress] = c.pools[s].tokens - pool.tokens
  <2>1. curationLedger.grt[CurationAddress] \in Int
    BY DEF DraftSound, CurationDraft, CurationHolders
  <2>. HIDE DEF pool
  <2>. QED
    BY <1>1, <1>2, <2>1
<1>. QED
  BY <1>2, <1>4, <1>5, <1>6 DEF SoundStep, c

-----------------------------------------------------------------------------
(* The invariant *)

\* The invariant holds initially.
LEMMA CurationInitially == CurationAlone => CurationInvariant
<1>. SUFFICES ASSUME CurationAlone PROVE CurationInvariant
  OBVIOUS
<1>1. /\ curationLedger =
            [pools  |-> [s \in Subgraphs |-> NoCurationPool],
             signal |-> [s \in Subgraphs |-> [c \in Curators |-> 0]],
             grt    |-> [h \in CurationHolders |->
                           IF h \in Curators THEN InitialCuratorGRT[h] ELSE 0]]
      /\ curationParams = InitialCurationParams
  BY DEF CurationAlone, CurationInit
<1>2. curationLedger \in CurationDraft
  BY <1>1, CurationAssumption DEF CurationDraft, CurationPool, NoCurationPool
<1>3. curationLedger.grt[CurationAddress] = 0
  BY <1>1, CurationAssumption DEF CurationHolders
<1>4. SumFunction([s \in Subgraphs |-> curationLedger.pools[s].tokens]) = 0
  <2>. DEFINE f == [s \in Subgraphs |-> curationLedger.pools[s].tokens]
  <2>1. \A s \in Subgraphs : f[s] = 0
    BY <1>1 DEF NoCurationPool
  <2>2. DOMAIN f = Subgraphs
    OBVIOUS
  <2>3. SumFunctionOnSet(f, Subgraphs) = 0
    <3>. HIDE DEF f
    <3>. QED
      BY <2>1, SumOfZeros, FiniteCurationAssumption
  <2>. QED
    BY <2>2, <2>3, Zenon DEF SumFunction
<1>5. ASSUME NEW s \in Subgraphs PROVE PoolSound(curationLedger, s)
  <2>. DEFINE f == curationLedger.signal[s]
  <2>1. \A c \in Curators : f[c] = 0
    BY <1>1
  <2>2. SumFunctionOnSet(f, Curators) = 0
    <3>. HIDE DEF f
    <3>. QED
      BY <2>1, SumOfZeros, FiniteCurationAssumption
  <2>3. CurationPoolSignal(curationLedger, s) = 0
    BY <1>2, <2>2, SignalIsSum
  <2>4. curationLedger.pools[s].tokens = 0 /\ curationLedger.pools[s].reserveRatio = 0
    BY <1>1 DEF NoCurationPool
  <2>. QED
    BY <2>3, <2>4, MaxPPM DEF PoolSound
<1>6. Settled(curationLedger)
  <2>1. \A h \in CurationHolders : curationLedger.grt[h] \in Nat
    BY <1>1, CurationAssumption
  <2>. QED
    BY <2>1 DEF Settled
<1>. QED
  BY <1>1, <1>2, <1>3, <1>4, <1>5, <1>6, CurationAssumption DEF CurationInvariant, DraftSound

\* A sound ledger that commits keeps it.
LEMMA CommitKeeps ==
    ASSUME CurationInvariant, NEW c, DraftSound(c), CommitCuration(c)
    PROVE  CurationInvariant'
<1>1. /\ curationLedger' = c
      /\ curationParams' = curationParams
      /\ curationParams \in CurationParams
      /\ Settled(c)
  BY DEF CurationInvariant, CommitCuration, Settled
<1>. HIDE DEF CurationParams
<1>. QED
  BY <1>1 DEF CurationInvariant

\* A sound step that commits keeps it, and no pool falls below its curve.
LEMMA CommitStepKeeps ==
    ASSUME CurationInvariant, NEW s \in Subgraphs, NEW c,
           SoundStep(curationLedger, c, s), CommitCuration(c)
    PROVE  CurationInvariant' /\ \A r \in Subgraphs : KeepsCurve(curationLedger', r)
<1>1. DraftSound(curationLedger) /\ curationLedger' = c
  BY DEF CurationInvariant, CommitCuration
<1>2. \A r \in Subgraphs : KeepsCurve(curationLedger, r)
  BY <1>1, UnchangedKeepsCurve DEF DraftSound
<1>3. DraftSound(c) /\ \A r \in Subgraphs : KeepsCurve(c, r)
  BY <1>1, <1>2, SoundStepKeeps
<1>4. CurationInvariant'
  BY <1>3, CommitKeeps
<1>. QED
  BY <1>1, <1>3, <1>4

\* Every step keeps the invariant, and every pool on its curve or above.
LEMMA CurationStepKeeps ==
    ASSUME CurationInvariant, [CurationNext]_<<curationVars, pauses>>
    PROVE  CurationInvariant' /\ \A r \in Subgraphs : KeepsCurve(curationLedger', r)
<1>1. /\ DraftSound(curationLedger)
      /\ curationParams \in CurationParams
      /\ curationLedger \in CurationDraft
  BY DEF CurationInvariant, DraftSound
<1>3. ASSUME NEW curator \in Curators, NEW s \in Subgraphs, NEW t \in SignalDeposits,
             NEW m \in SlippageBounds, Mint(curator, s, t, m)
      PROVE  CurationInvariant' /\ \A r \in Subgraphs : KeepsCurve(curationLedger', r)
  <2>1. PICK signalOut \in SignalsMinted(s, t) :
           CommitCuration(Signalled(curationLedger, curator, s, t, signalOut))
    BY <1>3 DEF Mint
  <2>2. t \in Nat
    BY CurationAssumption
  <2>4. SoundStep(curationLedger, Signalled(curationLedger, curator, s, t, signalOut), s)
    BY <1>1, <2>2, MintSound
  <2>. QED
    BY <2>1, <2>4, CommitStepKeeps
<1>4. ASSUME NEW curator \in Curators, NEW s \in Subgraphs, NEW n \in SignalAmounts,
             NEW m \in SlippageBounds, Burn(curator, s, n, m)
      PROVE  CurationInvariant' /\ \A r \in Subgraphs : KeepsCurve(curationLedger', r)
  <2>1. PICK tokensOut \in TokensReturned(curator, s, n) :
           CommitCuration(Unsignalled(curator, s, n, tokensOut))
    BY <1>4 DEF Burn
  <2>2. n \in Nat
    BY CurationAssumption
  <2>4. SoundStep(curationLedger, Unsignalled(curator, s, n, tokensOut), s)
    BY <1>1, <2>2, BurnSound
  <2>. QED
    BY <2>1, <2>4, CommitStepKeeps
<1>5. ASSUME NEW from \in Curators, NEW to \in Curators, NEW s \in Subgraphs,
             NEW n \in SignalAmounts, TransferSignal(from, to, s, n)
      PROVE  CurationInvariant' /\ \A r \in Subgraphs : KeepsCurve(curationLedger', r)
  <2>. DEFINE f == curationLedger.signal[s]
              h == Transferred(f, from, to, n)
              c == [curationLedger EXCEPT !.signal[s] = h]
  <2>1. f[from] >= n /\ CommitCuration(c)
    BY <1>5, Zenon DEF TransferSignal, Transferred
  <2>2. n \in Nat /\ f \in [Curators -> Nat]
    BY <1>1, CurationAssumption DEF CurationDraft
  <2>3. /\ h \in [Curators -> Nat]
        /\ SumFunctionOnSet(h, Curators) = SumFunctionOnSet(f, Curators)
    <3>1. f \in [Curators -> Nat] /\ n \in Nat /\ f[from] >= n
      BY <2>1, <2>2
    <3>. HIDE DEF f
    <3>. QED
      BY <3>1, TransferKeepsSum
  <2>. HIDE DEF h
  <2>4. SoundStep(curationLedger, c, s)
    BY <1>1, <2>3, TransferSound
  <2>. HIDE DEF c
  <2>. QED
    BY <2>1, <2>4, CommitStepKeeps
<1>6. ASSUME NEW s \in Subgraphs, NEW t \in CurationFeeAmounts, CollectCurationFees(s, t)
      PROVE  CurationInvariant' /\ \A r \in Subgraphs : KeepsCurve(curationLedger', r)
  <2>1. t \in Nat /\ IsCurated(s) /\ CommitCuration(FeesCollected(s, t))
    BY <1>6, CurationAssumption DEF CollectCurationFees, CanCollect
  <2>2. SoundStep(curationLedger, FeesCollected(s, t), s)
    BY <1>1, <2>1, FeesSound
  <2>. QED
    BY <2>1, <2>2, CommitStepKeeps
<1>7. ASSUME curationLedger' = curationLedger, curationParams' \in CurationParams
      PROVE  CurationInvariant' /\ \A r \in Subgraphs : KeepsCurve(curationLedger', r)
  <2>1. CurationInvariant'
    BY <1>1, <1>7 DEF CurationInvariant
  <2>2. \A r \in Subgraphs : KeepsCurve(curationLedger, r)
    BY <1>1, UnchangedKeepsCurve
  <2>. QED
    BY <1>7, <2>1, <2>2
<1>8. ASSUME NEW x \in CurationSettings, NEW v \in CurationSettingChoices[x],
             SetCurationParameter(x, v)
      PROVE  CurationInvariant' /\ \A r \in Subgraphs : KeepsCurve(curationLedger', r)
  <2>1. /\ AcceptsSetting(x, v) /\ curationLedger' = curationLedger
        /\ curationParams' = [curationParams EXCEPT ![x] = v]
    BY <1>8 DEF SetCurationParameter
  <2>2. v \in Nat
    BY CurationAssumption
  <2>3. curationParams' \in [CurationSettings -> Nat]
    BY <1>1, <2>1, <2>2 DEF CurationParams
  <2>4. \A y \in CurationSettings : curationParams'[y] = IF y = x THEN v ELSE curationParams[y]
    BY <1>1, <2>1 DEF CurationParams
  <2>5. \A y \in CurationSettings : AcceptsSetting(y, curationParams[y])
    BY <1>1 DEF CurationParams
  <2>6. \A y \in CurationSettings : AcceptsSetting(y, curationParams'[y])
    BY <2>1, <2>4, <2>5
  <2>7. curationParams' \in CurationParams
    BY <2>3, <2>6 DEF CurationParams
  <2>. QED
    BY <1>7, <2>1, <2>7
<1>9. CASE SwitchPause /\ UNCHANGED curationVars
  BY <1>1, <1>7, <1>9 DEF curationVars
<1>10. CASE UNCHANGED <<curationVars, pauses>>
  BY <1>1, <1>7, <1>10 DEF curationVars
<1>. QED
  BY <1>3, <1>4, <1>5, <1>6, <1>8, <1>9, <1>10
  DEF CurationNext, MintSteps, BurnSteps, TransferSteps, FeeSteps, SettingSteps

\* What curators deposited is there for the signal they hold, however many they
\* are and whatever they, the indexers' fees and the governor do: the contract
\* holds the GRT of its pools to the token, and a pool has a reserve and a curve
\* exactly while it has signal.
THEOREM CurationReservesSound == CurationSpec => []ReservesSound
<1>1. CurationAlone => CurationInvariant
  BY CurationInitially
<1>2. CurationInvariant /\ [CurationNext]_<<curationVars, pauses>> => CurationInvariant'
  BY CurationStepKeeps
<1>3. CurationInvariant => ReservesSound
  BY DEF CurationInvariant, DraftSound, PoolSound, ReservesSound, ReservesHeld,
         ReserveBacksSignal
<1>. QED
  BY <1>1, <1>2, <1>3, PTL DEF CurationSpec

\* Nobody beats the curve, however steep it is: the amounts that mint and burn
\* give, truncated as they are, leave every pool on its curve or above it, and so
\* do fees and transfers of signal.
THEOREM CurvesHold == CurationSpec => NobodyBeatsTheCurve
<1>. DEFINE Keeps == \A s \in Subgraphs : KeepsCurve(curationLedger', s)
            Body == \A s \in Subgraphs :
                LET pool  == curationLedger'.pools[s]
                    k     == Steepness(pool.reserveRatio)
                    first == ~IsCurated(s)
                    from  == IF first THEN StartOfCurve(curationParams)
                             ELSE PointOnCurve(curationLedger, s)
                    to    == PointOnCurve(curationLedger', s)
                IN  to.supply > 0 =>
                       /\ to.tokens * Power(from.supply, k) >= from.tokens * Power(to.supply, k)
                       /\ first \/ pool.reserveRatio = curationLedger.pools[s].reserveRatio
<1>1. CurationAlone => CurationInvariant
  BY CurationInitially
<1>2. CurationInvariant /\ [CurationNext]_<<curationVars, pauses>> => CurationInvariant'
  BY CurationStepKeeps
<1>3. CurationInvariant /\ [CurationNext]_<<curationVars, pauses>> => Body
  <2>1. CurationInvariant /\ [CurationNext]_<<curationVars, pauses>> => Keeps
    BY CurationStepKeeps
  <2>2. Keeps => Body
    BY Zenon DEF KeepsCurve
  <2>. QED
    BY <2>1, <2>2
<1>4. [][Body]_<<curationVars, pauses>> => NobodyBeatsTheCurve
  BY Zenon DEF NobodyBeatsTheCurve
<1>. HIDE DEF Body
<1>. QED
  BY <1>1, <1>2, <1>3, <1>4, PTL DEF CurationSpec
=============================================================================
