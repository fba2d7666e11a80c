--------------------------- MODULE RewardsProofs ---------------------------
(***************************************************************************)
(* Proofs about RewardsManager.tla with the staking and the curation       *)
(* contract that call it, for any deployments, allocations, signal and     *)
(* amounts, any issuance rate and any unit of the fixed-point arithmetic:  *)
(* what the open allocations of a deployment would be paid, and what the   *)
(* closed ones were, is covered by what the deployment accrued.            *)
(*                                                                         *)
(* The invariant is Funded: in fractions of a token, what the allocations  *)
(* on a deployment gained up to its last update, and what was paid, is at  *)
(* most what the deployment had accrued by then.  An update adds to the    *)
(* gains k times the allocated tokens of the deployment, which needs the   *)
(* books of the staking contract (that the running total is the sum of the *)
(* open allocations, StakingProofs), and k is the quotient of what the     *)
(* deployment accrues by just that total.  That it accrues at all, and     *)
(* nothing negative, needs that the truncated powers of the issuance rate  *)
(* do not decrease, and that the signal is never negative (CurationProofs).*)
(*                                                                         *)
(* From that invariant follow two statements about single steps.  Every    *)
(* step is of one of three kinds: in a HookedStep the staking contract     *)
(* opens or closes, and its hooks write only what the contract computes    *)
(* for this block; a QuietStep keeps all snapshots and opens nothing; a    *)
(* BlockStep only lets a block pass.  Unless the staking contract reprices *)
(* a deployment, the first two accrue nothing, and a block gives no more   *)
(* than it issues, since the reserves of the curation contract add up to   *)
(* no more than the signalled tokens (AccrualIsSound).  And a close can be *)
(* rewarded just while its deployment has accrued no less than its         *)
(* snapshot, which every hook restores (StaysRewardableWhileActive).       *)
(***************************************************************************)
EXTENDS StakingProofs, CurationProofs, RewardsProperties

-----------------------------------------------------------------------------
(* The powers of the issuance rate *)

\* All that the proofs need to know about the fixed-point unit.
LEMMA UnitNat == TokenDecimals \in Nat \ {0}
BY RewardsAssumption

\* Truncating division of integers, by its defining inequalities.
LEMMA IntDivBounds ==
    ASSUME NEW a \in Int, NEW b \in Nat \ {0}
    PROVE  /\ a \div b \in Int
           /\ (a \div b) * b <= a
           /\ a < (a \div b) * b + b
OBVIOUS

\* It keeps the order,
LEMMA DivGrows ==
    ASSUME NEW a \in Int, NEW c \in Int, a <= c, NEW b \in Nat \ {0}
    PROVE  a \div b <= c \div b
<1>. DEFINE p == a \div b
            q == c \div b
<1>1. p \in Int /\ q \in Int /\ p * b <= a /\ c < q * b + b
  BY IntDivBounds
<1>. HIDE DEF p, q
<1>2. p * b < (q + 1) * b
  BY <1>1
<1>3. \A x, y \in Int : x * b < y * b => x < y
  OBVIOUS
<1>4. p < q + 1
  BY <1>1, <1>2, <1>3
<1>. QED
  BY <1>1, <1>4 DEF p, q

\* and multiples of the divisor divide exactly.
LEMMA DivExact ==
    ASSUME NEW a \in Int, NEW b \in Nat \ {0}, NEW r \in Nat, r < b
    PROVE  (a * b + r) \div b = a
<1>. DEFINE p == (a * b + r) \div b
<1>1. a * b + r \in Int
  OBVIOUS
<1>2. p \in Int /\ p * b <= a * b + r /\ a * b + r < p * b + b
  BY <1>1, IntDivBounds
<1>. HIDE DEF p
<1>3. p * b < (a + 1) * b /\ a * b < (p + 1) * b
  BY <1>2
<1>4. \A x, y \in Int : x * b < y * b => x < y
  OBVIOUS
<1>5. p < a + 1 /\ a < p + 1
  BY <1>2, <1>3, <1>4
<1>. QED
  BY <1>2, <1>5 DEF p

\* A product grows with its factors.
LEMMA ProductsGrow ==
    ASSUME NEW x \in Nat, NEW v \in Nat, NEW y \in Nat, NEW w \in Nat, x <= v, y <= w
    PROVE  x * y <= v * w
<1>1. x * y <= v * y
  BY ProductGrows
<1>2. v * y <= v * w
  BY ProductGrows
<1>. QED
  BY <1>1, <1>2

\* The rounded product is a number, grows with its factors, and with one that is
\* the unit at least is no less than the other; the unit is neutral.
LEMMA FixedMulIs ==
    ASSUME NEW x \in Nat, NEW y \in Nat
    PROVE  /\ FixedMul(x, y) \in Nat
           /\ y >= TokenDecimals => FixedMul(x, y) >= x
           /\ FixedMul(TokenDecimals, y) = y
           /\ \A v, w \in Nat : x <= v /\ y <= w => FixedMul(x, y) <= FixedMul(v, w)
<1>. DEFINE D == TokenDecimals
            h == D \div 2
<1>1. D \in Nat \ {0} /\ h \in Nat /\ h < D
  BY UnitNat
<1>2. \A v, w : FixedMul(v, w) = (v * w + h) \div D
  BY DEF FixedMul
<1>. HIDE DEF D, h
<1>3. \A v, w \in Nat : v * w + h \in Nat
  BY <1>1, ProductNat
<1>4. FixedMul(x, y) \in Nat
  BY <1>1, <1>2, <1>3, DivBounds
<1>5. ASSUME y >= D PROVE FixedMul(x, y) >= x
  <2>1. x * D <= x * y
    BY <1>1, <1>5, ProductsGrow
  <2>2. x * D \in Int /\ x * D <= x * y + h /\ x * y + h \in Int
    BY <1>1, <1>3, <2>1
  <2>3. (x * D) \div D <= (x * y + h) \div D
    BY <1>1, <2>2, DivGrows
  <2>4. (x * D) \div D = x
    <3>1. (x * D + 0) \div D = x
      BY <1>1, DivExact
    <3>. QED
      BY <1>1, <3>1
  <2>. QED
    BY <1>2, <1>4, <2>3, <2>4
<1>6. FixedMul(D, y) = y
  <2>1. (y * D + h) \div D = y
    BY <1>1, DivExact
  <2>2. D * y = y * D
    BY <1>1
  <2>. QED
    BY <1>2, <2>1, <2>2
<1>7. ASSUME NEW v \in Nat, NEW w \in Nat, x <= v, y <= w
      PROVE  FixedMul(x, y) <= FixedMul(v, w)
  <2>1. x * y <= v * w /\ x * y \in Nat /\ v * w \in Nat
    BY <1>7, ProductsGrow, ProductNat
  <2>2. x * y + h \in Int /\ v * w + h \in Int /\ x * y + h <= v * w + h
    BY <1>1, <2>1
  <2>3. (x * y + h) \div D <= (v * w + h) \div D
    BY <1>1, <2>2, DivGrows
  <2>. QED
    BY <1>2, <2>3
<1>. QED
  BY <1>4, <1>5, <1>6, <1>7 DEF D

-----------------------------------------------------------------------------
(* The loop of _pow *)

\* One entry of the loop, from those before it.
LoopEntry(p, n, x, z) ==
    IF n = 0 THEN z
    ELSE p[n \div 2][FixedMul(x, x)][IF n % 2 = 1 THEN FixedMul(z, FixedMul(x, x)) ELSE z]

\* g holds the results of the loop for the counts up to n.
IsLoopTable(g, n) ==
    /\ g \in [0 .. n -> [Nat -> [Nat -> Nat]]]
    /\ \A i \in 0 .. n : \A x, z \in Nat : g[i][x][z] = LoopEntry(g, i, x, z)

\* The results of the loop for one count, as a table of them has them.
Results == [Nat -> [Nat -> Nat]]

LEMMA ResultsNat ==
    ASSUME NEW f \in Results, NEW x \in Nat, NEW z \in Nat
    PROVE  f[x] \in [Nat -> Nat] /\ f[x][z] \in Nat
<1>1. f[x] \in [Nat -> Nat]
  BY DEF Results
<1>. QED
  BY <1>1

\* They are equal if they are for every argument.
LEMMA ResultsEqual ==
    ASSUME NEW f \in Results, NEW h \in Results,
           \A x \in Nat : \A z \in Nat : f[x][z] = h[x][z]
    PROVE  f = h
<1>1. ASSUME NEW x \in Nat PROVE f[x] = h[x]
  <2>. DEFINE a == f[x]
              b == h[x]
  <2>1. a \in [Nat -> Nat] /\ b \in [Nat -> Nat] /\ \A z \in Nat : a[z] = b[z]
    BY ResultsNat
  <2>. HIDE DEF a, b
  <2>2. a = b
    BY <2>1
  <2>. QED
    BY <2>2 DEF a, b
<1>. DEFINE R == [Nat -> Nat]
<1>2. f \in [Nat -> R] /\ h \in [Nat -> R]
  BY DEF Results
<1>. HIDE DEF R
<1>. QED
  BY <1>1, <1>2

LEMMA TableEntries ==
    ASSUME NEW n \in Nat, NEW g, IsLoopTable(g, n), NEW i \in 0 .. n
    PROVE  /\ g[i] \in Results
           /\ \A x \in Nat : \A z \in Nat : g[i][x][z] = LoopEntry(g, i, x, z)
<1>1. g \in [0 .. n -> Results]
  BY DEF IsLoopTable, Results
<1>. QED
  BY <1>1 DEF IsLoopTable

\* The arguments of the next round are numbers.
LEMMA NextRound ==
    ASSUME NEW n \in Nat \ {0}, NEW x \in Nat, NEW z \in Nat
    PROVE  /\ n \div 2 \in 0 .. (n - 1)
           /\ FixedMul(x, x) \in Nat
           /\ (IF n % 2 = 1 THEN FixedMul(z, FixedMul(x, x)) ELSE z) \in Nat
<1>1. n \div 2 \in 0 .. (n - 1)
  OBVIOUS
<1>. QED
  BY <1>1, FixedMulIs

\* An entry reads only the entries before it.
LEMMA EntryDepends ==
    ASSUME NEW n \in Nat, NEW g, NEW h, \A i \in Nat : i < n => g[i] = h[i],
           NEW x \in Nat, NEW z \in Nat
    PROVE  LoopEntry(g, n, x, z) = LoopEntry(h, n, x, z)
<1>1. CASE n = 0
  BY <1>1 DEF LoopEntry
<1>2. CASE n # 0
  <2>1. n \div 2 \in Nat /\ n \div 2 < n
    BY <1>2
  <2>2. g[n \div 2] = h[n \div 2]
    BY <2>1
  <2>. QED
    BY <2>2 DEF LoopEntry
<1>. QED
  BY <1>1, <1>2

\* There are tables of any length.
LEMMA LoopTableExists ==
    ASSUME NEW n \in Nat
    PROVE  \E g : IsLoopTable(g, n)
<1>. DEFINE Q == {k \in Nat : ~\E g : IsLoopTable(g, k)}
<1>1. SUFFICES ASSUME Q # {} PROVE FALSE
  OBVIOUS
<1>2. PICK m \in Q : \A k \in Q : m <= k
  <2>1. Q \in SUBSET Nat
    OBVIOUS
  <2>. HIDE DEF Q
  <2>. QED
    BY <1>1, <2>1, LeastNumber
<1>3. m \in Nat
  OBVIOUS
<1>. DEFINE Before(g, i) == /\ g[i] \in Results
                            /\ \A x \in Nat : \A z \in Nat : g[i][x][z] = LoopEntry(g, i, x, z)
<1>4. PICK g : \A i \in 0 .. (m - 1) : Before(g, i)
  <2>1. CASE m = 0
    <3>1. 0 .. (m - 1) = {}
      BY <2>1
    <3>. HIDE DEF Before
    <3>. QED
      BY <3>1
  <2>2. CASE m # 0
    <3>1. m - 1 \in Nat /\ m - 1 \notin Q
      BY <1>2, <1>3, <2>2
    <3>2. PICK g : IsLoopTable(g, m - 1)
      BY <3>1
    <3>3. \A i \in 0 .. (m - 1) : Before(g, i)
      BY <3>1, <3>2, TableEntries
    <3>. HIDE DEF Before
    <3>. QED
      BY <3>3
  <2>. QED
    BY <2>1, <2>2
<1>. DEFINE last == [x \in Nat |-> [z \in Nat |-> LoopEntry(g, m, x, z)]]
            h == [i \in 0 .. m |-> IF i = m THEN last ELSE g[i]]
<1>5. ASSUME NEW x \in Nat, NEW z \in Nat PROVE LoopEntry(g, m, x, z) \in Nat
  <2>1. CASE m = 0
    BY <2>1 DEF LoopEntry
  <2>2. CASE m # 0
    <3>. DEFINE k == m \div 2
                y == FixedMul(x, x)
                w == IF m % 2 = 1 THEN FixedMul(z, y) ELSE z
    <3>1. k \in 0 .. (m - 1) /\ y \in Nat /\ w \in Nat
      BY <1>3, <2>2, NextRound
    <3>2. LoopEntry(g, m, x, z) = g[k][y][w]
      BY <2>2 DEF LoopEntry
    <3>. HIDE DEF k, y, w
    <3>3. g[k] \in Results
      BY <1>4, <3>1
    <3>. QED
      BY <3>1, <3>2, <3>3, ResultsNat
  <2>. QED
    BY <2>1, <2>2
<1>6. last \in Results /\ \A x \in Nat : \A z \in Nat : last[x][z] = LoopEntry(g, m, x, z)
  BY <1>5 DEF Results
<1>7. /\ h = [i \in 0 .. m |-> h[i]]
      /\ h[m] = last
      /\ \A i \in 0 .. m : i # m => i \in 0 .. (m - 1) /\ h[i] = g[i]
  <2>. HIDE DEF last
  <2>. QED
    BY <1>3
<1>. HIDE DEF last, h, Before
<1>8. ASSUME NEW i \in 0 .. m PROVE Before(h, i)
  <2>1. i \in Nat /\ i <= m
    BY <1>3
  <2>2. \A j \in Nat : j < i => h[j] = g[j]
    BY <1>3, <1>7, <2>1
  <2>3. \A x \in Nat : \A z \in Nat : LoopEntry(h, i, x, z) = LoopEntry(g, i, x, z)
    BY <2>1, <2>2, EntryDepends
  <2>4. h[i] \in Results /\ \A x \in Nat : \A z \in Nat : h[i][x][z] = LoopEntry(g, i, x, z)
    <3>1. CASE i = m
      BY <1>6, <1>7, <3>1
    <3>2. CASE i # m
      <4>1. i \in 0 .. (m - 1) /\ h[i] = g[i]
        BY <1>7, <3>2
      <4>2. Before(g, i)
        BY <1>4, <4>1
      <4>. QED
        BY <4>1, <4>2 DEF Before
    <3>. QED
      BY <3>1, <3>2
  <2>. QED
    BY <2>3, <2>4 DEF Before
<1>9. IsLoopTable(h, m)
  <2>1. \A i \in 0 .. m : h[i] \in Results
    BY <1>8 DEF Before
  <2>2. h \in [0 .. m -> Results]
    BY <1>7, <2>1
  <2>3. \A i \in 0 .. m : \A x, z \in Nat : h[i][x][z] = LoopEntry(h, i, x, z)
    BY <1>8 DEF Before
  <2>. QED
    BY <2>2, <2>3 DEF IsLoopTable, Results
<1>. QED
  BY <1>2, <1>9

\* They agree where they overlap.
LEMMA LoopTablesAgree ==
    ASSUME NEW m \in Nat, NEW n \in Nat, m <= n, NEW g, IsLoopTable(g, m),
           NEW h, IsLoopTable(h, n)
    PROVE  \A i \in 0 .. m : g[i] = h[i]
<1>. DEFINE Q == {k \in 0 .. m : g[k] # h[k]}
<1>1. SUFFICES ASSUME Q # {} PROVE FALSE
  OBVIOUS
<1>2. PICK j \in Q : \A k \in Q : j <= k
  <2>1. Q \in SUBSET Nat
    OBVIOUS
  <2>. HIDE DEF Q
  <2>. QED
    BY <1>1, <2>1, LeastNumber
<1>3. j \in 0 .. m /\ j \in 0 .. n /\ j \in Nat
  OBVIOUS
<1>4. \A i \in Nat : i < j => g[i] = h[i]
  BY <1>2, <1>3
<1>5. \A x \in Nat : \A z \in Nat : LoopEntry(g, j, x, z) = LoopEntry(h, j, x, z)
  BY <1>3, <1>4, EntryDepends
<1>6. g[j] \in Results /\ \A x \in Nat : \A z \in Nat : g[j][x][z] = LoopEntry(g, j, x, z)
  BY <1>3, TableEntries
<1>7. h[j] \in Results /\ \A x \in Nat : \A z \in Nat : h[j][x][z] = LoopEntry(h, j, x, z)
  BY <1>3, TableEntries
<1>8. g[j] = h[j]
  BY <1>5, <1>6, <1>7, ResultsEqual
<1>. QED
  BY <1>2, <1>8

\* The loop computes what its recursive definition says, and that is a number.
LEMMA PowLoopIs ==
    ASSUME NEW n \in Nat, NEW x \in Nat, NEW z \in Nat
    PROVE  PowLoop[n][x][z] = LoopEntry(PowLoop, n, x, z) /\ PowLoop[n][x][z] \in Nat
<1>. DEFINE T(k) == CHOOSE g : IsLoopTable(g, k)
            F == [k \in Nat |-> T(k)[k]]
            Round(p, k) == [y \in Nat |-> [w \in Nat |-> LoopEntry(p, k, y, w)]]
            Level(p) == [k \in Nat |-> Round(p, k)]
<1>1. \A k \in Nat : IsLoopTable(T(k), k)
  BY LoopTableExists
<1>. HIDE DEF T
<1>2. ASSUME NEW k \in Nat PROVE F[k] = Round(F, k)
  <2>1. F[k] = T(k)[k] /\ k \in 0 .. k
    OBVIOUS
  <2>2. ASSUME NEW i \in Nat, i < k PROVE F[i] = T(k)[i]
    <3>1. i \in 0 .. i /\ i <= k
      BY <2>2
    <3>. QED
      BY <1>1, <3>1, LoopTablesAgree
  <2>. HIDE DEF F
  <2>3. \A y \in Nat : \A w \in Nat : LoopEntry(F, k, y, w) = LoopEntry(T(k), k, y, w)
    BY <2>2, EntryDepends
  <2>4. /\ F[k] \in Results
        /\ \A y \in Nat : \A w \in Nat : F[k][y][w] = LoopEntry(T(k), k, y, w)
    BY <1>1, <2>1, TableEntries
  <2>5. \A y \in Nat : \A w \in Nat : F[k][y][w] = LoopEntry(F, k, y, w)
    BY <2>3, <2>4
  <2>6. ASSUME NEW y \in Nat, NEW w \in Nat PROVE LoopEntry(F, k, y, w) \in Nat
    <3>1. F[k][y][w] \in Nat
      BY <2>4, ResultsNat
    <3>. QED
      BY <2>5, <3>1
  <2>7. Round(F, k) \in Results
    BY <2>6 DEF Results
  <2>8. \A y \in Nat : \A w \in Nat : Round(F, k)[y][w] = LoopEntry(F, k, y, w)
    OBVIOUS
  <2>. HIDE DEF Round
  <2>. QED
    BY <2>4, <2>5, <2>7, <2>8, ResultsEqual
<1>3. F = Level(F)
  <2>1. F = [k \in Nat |-> F[k]]
    OBVIOUS
  <2>. HIDE DEF F, Round
  <2>. QED
    BY <1>2, <2>1
<1>4. PowLoop = CHOOSE p : p = Level(p)
  BY DEF PowLoop, LoopEntry
<1>. HIDE DEF Level, F
<1>5. PowLoop = Level(PowLoop)
  BY <1>3, <1>4
<1>6. ASSUME NEW k \in Nat
      PROVE  \A y \in Nat : \A w \in Nat : PowLoop[k][y][w] = LoopEntry(PowLoop, k, y, w)
  <2>. HIDE DEF Round
  <2>1. PowLoop[k] = Round(PowLoop, k)
    BY <1>5 DEF Level
  <2>2. \A y \in Nat : \A w \in Nat : Round(PowLoop, k)[y][w] = LoopEntry(PowLoop, k, y, w)
    BY DEF Round
  <2>. QED
    BY <2>1, <2>2
<1>. DEFINE Q == {k \in Nat : ~\A y \in Nat : \A w \in Nat : PowLoop[k][y][w] \in Nat}
<1>7. Q = {}
  <2>1. SUFFICES ASSUME Q # {} PROVE FALSE
    OBVIOUS
  <2>2. PICK j \in Q : \A k \in Q : j <= k
    <3>1. Q \in SUBSET Nat
      OBVIOUS
    <3>. HIDE DEF Q
    <3>. QED
      BY <2>1, <3>1, LeastNumber
  <2>3. PICK y \in Nat, w \in Nat : PowLoop[j][y][w] \notin Nat
    OBVIOUS
  <2>4. PowLoop[j][y][w] = LoopEntry(PowLoop, j, y, w) /\ j \in Nat
    BY <1>6
  <2>5. j # 0
    BY <2>3, <2>4 DEF LoopEntry
  <2>. DEFINE k == j \div 2
              yy == FixedMul(y, y)
              v == IF j % 2 = 1 THEN FixedMul(w, yy) ELSE w
  <2>6. k \in 0 .. (j - 1) /\ yy \in Nat /\ v \in Nat
    BY <2>4, <2>5, NextRound
  <2>7. PowLoop[j][y][w] = PowLoop[k][yy][v]
    BY <2>4, <2>5 DEF LoopEntry
  <2>. HIDE DEF k, yy, v
  <2>8. k \notin Q /\ k \in Nat
    BY <2>2, <2>4, <2>6
  <2>9. PowLoop[k][yy][v] \in Nat
    BY <2>6, <2>8
  <2>. QED
    BY <2>3, <2>7, <2>9
<1>. QED
  BY <1>6, <1>7

\* A round of the loop.
LEMMA PowRound ==
    ASSUME NEW n \in Nat \ {0}, NEW x \in Nat, NEW z \in Nat
    PROVE  PowLoop[n][x][z] = PowLoop[n \div 2][FixedMul(x, x)]
                                     [IF n % 2 = 1 THEN FixedMul(z, FixedMul(x, x)) ELSE z]
BY PowLoopIs DEF LoopEntry

\* Its last round gives what there is.
LEMMA PowDone ==
    ASSUME NEW x \in Nat, NEW z \in Nat
    PROVE  PowLoop[0][x][z] = z
BY PowLoopIs DEF LoopEntry

\* The square of a factor that is the unit at least is no less.
LEMMA SquareGrows ==
    ASSUME NEW x \in Nat, x >= TokenDecimals
    PROVE  FixedMul(x, x) \in Nat /\ FixedMul(x, x) >= x /\ FixedMul(x, x) >= TokenDecimals
<1>1. FixedMul(x, x) \in Nat /\ FixedMul(x, x) >= x
  BY FixedMulIs
<1>. QED
  BY <1>1, UnitNat

\* With a factor that is the unit at least, the loop gives no less than it starts
\* from, and no less for more.
LEMMA LoopGrows ==
    ASSUME NEW n \in Nat, NEW x \in Nat, x >= TokenDecimals, NEW z \in Nat, NEW w \in Nat,
           z <= w
    PROVE  z <= PowLoop[n][x][z] /\ PowLoop[n][x][z] <= PowLoop[n][x][w]
<1>. DEFINE P(k, y, u, v) == u <= PowLoop[k][y][u] /\ PowLoop[k][y][u] <= PowLoop[k][y][v]
            Q == {k \in Nat : \E y, u, v \in Nat : y >= TokenDecimals /\ u <= v /\ ~P(k, y, u, v)}
<1>1. SUFFICES ASSUME Q # {} PROVE FALSE
  OBVIOUS
<1>2. PICK j \in Q : \A k \in Q : j <= k
  <2>1. Q \in SUBSET Nat
    OBVIOUS
  <2>. HIDE DEF Q
  <2>. QED
    BY <1>1, <2>1, LeastNumber
<1>3. PICK y \in Nat, u \in Nat, v \in Nat : y >= TokenDecimals /\ u <= v /\ ~P(j, y, u, v)
  OBVIOUS
<1>4. j \in Nat
  OBVIOUS
<1>5. j # 0
  BY <1>3, PowDone
<1>. DEFINE k == j \div 2
            yy == FixedMul(y, y)
            uu == IF j % 2 = 1 THEN FixedMul(u, yy) ELSE u
            vv == IF j % 2 = 1 THEN FixedMul(v, yy) ELSE v
<1>6. PowLoop[j][y][u] = PowLoop[k][yy][uu] /\ PowLoop[j][y][v] = PowLoop[k][yy][vv]
  BY <1>4, <1>5, PowRound
<1>7. k \in 0 .. (j - 1) /\ yy \in Nat /\ uu \in Nat /\ vv \in Nat
  BY <1>4, <1>5, NextRound
<1>8. yy >= TokenDecimals
  BY <1>3, SquareGrows
<1>9. u <= uu /\ uu <= vv
  <2>1. yy \in Nat
    BY <1>7
  <2>. HIDE DEF yy
  <2>2. CASE j % 2 = 1
    <3>1. FixedMul(u, yy) >= u
      BY <1>8, <2>1, FixedMulIs
    <3>2. FixedMul(u, yy) <= FixedMul(v, yy)
      BY <1>3, <2>1, FixedMulIs
    <3>. QED
      BY <2>2, <3>1, <3>2
  <2>3. CASE j % 2 # 1
    BY <1>3, <2>3
  <2>. QED
    BY <2>2, <2>3
<1>. HIDE DEF yy, uu, vv, k
<1>10. k \notin Q /\ k \in Nat
  BY <1>2, <1>4, <1>7
<1>11. P(k, yy, uu, vv)
  BY <1>7, <1>8, <1>9, <1>10
<1>12. PowLoop[k][yy][uu] \in Nat /\ PowLoop[k][yy][vv] \in Nat
  BY <1>7, <1>10, PowLoopIs
<1>. QED
  BY <1>3, <1>6, <1>7, <1>9, <1>11, <1>12

\* One more of the square is no less than what is left of the last one.
LEMMA LoopNext ==
    ASSUME NEW n \in Nat, NEW x \in Nat, x >= TokenDecimals, NEW z \in Nat,
           z <= FixedMul(x, x)
    PROVE  PowLoop[n][x][z] <= PowLoop[n + 1][x][TokenDecimals]
<1>. DEFINE D == TokenDecimals
            P(k, y, u) == PowLoop[k][y][u] <= PowLoop[k + 1][y][D]
            Q == {k \in Nat : \E y, u \in Nat : y >= D /\ u <= FixedMul(y, y) /\ ~P(k, y, u)}
<1>0. D \in Nat \ {0}
  BY UnitNat
<1>1. SUFFICES ASSUME Q # {} PROVE FALSE
  OBVIOUS
<1>2. PICK j \in Q : \A k \in Q : j <= k
  <2>1. Q \in SUBSET Nat
    OBVIOUS
  <2>. HIDE DEF Q
  <2>. QED
    BY <1>1, <2>1, LeastNumber
<1>3. PICK y \in Nat, u \in Nat : y >= D /\ u <= FixedMul(y, y) /\ ~P(j, y, u)
  OBVIOUS
<1>4. j \in Nat
  OBVIOUS
<1>. DEFINE yy == FixedMul(y, y)
            k == j \div 2
<1>5. yy \in Nat /\ yy >= D
  BY <1>3, SquareGrows
<1>6. FixedMul(D, yy) = yy
  BY <1>0, <1>5, FixedMulIs
<1>7. CASE j % 2 = 0
  <2>1. (j + 1) % 2 = 1 /\ (j + 1) \div 2 = k /\ k \in Nat /\ j + 1 \in Nat \ {0}
    BY <1>4, <1>7
  <2>2. PowLoop[j + 1][y][D] = PowLoop[(j + 1) \div 2][yy]
                                   [IF (j + 1) % 2 = 1 THEN FixedMul(D, yy) ELSE D]
    BY <1>0, <2>1, PowRound
  <2>3. PowLoop[j + 1][y][D] = PowLoop[k][yy][yy]
    BY <1>6, <2>1, <2>2
  <2>4. PowLoop[j][y][u] = PowLoop[k][yy][u] \/ (j = 0 /\ PowLoop[j][y][u] = u)
    <3>1. CASE j = 0
      BY <3>1, PowDone
    <3>2. CASE j # 0
      <4>1. PowLoop[j][y][u] = PowLoop[k][yy][IF j % 2 = 1 THEN FixedMul(u, yy) ELSE u]
        BY <1>4, <3>2, PowRound
      <4>. QED
        BY <1>7, <4>1
    <3>. QED
      BY <3>1, <3>2
  <2>. HIDE DEF yy, k
  <2>5. u <= yy
    BY <1>3 DEF yy
  <2>6. PowLoop[k][yy][u] <= PowLoop[k][yy][yy] /\ yy <= PowLoop[k][yy][yy]
    BY <1>5, <2>1, <2>5, LoopGrows
  <2>7. PowLoop[k][yy][yy] \in Nat
    BY <1>5, <2>1, PowLoopIs
  <2>. QED
    BY <1>3, <1>5, <2>3, <2>4, <2>5, <2>6, <2>7
<1>8. CASE j % 2 = 1
  <2>1. /\ (j + 1) % 2 = 0 /\ (j + 1) \div 2 = k + 1 /\ k \in Nat /\ k < j
        /\ j + 1 \in Nat \ {0} /\ j \in Nat \ {0}
    BY <1>4, <1>8
  <2>. DEFINE uu == FixedMul(u, yy)
  <2>2. PowLoop[j][y][u] = PowLoop[k][yy][IF j % 2 = 1 THEN uu ELSE u]
    BY <2>1, PowRound
  <2>3. PowLoop[j + 1][y][D] = PowLoop[(j + 1) \div 2][yy]
                                   [IF (j + 1) % 2 = 1 THEN FixedMul(D, yy) ELSE D]
    BY <1>0, <2>1, PowRound
  <2>4. PowLoop[j][y][u] = PowLoop[k][yy][uu] /\ PowLoop[j + 1][y][D] = PowLoop[k + 1][yy][D]
    BY <1>8, <2>1, <2>2, <2>3
  <2>. HIDE DEF yy, k
  <2>5. uu \in Nat /\ uu <= FixedMul(yy, yy)
    <3>1. u <= yy
      BY <1>3 DEF yy
    <3>2. uu \in Nat /\ \A v, w \in Nat : u <= v /\ yy <= w => uu <= FixedMul(v, w)
      BY <1>5, FixedMulIs
    <3>. QED
      BY <1>5, <3>1, <3>2
  <2>6. k \notin Q
    BY <1>2, <1>4, <2>1
  <2>7. P(k, yy, uu)
    BY <1>5, <2>1, <2>5, <2>6
  <2>. QED
    BY <1>3, <2>4, <2>7
<1>. QED
  BY <1>4, <1>7, <1>8

\* The powers of a rate that is the unit at least are too, and grow block by block,
\* however the products are rounded.
LEMMA PowGrows ==
    ASSUME NEW x \in Nat, x >= TokenDecimals, NEW n \in Nat
    PROVE  /\ Pow(x, n) \in Nat
           /\ TokenDecimals <= Pow(x, n)
           /\ Pow(x, n) <= Pow(x, n + 1)
<1>. DEFINE D == TokenDecimals
            m == n \div 2
            z == IF n % 2 = 1 THEN x ELSE D
<1>1. D \in Nat \ {0} /\ z \in Nat /\ D <= z /\ m \in Nat
  BY UnitNat
<1>2. Pow(x, n) = PowLoop[m][x][z]
  BY DEF Pow
<1>. HIDE DEF z
<1>3. Pow(x, n) \in Nat
  BY <1>1, <1>2, PowLoopIs
<1>4. z <= Pow(x, n)
  BY <1>1, <1>2, LoopGrows
<1>5. CASE n % 2 = 0
  <2>1. (n + 1) % 2 = 1 /\ (n + 1) \div 2 = m
    BY <1>5
  <2>2. Pow(x, n + 1) = PowLoop[m][x][x] /\ Pow(x, n) = PowLoop[m][x][D]
    BY <1>5, <2>1 DEF Pow
  <2>. QED
    BY <1>1, <1>3, <1>4, <2>2, LoopGrows
<1>6. CASE n % 2 = 1
  <2>1. (n + 1) % 2 = 0 /\ (n + 1) \div 2 = m + 1
    BY <1>6
  <2>2. Pow(x, n + 1) = PowLoop[m + 1][x][D] /\ Pow(x, n) = PowLoop[m][x][x]
    BY <1>6, <2>1 DEF Pow
  <2>3. x <= FixedMul(x, x)
    BY SquareGrows
  <2>. QED
    BY <1>1, <1>3, <1>4, <2>2, <2>3, LoopNext
<1>. QED
  BY <1>5, <1>6

\* A common factor is left out of both sides.
LEMMA FactorCancels ==
    ASSUME NEW x \in Int, NEW y \in Int, NEW k \in Nat \ {0}, x * k <= y * k
    PROVE  x <= y
<1>1. SUFFICES ASSUME x >= y + 1 PROVE FALSE
  OBVIOUS
<1>2. x - y - 1 \in Nat
  BY <1>1
<1>3. (x - y - 1) * k >= 0
  BY <1>2
<1>4. (x - y - 1) * k = x * k - y * k - k
  OBVIOUS
<1>. QED
  BY <1>3, <1>4

-----------------------------------------------------------------------------
(* What the other steps of the staking contract leave alone *)

\* A ledger by its parts, and that m has the allocations of l.
IsLedger(l) == l = [p \in Parts |-> l[p]]
AllocationsStay(l, m) == IsLedger(m) /\ m.allocations = l.allocations

LEMMA TypedIsLedger ==
    ASSUME NEW l \in OpenLedger
    PROVE  IsLedger(l)
BY DEF OpenLedger, IsLedger, Parts

\* What the private functions that touch no allocation are made of.
LEMMA PartsStay ==
    ASSUME NEW l, IsLedger(l)
    PROVE  /\ \A x : AllocationsStay(l, [l EXCEPT !.stakes = x])
           /\ \A x : AllocationsStay(l, [l EXCEPT !.grt = x])
           /\ \A x : AllocationsStay(l, [l EXCEPT !.delegationPools = x])
           /\ \A x : AllocationsStay(l, [l EXCEPT !.delegations = x])
BY DEF AllocationsStay, IsLedger, Parts

LEMMA StayTransitive ==
    ASSUME NEW l, NEW m, NEW n, AllocationsStay(l, m), AllocationsStay(m, n)
    PROVE  AllocationsStay(l, n)
BY DEF AllocationsStay

LEMMA TransferStays ==
    ASSUME NEW l, IsLedger(l), NEW from, NEW to, NEW tokens
    PROVE  AllocationsStay(l, Transfer(l, from, to, tokens))
BY PartsStay DEF Transfer

LEMMA GoneStays ==
    ASSUME NEW l, IsLedger(l), NEW tokens
    PROVE  AllocationsStay(l, Gone(l, tokens))
BY DEF Gone, AllocationsStay, IsLedger, Parts

LEMMA StakedStays ==
    ASSUME NEW l, IsLedger(l), NEW i, NEW tokens
    PROVE  AllocationsStay(l, Staked(l, i, tokens))
BY DEF Staked, AllocationsStay, IsLedger, Parts

LEMMA StakeToStays ==
    ASSUME IInv, NEW sender, NEW i, NEW tokens, StakeTo(sender, i, tokens)
    PROVE  AllocationsStay(ledger, ledger')
BY TypedIsLedger, TransferStays, StakedStays, StayTransitive DEF IInv, Good, StakeTo, Commit, Pull, AllocationsStay

LEMMA WithdrawnStays ==
    ASSUME NEW l, IsLedger(l), NEW i
    PROVE  AllocationsStay(l, Withdrawn(l, i))
BY DEF Withdrawn, Push, Transfer, AllocationsStay, IsLedger, Parts

LEMMA UnstakeStays ==
    ASSUME IInv, NEW i, NEW tokens, Unstake(i, tokens)
    PROVE  AllocationsStay(ledger, ledger')
BY TypedIsLedger, WithdrawnStays DEF IInv, Good, Unstake, Commit, AllocationsStay, IsLedger, Parts

LEMMA WithdrawStays ==
    ASSUME IInv, NEW i, Withdraw(i)
    PROVE  AllocationsStay(ledger, ledger')
BY TypedIsLedger, WithdrawnStays DEF IInv, Good, Withdraw, Commit, AllocationsStay

LEMMA ParametersStay ==
    ASSUME IInv, NEW i, NEW r, NEW q, NEW c, SetDelegationParameters(i, r, q, c)
    PROVE  AllocationsStay(ledger, ledger')
BY TypedIsLedger DEF IInv, Good, SetDelegationParameters, Commit, AllocationsStay, IsLedger, Parts

LEMMA SlashStays ==
    ASSUME IInv, NEW a, NEW i, NEW tokens, NEW reward, NEW b, Slash(a, i, tokens, reward, b)
    PROVE  AllocationsStay(ledger, ledger')
<1>. DEFINE n == [ledger EXCEPT !.stakes[i] =
                     Release(UnlockedForSlash(@, tokens), tokens)]
            o == Gone(n, tokens - reward)
<1>1. AllocationsStay(ledger, n)
  BY TypedIsLedger DEF IInv, Good, AllocationsStay, IsLedger, Parts
<1>2. ledger' = Transfer(o, StakingAddress, b, reward)
  BY DEF Slash, Slashed, Commit, Push
<1>. HIDE DEF n
<1>3. AllocationsStay(n, o)
  BY <1>1, GoneStays DEF AllocationsStay
<1>. HIDE DEF o
<1>4. AllocationsStay(o, ledger')
  BY <1>2, <1>3, TransferStays DEF AllocationsStay
<1>. QED
  BY <1>1, <1>3, <1>4, StayTransitive

LEMMA DelegatedStays ==
    ASSUME NEW l, IsLedger(l), NEW d, NEW i, NEW tokens
    PROVE  AllocationsStay(l, Delegated(l, d, i, tokens))
BY DEF Delegated, Gone, AllocationsStay, IsLedger, Parts

LEMMA PaidStays ==
    ASSUME NEW l, IsLedger(l), NEW d, NEW i
    PROVE  /\ AllocationsStay(l, Unlocked(l, d, i))
           /\ AllocationsStay(l, DelegationPaid(l, d, i))
<1>1. AllocationsStay(l, Unlocked(l, d, i))
  BY DEF Unlocked, AllocationsStay, IsLedger, Parts
<1>. QED
  BY <1>1, TransferStays, StayTransitive DEF DelegationPaid, Push, AllocationsStay

LEMMA DelegateStays ==
    ASSUME IInv, NEW d, NEW i, NEW tokens, Delegate(d, i, tokens)
    PROVE  AllocationsStay(ledger, ledger')
BY TypedIsLedger, TransferStays, DelegatedStays, StayTransitive DEF IInv, Good, Delegate, Commit, Pull, AllocationsStay

LEMMA UndelegateStays ==
    ASSUME IInv, NEW d, NEW i, NEW shares, Undelegate(d, i, shares)
    PROVE  AllocationsStay(ledger, ledger')
<1>. DEFINE delegation == ledger.delegations[i][d]
            paid == IF WithdrawableDelegated(delegation) > 0
                    THEN DelegationPaid(ledger, d, i) ELSE ledger
            unbonding == params["delegationUnbondingPeriod"]
            shared == TokensFor(ledger.delegationPools[i], shares)
            n == [paid EXCEPT !.delegationPools[i] = PoolLeave(@, shares)]
<1>1. AllocationsStay(ledger, paid)
  BY TypedIsLedger, PaidStays DEF IInv, Good, AllocationsStay
<1>2. ledger' = [paid EXCEPT !.delegationPools[i] = PoolLeave(@, shares),
                             !.delegations[i][d] = DelegationLeave(@, shares, shared,
                                                                   epoch + unbonding)]
  BY DEF Undelegate, Commit
<1>. HIDE DEF paid
<1>. QED
  BY <1>1, <1>2 DEF AllocationsStay, IsLedger, Parts

LEMMA WithdrawDelegatedStays ==
    ASSUME IInv, NEW d, NEW i, NEW to, WithdrawDelegated(d, i, to)
    PROVE  AllocationsStay(ledger, ledger')
BY TypedIsLedger, PaidStays, DelegatedStays, StayTransitive DEF IInv, Good, WithdrawDelegated, Commit, AllocationsStay

-----------------------------------------------------------------------------
(* The allocations that are open *)

\* From l to m no allocation is opened or closed.
OpenStay(l, m) ==
    \A id \in AllocationIDs :
        LET a == l.allocations[id]
            b == m.allocations[id]
        IN  /\ IsActive(b) <=> IsActive(a)
            /\ IsActive(a) => /\ b.tokens = a.tokens
                              /\ b.subgraphDeploymentID = a.subgraphDeploymentID

LEMMA SameOpenStay ==
    ASSUME NEW l, NEW m, m.allocations = l.allocations
    PROVE  OpenStay(l, m)
BY DEF OpenStay

\* A claim is of an allocation that is closed.
LEMMA ClaimsOpenStay ==
    ASSUME NEW l, Good(l), NEW m, NEW id \in AllocationIDs, NEW rebate, CanClaim(l, id),
           Claims(l, m, id, rebate)
    PROVE  OpenStay(l, m)
<1>1. ~IsActive(l.allocations[id])
  BY DEF CanClaim, StateOf, AllocationState, IsActive
<1>2. Purged(l.allocations[id]).tokens = 0
  BY DEF Purged, NoAllocation
<1>3. l.allocations \in [AllocationIDs -> Allocation]
  BY DEF Good, OpenLedger
<1>. QED
  BY <1>1, <1>2, <1>3 DEF Claims, OpenStay, IsActive

LEMMA OpenStayTransitive ==
    ASSUME NEW l, NEW m, NEW n, OpenStay(l, m), OpenStay(m, n)
    PROVE  OpenStay(l, n)
BY DEF OpenStay

LEMMA ClaimStays ==
    ASSUME IInv, NEW sender, NEW id \in AllocationIDs, NEW restake,
           Claim(sender, id, restake)
    PROVE  OpenStay(ledger, ledger')
<1>1. PICK rebate \in RebatesFor(ledger, id) :
         ledger' = Claimed(ledger, sender, id, rebate, restake)
  BY DEF Claim, Commit
<1>2. CanClaim(ledger, id) /\ Good(ledger) /\ Context
  BY InvContext DEF Claim, IInv
<1>3. Claims(ledger, ledger', id, rebate)
  BY <1>1, <1>2, ClaimedGood
<1>. QED
  BY <1>2, <1>3, ClaimsOpenStay

LEMMA ClaimManyStays ==
    ASSUME IInv, NEW sender, NEW id1 \in AllocationIDs, NEW id2 \in AllocationIDs,
           NEW restake, ClaimMany(sender, id1, id2, restake)
    PROVE  OpenStay(ledger, ledger')
<1>1. PICK rebate1 \in RebatesFor(ledger, id1) :
         LET l == Claimed(ledger, sender, id1, rebate1, restake)
         IN  /\ CanClaim(l, id2)
             /\ \E rebate2 \in RebatesFor(l, id2) :
                   ledger' = Claimed(l, sender, id2, rebate2, restake)
  BY DEF ClaimMany, Commit
<1>. DEFINE l == Claimed(ledger, sender, id1, rebate1, restake)
<1>2. CanClaim(ledger, id1) /\ Good(ledger) /\ Context
  BY InvContext DEF ClaimMany, IInv
<1>3. Good(l) /\ Claims(ledger, l, id1, rebate1)
  BY <1>2, ClaimedGood
<1>4. CanClaim(l, id2)
  BY <1>1
<1>5. PICK rebate2 \in RebatesFor(l, id2) : ledger' = Claimed(l, sender, id2, rebate2, restake)
  BY <1>1
<1>. HIDE DEF l
<1>6. Claims(l, ledger', id2, rebate2)
  BY <1>2, <1>3, <1>4, <1>5, ClaimedGood
<1>. QED
  BY <1>2, <1>3, <1>4, <1>6, ClaimsOpenStay, OpenStayTransitive

\* What the rewards manager does not hear of.
LEMMA UnrewardedStays ==
    ASSUME IInv, UnrewardedSteps
    PROVE  OpenStay(ledger, ledger')
<1>1. CASE IndexerSteps
  <2>1. PICK i \in Indexers :
        \/ \E sender \in Accounts, tokens \in StakeAmounts : StakeTo(sender, i, tokens)
        \/ \E tokens \in StakeAmounts : Unstake(i, tokens)
        \/ Withdraw(i)
        \/ \E operator \in Operators, allowed \in BOOLEAN : SetOperator(i, operator, allowed)
        \/ \E to \in Destinations : SetRewardsDestination(i, to)
        \/ \E r, q \in CutChoices, c \in CooldownChoices : SetDelegationParameters(i, r, q, c)
    BY <1>1 DEF IndexerSteps
  <2>2. ledger'.allocations = ledger.allocations
    BY <2>1, StakeToStays, UnstakeStays, WithdrawStays, ParametersStay
       DEF AllocationsStay, SetOperator, SetRewardsDestination
  <2>. QED
    BY <2>2, SameOpenStay
<1>2. CASE SlasherSteps
  BY <1>2, SlashStays, SameOpenStay DEF SlasherSteps, AllocationsStay
<1>3. CASE DelegatorSteps
  BY <1>3, DelegateStays, UndelegateStays, WithdrawDelegatedStays, SameOpenStay
     DEF DelegatorSteps, AllocationsStay
<1>4. CASE ClaimSteps
  BY <1>4, ClaimStays, ClaimManyStays DEF ClaimSteps
<1>5. CASE NextBlock \/ GovernorSteps
  <2>1. ledger' = ledger
    BY <1>5 DEF NextBlock, GovernorSteps, SkipEpochs, SetParameter, SetRebateRatio,
                SetSlasher, SetAssetHolder, SetPaused, SetPartialPaused
  <2>. QED
    BY <2>1, SameOpenStay
<1>. QED
  BY <1>1, <1>2, <1>3, <1>4, <1>5 DEF UnrewardedSteps

\* Fees are collected for an allocation, and leave the rest of it alone.
LEMMA CollectStays ==
    ASSUME IInv, NEW holder, NEW tokens, NEW id \in AllocationIDs, NEW curated,
           Collect(holder, tokens, id, curated)
    PROVE  OpenStay(ledger, ledger')
<1>. DEFINE tax == ProtocolTax(tokens, id)
            fees == tokens - tax - CurationFees(tokens, id, curated)
            n == Gone(Pull(ledger, holder, tokens), tax + CurationFees(tokens, id, curated))
            o == [n EXCEPT !.allocations[id].collectedFees = @ + fees]
<1>1. /\ IsLedger(ledger)
      /\ ledger.allocations \in [AllocationIDs -> Allocation]
  BY TypedIsLedger DEF IInv, Good, OpenLedger
<1>2. AllocationsStay(ledger, n)
  BY <1>1, TransferStays, GoneStays, StayTransitive DEF Pull, AllocationsStay
<1>3. \/ ledger' = o
      \/ ledger' = [o EXCEPT !.rebates[ledger.allocations[id].closedAtEpoch].fees = @ + fees]
  BY DEF Collect, Commit
<1>. HIDE DEF n, fees
<1>4. /\ IsLedger(o)
      /\ o.allocations = [ledger.allocations EXCEPT ![id].collectedFees = @ + fees]
  BY <1>2 DEF AllocationsStay, IsLedger, Parts
<1>. HIDE DEF o
<1>5. ledger'.allocations = o.allocations
  BY <1>3, <1>4 DEF IsLedger, Parts
<1>6. \A x \in AllocationIDs :
         LET a == ledger.allocations[x]
             b == ledger'.allocations[x]
         IN  /\ b.indexer = a.indexer /\ b.tokens = a.tokens
             /\ b.closedAtEpoch = a.closedAtEpoch
             /\ b.subgraphDeploymentID = a.subgraphDeploymentID
  BY <1>1, <1>4, <1>5 DEF Allocation
<1>. QED
  BY <1>6 DEF OpenStay, IsActive

-----------------------------------------------------------------------------
(* What a deployment owes its allocations *)

IsOn(l, id, s) == /\ IsActive(l.allocations[id])
                  /\ l.allocations[id].subgraphDeploymentID = s

\* What the allocations on s have gained since they were opened, up to the last
\* time the accumulator was brought up to date, in fractions of a token.
Gains(r, l, s) ==
    [id \in AllocationIDs |->
        IF IsOn(l, id, s)
        THEN (r.subgraphs[s].accRewardsPerAllocatedToken - r.atOpening[id])
                * l.allocations[id].tokens
        ELSE 0]

\* It is no loss, and with what closed allocations were paid it is covered by what
\* the deployment had accrued by then.
Funded(r, l, s) ==
    /\ \A id \in AllocationIDs :
          IsOn(l, id, s) => r.atOpening[id] <= r.subgraphs[s].accRewardsPerAllocatedToken
    /\ r.assigned[s] * TokenDecimals + SumFunctionOnSet(Gains(r, l, s), AllocationIDs)
          <= r.subgraphs[s].accRewardsForSubgraphSnapshot * TokenDecimals

\* The accumulators, by type and by age.
RewardsSound(r) ==
    /\ r \in RewardsState
    /\ r.issuanceRate >= TokenDecimals
    /\ r.accRewardsPerSignalLastBlockUpdated <= block
    /\ \A s \in Subgraphs : r.subgraphs[s].accRewardsPerSignalSnapshot <= r.accRewardsPerSignal

RewardsTyping(r) ==
    /\ r.assigned \in [Subgraphs -> Nat]
    /\ r.atOpening \in [AllocationIDs -> Nat]
    /\ r.subgraphs \in [Subgraphs -> SubgraphRewards]
    /\ \A s \in Subgraphs : /\ r.assigned[s] \in Nat
                            /\ r.subgraphs[s] \in SubgraphRewards
                            /\ r.subgraphs[s].accRewardsForSubgraph \in Nat
                            /\ r.subgraphs[s].accRewardsForSubgraphSnapshot \in Nat
                            /\ r.subgraphs[s].accRewardsPerSignalSnapshot \in Nat
                            /\ r.subgraphs[s].accRewardsPerAllocatedToken \in Nat
    /\ \A id \in AllocationIDs : r.atOpening[id] \in Nat
    /\ r.issuanceRate \in Nat
    /\ r.accRewardsPerSignal \in Nat
    /\ r.accRewardsPerSignalLastBlockUpdated \in Nat

LEMMA RewardsAreTyped ==
    ASSUME NEW r \in RewardsState
    PROVE  RewardsTyping(r)
BY ClockAssumption DEF RewardsState, SubgraphRewards, RewardsTyping

LEMMA GainsInt ==
    ASSUME NEW r \in RewardsState, NEW l, Good(l), NEW s \in Subgraphs
    PROVE  /\ \A id \in AllocationIDs : Gains(r, l, s)[id] \in Int
           /\ SumFunctionOnSet(Gains(r, l, s), AllocationIDs) \in Int
           /\ IsFiniteSet(AllocationIDs)
<1>1. \A id \in AllocationIDs : l.allocations[id].tokens \in Nat
  BY DEF Good, OpenLedger, Allocation
<1>2. \A id \in AllocationIDs : Gains(r, l, s)[id] \in Int
  BY <1>1, RewardsAreTyped DEF Gains, RewardsTyping
<1>. QED
  BY <1>2, FiniteSets, SumIsInt

\* The same accumulators, and the same open allocations, are funded alike.
LEMMA FundedAlike ==
    ASSUME NEW r \in RewardsState, NEW q \in RewardsState, NEW l, NEW m, Good(l), Good(m),
           NEW s \in Subgraphs, Funded(r, l, s),
           \A id \in AllocationIDs :
              /\ IsOn(m, id, s) <=> IsOn(l, id, s)
              /\ IsOn(l, id, s) => /\ m.allocations[id].tokens = l.allocations[id].tokens
                                   /\ q.atOpening[id] = r.atOpening[id],
           q.assigned[s] = r.assigned[s],
           q.subgraphs[s].accRewardsPerAllocatedToken
              = r.subgraphs[s].accRewardsPerAllocatedToken,
           q.subgraphs[s].accRewardsForSubgraphSnapshot
              = r.subgraphs[s].accRewardsForSubgraphSnapshot
    PROVE  Funded(q, m, s)
<1>1. \A id \in AllocationIDs : Gains(q, m, s)[id] = Gains(r, l, s)[id]
  BY DEF Gains
<1>2. SumFunctionOnSet(Gains(q, m, s), AllocationIDs)
         = SumFunctionOnSet(Gains(r, l, s), AllocationIDs)
  BY <1>1, GainsInt, SumsOfEquals
<1>. QED
  BY <1>2 DEF Funded

\* onSubgraphAllocationUpdate moves two accumulators of one deployment.
LEMMA UpdatedIs ==
    ASSUME NEW r \in RewardsState, NEW l, NEW c, NEW s \in Subgraphs
    PROVE  LET q == AllocationUpdated(r, l, c, s)
           IN  /\ q.issuanceRate = r.issuanceRate
               /\ q.accRewardsPerSignal = r.accRewardsPerSignal
               /\ q.accRewardsPerSignalLastBlockUpdated = r.accRewardsPerSignalLastBlockUpdated
               /\ q.atOpening = r.atOpening
               /\ q.assigned = r.assigned
               /\ \A x \in Subgraphs \ {s} : q.subgraphs[x] = r.subgraphs[x]
               /\ q.subgraphs[s].accRewardsForSubgraph = r.subgraphs[s].accRewardsForSubgraph
               /\ q.subgraphs[s].accRewardsPerSignalSnapshot
                     = r.subgraphs[s].accRewardsPerSignalSnapshot
               /\ q.subgraphs[s].accRewardsPerAllocatedToken
                     = AccRewardsPerAllocatedToken(r, l, c, s)
               /\ q.subgraphs[s].accRewardsForSubgraphSnapshot
                     = AccRewardsForSubgraph(r, l, c, s)
               /\ /\ AccRewardsPerAllocatedToken(r, l, c, s) \in Nat
                  /\ AccRewardsForSubgraph(r, l, c, s) \in Nat
                  => q \in RewardsState
<1>. DEFINE x  == AccRewardsPerAllocatedToken(r, l, c, s)
            y  == AccRewardsForSubgraph(r, l, c, s)
            b  == [r.subgraphs[s] EXCEPT !.accRewardsPerAllocatedToken = x,
                                         !.accRewardsForSubgraphSnapshot = y]
            q  == AllocationUpdated(r, l, c, s)
<1>. HIDE DEF x, y
<1>1. r.subgraphs \in [Subgraphs -> SubgraphRewards] /\ r.subgraphs[s] \in SubgraphRewards
  BY DEF RewardsState
<1>2. q = [r EXCEPT !.subgraphs[s] = b]
  BY DEF AllocationUpdated, x, y
<1>3. /\ b.accRewardsForSubgraph = r.subgraphs[s].accRewardsForSubgraph
      /\ b.accRewardsPerSignalSnapshot = r.subgraphs[s].accRewardsPerSignalSnapshot
      /\ b.accRewardsPerAllocatedToken = x
      /\ b.accRewardsForSubgraphSnapshot = y
      /\ x \in Nat /\ y \in Nat => b \in SubgraphRewards
  BY <1>1 DEF SubgraphRewards
<1>. HIDE DEF b, q
<1>4. /\ q.issuanceRate = r.issuanceRate
      /\ q.accRewardsPerSignal = r.accRewardsPerSignal
      /\ q.accRewardsPerSignalLastBlockUpdated = r.accRewardsPerSignalLastBlockUpdated
      /\ q.atOpening = r.atOpening
      /\ q.assigned = r.assigned
      /\ q.subgraphs = [r.subgraphs EXCEPT ![s] = b]
      /\ b \in SubgraphRewards => q \in RewardsState
  BY <1>2 DEF RewardsState
<1>5. q.subgraphs[s] = b /\ \A z \in Subgraphs \ {s} : q.subgraphs[z] = r.subgraphs[z]
  BY <1>1, <1>4
<1>. QED
  BY <1>3, <1>4, <1>5 DEF q, x, y

-----------------------------------------------------------------------------
(* What a deployment accrues *)

LEMMA SupplyFinite ==
    /\ IsFiniteSet(Holders)
    /\ IsFiniteSet(CurationHolders)
<1>1. IsFiniteSet({StakingAddress}) /\ IsFiniteSet({CurationAddress})
  BY FS_Singleton
<1>2. IsFiniteSet(Accounts \cup Contracts)
  BY FiniteAssumption, FS_Union
<1>. QED
  BY <1>1, <1>2, FiniteCurationAssumption, FS_Union DEF Holders, CurationHolders

\* The supply is the sum of what everyone has, and not negative when no balance is.
LEMMA SupplyIs ==
    ASSUME NEW l, Good(l), NEW c \in CurationDraft
    PROVE  /\ TotalSupply(l, c) = SumFunctionOnSet(l.grt, Holders)
                                     + SumFunctionOnSet(c.grt, CurationHolders)
           /\ TotalSupply(l, c) \in Int
           /\ l \in Ledger /\ Settled(c) => TotalSupply(l, c) \in Nat
<1>1. l.grt \in [Holders -> Int] /\ c.grt \in [CurationHolders -> Int]
  BY DEF Good, OpenLedger, CurationDraft
<1>2. TotalSupply(l, c) = SumFunctionOnSet(l.grt, Holders)
                             + SumFunctionOnSet(c.grt, CurationHolders)
  BY <1>1 DEF TotalSupply, SumFunction
<1>3. /\ SumFunctionOnSet(l.grt, Holders) \in Int
      /\ SumFunctionOnSet(c.grt, CurationHolders) \in Int
  BY <1>1, SupplyFinite, SumIsInt
<1>4. ASSUME l \in Ledger, Settled(c)
      PROVE  TotalSupply(l, c) \in Nat
  <2>. DEFINE z == [h \in Holders |-> 0]
              w == [h \in CurationHolders |-> 0]
  <2>1. l.grt \in [Holders -> Nat]
    BY <1>4 DEF Ledger
  <2>2. SumFunctionOnSet(z, Holders) = 0 /\ SumFunctionOnSet(w, CurationHolders) = 0
    BY SupplyFinite, SumOfZeros
  <2>3. \A h \in Holders : z[h] \in Int /\ l.grt[h] \in Int /\ z[h] <= l.grt[h]
    BY <2>1
  <2>4. \A h \in CurationHolders : w[h] \in Int /\ c.grt[h] \in Int /\ w[h] <= c.grt[h]
    BY <1>1, <1>4 DEF Settled
  <2>. HIDE DEF z, w
  <2>5. /\ SumFunctionOnSet(z, Holders) <= SumFunctionOnSet(l.grt, Holders)
        /\ SumFunctionOnSet(w, CurationHolders) <= SumFunctionOnSet(c.grt, CurationHolders)
    BY <2>3, <2>4, SupplyFinite, SumIsMonotonic
  <2>. QED
    BY <1>2, <1>3, <2>2, <2>5
<1>. QED
  BY <1>2, <1>3, <1>4

\* What is issued, and so what accrues, is a number; it is not negative when the
\* supply is not.
LEMMA IssuedIs ==
    ASSUME NEW r, RewardsSound(r), block \in Nat, NEW l, Good(l), NEW c \in CurationDraft
    PROVE  /\ Issued(r, l, c) \in Int
           /\ TotalSupply(l, c) >= 0 => Issued(r, l, c) >= 0
<1>. DEFINE n == block - r.accRewardsPerSignalLastBlockUpdated
            p == TotalSupply(l, c)
            w == Pow(r.issuanceRate, n)
            D == TokenDecimals
            q == (p * w) \div D
<1>1. /\ n \in Nat /\ r.issuanceRate \in Nat /\ r.issuanceRate >= D
  BY RewardsAreTyped DEF RewardsSound, RewardsTyping
<1>2. w \in Nat /\ D <= w
  BY <1>1, PowGrows
<1>3. p \in Int /\ D \in Nat \ {0}
  BY SupplyIs, UnitNat
<1>4. Issued(r, l, c) = q - p
  BY DEF Issued
<1>. HIDE DEF p, w, D
<1>5. p * w \in Int /\ p * D \in Int
  BY <1>2, <1>3
<1>6. q \in Int
  BY <1>3, <1>5, IntDivBounds
<1>7. ASSUME p >= 0 PROVE q >= p
  <2>1. p * D <= p * w
    BY <1>2, <1>3, <1>7
  <2>2. (p * D) \div D <= q
    BY <1>3, <1>5, <2>1, DivGrows
  <2>3. (p * D) \div D = p
    BY <1>3, DivExact
  <2>. QED
    BY <2>2, <2>3
<1>. HIDE DEF q
<1>. QED
  BY <1>3, <1>4, <1>6, <1>7 DEF p

LEMMA PerSignalIs ==
    ASSUME NEW r, RewardsSound(r), block \in Nat, NEW l, Good(l),
           NEW c \in CurationDraft, Settled(c)
    PROVE  /\ NewRewardsPerSignal(r, l, c) \in Int
           /\ AccRewardsPerSignal(r, l, c) \in Int
           /\ TotalSupply(l, c) >= 0 =>
                 /\ NewRewardsPerSignal(r, l, c) \in Nat
                 /\ AccRewardsPerSignal(r, l, c) >= r.accRewardsPerSignal
<1>. DEFINE i == Issued(r, l, c)
            t == SignalledTokens(c)
            D == TokenDecimals
            new == NewRewardsPerSignal(r, l, c)
<1>1. i \in Int /\ (TotalSupply(l, c) >= 0 => i >= 0)
  BY IssuedIs
<1>2. t \in Nat /\ D \in Nat \ {0}
  BY UnitNat DEF SignalledTokens, CurationDraft, CurationHolders, Settled
<1>3. new = 0 \/ (t # 0 /\ new = (i * D) \div t)
  BY DEF NewRewardsPerSignal
<1>. HIDE DEF i, t, D, new
<1>4. i * D \in Int /\ (i >= 0 => i * D >= 0)
  BY <1>1, <1>2
<1>5. new \in Int /\ (i >= 0 => new >= 0)
  <2>1. CASE new = 0
    BY <2>1
  <2>2. CASE t # 0 /\ new = (i * D) \div t
    <3>1. t \in Nat \ {0}
      BY <1>2, <2>2
    <3>2. new \in Int
      BY <1>4, <2>2, <3>1, IntDivBounds
    <3>3. i >= 0 => new >= 0
      <4>1. 0 \div t = 0
        BY <3>1
      <4>2. i >= 0 => 0 \div t <= new
        BY <1>4, <2>2, <3>1, DivGrows
      <4>. QED
        BY <4>1, <4>2
    <3>. QED
      BY <3>2, <3>3
  <2>. QED
    BY <1>3, <2>1, <2>2
<1>6. r.accRewardsPerSignal \in Nat
  BY RewardsAreTyped DEF RewardsSound, RewardsTyping
<1>. QED
  BY <1>1, <1>5, <1>6 DEF new, AccRewardsPerSignal

LEMMA AccruedIs ==
    ASSUME NEW r, RewardsSound(r), block \in Nat, NEW l, Good(l),
           NEW c \in CurationDraft, Settled(c), NEW s \in Subgraphs
    PROVE  /\ AccRewardsForSubgraph(r, l, c, s) \in Int
           /\ NewRewardsForSubgraph(r, l, c, s) \in Int
           /\ TotalSupply(l, c) >= 0 => AccRewardsForSubgraph(r, l, c, s) \in Nat
           /\ TotalSupply(l, c) >= 0 =>
                 AccRewardsForSubgraph(r, l, c, s) >= r.subgraphs[s].accRewardsForSubgraph
<1>. DEFINE sub == r.subgraphs[s]
            new == AccRewardsPerSignal(r, l, c) - sub.accRewardsPerSignalSnapshot
            t == c.pools[s].tokens
            D == TokenDecimals
            q == (new * t) \div D
<1>1. /\ sub.accRewardsForSubgraph \in Nat /\ sub.accRewardsPerSignalSnapshot \in Nat
      /\ sub.accRewardsForSubgraphSnapshot \in Nat
      /\ sub.accRewardsPerSignalSnapshot <= r.accRewardsPerSignal
      /\ r.accRewardsPerSignal \in Nat
  BY RewardsAreTyped DEF RewardsSound, RewardsTyping
<1>2. new \in Int /\ (TotalSupply(l, c) >= 0 => new >= 0)
  <2>. HIDE DEF sub
  <2>. QED
    BY <1>1, PerSignalIs DEF sub
<1>3. t \in Nat /\ D \in Nat \ {0}
  BY UnitNat DEF CurationDraft, CurationPool
<1>4. AccRewardsForSubgraph(r, l, c, s) = sub.accRewardsForSubgraph + q
  BY DEF AccRewardsForSubgraph
<1>. HIDE DEF new, t, D, sub
<1>5. new * t \in Int /\ (new >= 0 => new * t >= 0)
  BY <1>2, <1>3
<1>6. q \in Int /\ (new >= 0 => q >= 0)
  <2>1. q \in Int
    BY <1>3, <1>5, IntDivBounds
  <2>2. 0 \div D = 0
    BY <1>3
  <2>3. new >= 0 => 0 \div D <= q
    BY <1>3, <1>5, DivGrows
  <2>. QED
    BY <2>1, <2>2, <2>3
<1>. HIDE DEF q
<1>. QED
  BY <1>1, <1>2, <1>4, <1>6 DEF NewRewardsForSubgraph, sub

-----------------------------------------------------------------------------
(* An update of the accumulator of a deployment *)

\* The tokens allocated to a deployment, from the books.
LEMMA TokensOnIs ==
    ASSUME NEW l, Good(l), AllocationsBooked(l), NEW s \in Subgraphs
    PROVE  /\ l.subgraphAllocations[s] = SumFunctionOnSet(TokensOn(l, s), AllocationIDs)
           /\ l.subgraphAllocations[s] \in Nat
           /\ \A id \in AllocationIDs :
                 /\ TokensOn(l, s)[id] \in Nat
                 /\ TokensOn(l, s)[id] = IF IsOn(l, id, s) THEN l.allocations[id].tokens ELSE 0
                 /\ l.allocations[id].tokens \in Nat
                 /\ IsOn(l, id, s) => l.subgraphAllocations[s] # 0
<1>1. \A id \in AllocationIDs : l.allocations[id].tokens \in Nat
  BY DEF Good, OpenLedger, Allocation
<1>2. \A id \in AllocationIDs :
         /\ TokensOn(l, s)[id] \in Nat
         /\ TokensOn(l, s)[id] = IF IsOn(l, id, s) THEN l.allocations[id].tokens ELSE 0
  BY <1>1 DEF TokensOn, IsOn
<1>3. l.subgraphAllocations[s] = SumFunctionOnSet(TokensOn(l, s), AllocationIDs)
  BY DEF AllocationsBooked
<1>4. \A id \in AllocationIDs : TokensOn(l, s)[id] <= l.subgraphAllocations[s]
  BY <1>2, <1>3, FiniteSets, PartOfSum
<1>5. l.subgraphAllocations[s] \in Nat
  BY DEF Good, OpenLedger
<1>6. \A id \in AllocationIDs : IsOn(l, id, s) => l.allocations[id].tokens # 0
  BY DEF IsOn, IsActive
<1>7. \A id \in AllocationIDs : IsOn(l, id, s) => l.subgraphAllocations[s] # 0
  BY <1>1, <1>2, <1>4, <1>5, <1>6
<1>. QED
  BY <1>1, <1>2, <1>3, <1>5, <1>7

\* What a deployment accrues is at least what its accumulator spreads.
LEMMA UpdateSpreads ==
    ASSUME NEW r, RewardsSound(r), block \in Nat, NEW l, Good(l), AllocationsBooked(l),
           NEW c \in CurationDraft, Settled(c), NEW s \in Subgraphs,
           CanUpdateAllocation(r, l, c, s)
    PROVE  LET new == NewRewardsForSubgraph(r, l, c, s)
               acc == r.subgraphs[s].accRewardsPerAllocatedToken
               t   == l.subgraphAllocations[s]
           IN  /\ new \in Nat
               /\ AccRewardsForSubgraph(r, l, c, s)
                     = r.subgraphs[s].accRewardsForSubgraphSnapshot + new
               /\ AccRewardsPerAllocatedToken(r, l, c, s) \in Nat
               /\ t # 0 => \E k \in Nat :
                     /\ AccRewardsPerAllocatedToken(r, l, c, s) = acc + k
                     /\ k * t <= new * TokenDecimals
<1>. DEFINE new == NewRewardsForSubgraph(r, l, c, s)
            snap == r.subgraphs[s].accRewardsForSubgraphSnapshot
            accrued == AccRewardsForSubgraph(r, l, c, s)
            acc == r.subgraphs[s].accRewardsPerAllocatedToken
            t == l.subgraphAllocations[s]
            D == TokenDecimals
            k == (new * D) \div t
<1>1. new \in Int /\ accrued \in Int /\ new = accrued - snap /\ new >= 0
  BY AccruedIs DEF CanUpdateAllocation, NewRewardsForSubgraph
<1>2. snap \in Nat /\ acc \in Nat
  BY RewardsAreTyped DEF RewardsSound, RewardsTyping
<1>3. t \in Nat /\ D \in Nat \ {0}
  BY TokensOnIs, UnitNat
<1>4. AccRewardsPerAllocatedToken(r, l, c, s) = IF t = 0 THEN 0 ELSE acc + k
  BY DEF AccRewardsPerAllocatedToken
<1>. HIDE DEF new, snap, accrued, acc, t, D
<1>5. new * D \in Nat
  BY <1>1, <1>3
<1>6. t # 0 => k \in Nat /\ k * t <= new * D
  BY <1>3, <1>5, DivBounds
<1>. HIDE DEF k
<1>7. /\ new \in Nat /\ accrued = snap + new
      /\ AccRewardsPerAllocatedToken(r, l, c, s) \in Nat
      /\ t # 0 => \E j \in Nat : /\ AccRewardsPerAllocatedToken(r, l, c, s) = acc + j
                                 /\ j * t <= new * D
  BY <1>1, <1>2, <1>4, <1>6
<1>. QED
  BY <1>7 DEF new, snap, accrued, acc, t, D

\* onSubgraphAllocationUpdate gives the allocations no more than has accrued.
LEMMA UpdateKeeps ==
    ASSUME NEW r, RewardsSound(r), block \in Nat, NEW l, Good(l), AllocationsBooked(l),
           NEW c \in CurationDraft, Settled(c), NEW s \in Subgraphs,
           CanUpdateAllocation(r, l, c, s), \A x \in Subgraphs : Funded(r, l, x)
    PROVE  LET q == AllocationUpdated(r, l, c, s)
           IN  RewardsSound(q) /\ \A x \in Subgraphs : Funded(q, l, x)
<1>. DEFINE q    == AllocationUpdated(r, l, c, s)
            new  == NewRewardsForSubgraph(r, l, c, s)
            accrued == AccRewardsForSubgraph(r, l, c, s)
            snap == r.subgraphs[s].accRewardsForSubgraphSnapshot
            acc  == r.subgraphs[s].accRewardsPerAllocatedToken
            accN == AccRewardsPerAllocatedToken(r, l, c, s)
            t    == l.subgraphAllocations[s]
            D    == TokenDecimals
            paid == r.assigned[s]
            G    == SumFunctionOnSet(Gains(r, l, s), AllocationIDs)
            H    == SumFunctionOnSet(Gains(q, l, s), AllocationIDs)
<1>1. /\ new \in Nat /\ accrued = snap + new /\ accN \in Nat
      /\ t # 0 => \E k \in Nat : accN = acc + k /\ k * t <= new * D
  BY UpdateSpreads
<1>2. /\ r \in RewardsState /\ snap \in Nat /\ acc \in Nat /\ paid \in Nat
      /\ D \in Nat \ {0} /\ \A id \in AllocationIDs : r.atOpening[id] \in Nat
  BY RewardsAreTyped, UnitNat DEF RewardsSound, RewardsTyping
<1>3. accrued \in Nat
  BY <1>1, <1>2
<1>4. /\ q.issuanceRate = r.issuanceRate
      /\ q.accRewardsPerSignal = r.accRewardsPerSignal
      /\ q.accRewardsPerSignalLastBlockUpdated = r.accRewardsPerSignalLastBlockUpdated
      /\ q.atOpening = r.atOpening
      /\ q.assigned = r.assigned
      /\ \A x \in Subgraphs \ {s} : q.subgraphs[x] = r.subgraphs[x]
      /\ q.subgraphs[s].accRewardsPerSignalSnapshot
            = r.subgraphs[s].accRewardsPerSignalSnapshot
      /\ q.subgraphs[s].accRewardsPerAllocatedToken = accN
      /\ q.subgraphs[s].accRewardsForSubgraphSnapshot = accrued
      /\ q \in RewardsState
  BY <1>1, <1>2, <1>3, UpdatedIs
<1>. HIDE DEF q
<1>5. RewardsSound(q)
  BY <1>4 DEF RewardsSound
<1>6. \A x \in Subgraphs \ {s} : Funded(q, l, x)
  <2>. TAKE x \in Subgraphs \ {s}
  <2>1. /\ q.assigned[x] = r.assigned[x] /\ q.subgraphs[x] = r.subgraphs[x]
        /\ \A id \in AllocationIDs : q.atOpening[id] = r.atOpening[id]
    BY <1>4
  <2>. QED
    BY <1>2, <1>4, <2>1, FundedAlike
<1>7. /\ \A id \in AllocationIDs : /\ Gains(r, l, s)[id] \in Int /\ Gains(q, l, s)[id] \in Int
      /\ G \in Int /\ H \in Int /\ IsFiniteSet(AllocationIDs)
  BY <1>2, <1>4, GainsInt
<1>8. /\ t = SumFunctionOnSet(TokensOn(l, s), AllocationIDs) /\ t \in Nat
      /\ \A id \in AllocationIDs :
            /\ TokensOn(l, s)[id] \in Nat
            /\ TokensOn(l, s)[id] = IF IsOn(l, id, s) THEN l.allocations[id].tokens ELSE 0
            /\ l.allocations[id].tokens \in Nat
            /\ IsOn(l, id, s) => t # 0
  BY TokensOnIs
<1>9. paid * D + G <= snap * D
  BY DEF Funded
<1>10. \A id \in AllocationIDs : IsOn(l, id, s) => r.atOpening[id] <= acc
  BY DEF Funded
<1>. HIDE DEF new, accrued, snap, acc, accN, t, D, paid
<1>11. accrued * D = snap * D + new * D /\ new * D \in Nat /\ snap * D \in Nat
  BY <1>1, <1>2
<1>12. /\ \A id \in AllocationIDs : IsOn(l, id, s) => r.atOpening[id] <= accN
       /\ H <= G + new * D
  <2>1. CASE t = 0
    <3>1. \A id \in AllocationIDs : ~IsOn(l, id, s)
      BY <1>8, <2>1
    <3>2. \A id \in AllocationIDs : Gains(r, l, s)[id] = Gains(q, l, s)[id]
      BY <3>1 DEF Gains
    <3>3. H = G
      BY <1>7, <3>2, SumsOfEquals
    <3>. HIDE DEF G, H
    <3>. QED
      BY <1>7, <1>11, <3>1, <3>3
  <2>2. CASE t # 0
    <3>1. PICK k \in Nat : accN = acc + k /\ k * t <= new * D
      BY <1>1, <2>2
    <3>2. \A id \in AllocationIDs : Gains(q, l, s)[id]
                                       = Gains(r, l, s)[id] + k * TokensOn(l, s)[id]
      <4>. TAKE id \in AllocationIDs
      <4>1. CASE ~IsOn(l, id, s)
        BY <1>8, <3>1, <4>1 DEF Gains
      <4>2. CASE IsOn(l, id, s)
        <5>. DEFINE a == l.allocations[id].tokens
                    o == r.atOpening[id]
        <5>1. Gains(q, l, s)[id] = (accN - o) * a /\ Gains(r, l, s)[id] = (acc - o) * a
          BY <1>4, <4>2 DEF Gains, acc
        <5>2. a \in Nat /\ o \in Nat /\ TokensOn(l, s)[id] = a
          BY <1>2, <1>8, <4>2
        <5>. HIDE DEF a, o
        <5>3. ((acc + k) - o) * a = (acc - o) * a + k * a
          BY <1>2, <5>2
        <5>4. Gains(q, l, s)[id] = ((acc + k) - o) * a
          BY <3>1, <5>1
        <5>. DEFINE g == (acc - o) * a
                    e == ((acc + k) - o) * a
        <5>5. e = g + k * a
          BY <5>3
        <5>6. Gains(q, l, s)[id] = e /\ Gains(r, l, s)[id] = g
          BY <5>1, <5>4
        <5>. HIDE DEF g, e
        <5>. QED
          BY <5>2, <5>5, <5>6
      <4>. QED
        BY <4>1, <4>2
    <3>3. H = G + k * SumFunctionOnSet(TokensOn(l, s), AllocationIDs)
      <4>. DEFINE f == Gains(r, l, s)
                  g == TokensOn(l, s)
                  h == Gains(q, l, s)
      <4>1. /\ IsFiniteSet(AllocationIDs) /\ k \in Int
            /\ \A id \in AllocationIDs : /\ f[id] \in Int /\ g[id] \in Int
                                         /\ h[id] = f[id] + k * g[id]
        BY <1>7, <1>8, <3>2
      <4>. HIDE DEF f, g, h
      <4>2. SumFunctionOnSet(h, AllocationIDs)
               = SumFunctionOnSet(f, AllocationIDs) + k * SumFunctionOnSet(g, AllocationIDs)
        BY <4>1, SumOfScaled
      <4>. QED
        BY <4>2 DEF f, g, h
    <3>. HIDE DEF G, H
    <3>4. H <= G + new * D
      BY <1>7, <1>8, <1>11, <3>1, <3>3
    <3>. QED
      BY <1>2, <1>10, <3>1, <3>4
  <2>. QED
    BY <2>1, <2>2
<1>13. paid * D + H <= accrued * D
  <2>. HIDE DEF G, H
  <2>. QED
    BY <1>2, <1>7, <1>9, <1>11, <1>12
<1>14. Funded(q, l, s)
  BY <1>4, <1>12, <1>13 DEF Funded, D, paid
<1>. QED
  BY <1>5, <1>6, <1>14 DEF q

-----------------------------------------------------------------------------
(* Opening and closing *)

\* An allocation that was made is on a deployment.
Deployed(l) == \A id \in AllocationIDs :
                   l.allocations[id].indexer # NoAddress => DeploymentOf(l, id) \in Subgraphs

LEMMA MoveDeployed ==
    ASSUME NEW l, NEW m, Good(l), Good(m), AllocationMove(l, m), Deployed(l)
    PROVE  Deployed(m)
<1>1. l.allocations \in [AllocationIDs -> Allocation]
  BY DEF Good, OpenLedger
<1>2. CASE SameAllocations(l, m)
  BY <1>2 DEF SameAllocations, Deployed, DeploymentOf
<1>3. CASE \E i \in Indexers, s \in Subgraphs, tokens \in Nat \ {0}, id \in AllocationIDs :
              l.allocations[id].indexer = NoAddress /\ Opens(l, m, i, s, tokens, id)
  BY <1>1, <1>3 DEF Opens, Deployed, DeploymentOf
<1>4. CASE \E id \in AllocationIDs, effective \in Nat \ {0} :
              l.allocations[id].createdAtEpoch < epoch /\ Closes(l, m, id, effective)
  <2>1. PICK id \in AllocationIDs, effective \in Nat \ {0} : Closes(l, m, id, effective)
    BY <1>4
  <2>2. l.allocations[id] \in Allocation
    BY <1>1
  <2>. QED
    BY <1>1, <2>1, <2>2 DEF Closes, Deployed, DeploymentOf, Allocation
<1>5. CASE \E id \in AllocationIDs, rebate \in Nat : Claims(l, m, id, rebate)
  <2>1. PICK id \in AllocationIDs, rebate \in Nat : Claims(l, m, id, rebate)
    BY <1>5
  <2>. QED
    BY <1>1, <2>1 DEF Claims, Deployed, DeploymentOf, Purged, NoAllocation
<1>6. CASE \E id \in AllocationIDs, fees \in Nat : Collects(l, m, id, fees)
  <2>1. PICK id \in AllocationIDs, fees \in Nat : Collects(l, m, id, fees)
    BY <1>6
  <2>2. l.allocations[id] \in Allocation
    BY <1>1
  <2>. QED
    BY <1>1, <2>1, <2>2 DEF Collects, Deployed, DeploymentOf, Allocation
<1>. QED
  BY <1>2, <1>3, <1>4, <1>5, <1>6 DEF AllocationMove

\* A step leaves them there, since it moves allocations twice at most.
LEMMA DeployedAfter ==
    ASSUME IInv, GoodStep, Deployed(ledger)
    PROVE  Deployed(ledger')
<1>1. Good(ledger) /\ Good(ledger') /\ AllocationStep(ledger, ledger')
  BY DEF GoodStep, Sound, IInv
<1>2. PICK n : Good(n) /\ AllocationMove(ledger, n) /\ AllocationMove(n, ledger')
  BY <1>1 DEF AllocationStep
<1>. QED
  BY <1>1, <1>2, MoveDeployed

\* Writing down the value an allocation is opened at, and what a deployment paid.
LEMMA WriteIs ==
    ASSUME NEW u \in RewardsState
    PROVE  /\ \A id \in AllocationIDs, v \in Nat :
                 LET q == [u EXCEPT !.atOpening[id] = v]
                 IN  /\ q \in RewardsState
                     /\ q.atOpening = [u.atOpening EXCEPT ![id] = v]
                     /\ q.assigned = u.assigned
                     /\ q.subgraphs = u.subgraphs
                     /\ q.issuanceRate = u.issuanceRate
                     /\ q.accRewardsPerSignal = u.accRewardsPerSignal
                     /\ q.accRewardsPerSignalLastBlockUpdated
                           = u.accRewardsPerSignalLastBlockUpdated
           /\ \A s \in Subgraphs, v \in Nat :
                 LET q == [u EXCEPT !.assigned[s] = v]
                 IN  /\ q \in RewardsState
                     /\ q.assigned = [u.assigned EXCEPT ![s] = v]
                     /\ q.atOpening = u.atOpening
                     /\ q.subgraphs = u.subgraphs
                     /\ q.issuanceRate = u.issuanceRate
                     /\ q.accRewardsPerSignal = u.accRewardsPerSignal
                     /\ q.accRewardsPerSignalLastBlockUpdated
                           = u.accRewardsPerSignalLastBlockUpdated
BY DEF RewardsState

\* A new allocation has gained nothing.
LEMMA OpenKeeps ==
    ASSUME NEW r, RewardsSound(r), block \in Nat, NEW l, Good(l), AllocationsBooked(l),
           curationLedger \in CurationDraft, Settled(curationLedger), NEW s \in Subgraphs,
           CanOpen(r, l, s), \A x \in Subgraphs : Funded(r, l, x),
           NEW m, Good(m), NEW i \in Indexers, NEW tokens, NEW id \in AllocationIDs,
           l.allocations[id].indexer = NoAddress, Opens(l, m, i, s, tokens, id)
    PROVE  LET q == Opened(r, l, s, id)
           IN  RewardsSound(q) /\ \A x \in Subgraphs : Funded(q, m, x)
<1>. DEFINE u   == AllocationUpdated(r, l, curationLedger, s)
            acc == u.subgraphs[s].accRewardsPerAllocatedToken
            q   == [u EXCEPT !.atOpening[id] = acc]
<1>1. Opened(r, l, s, id) = q
  BY DEF Opened
<1>2. RewardsSound(u) /\ \A x \in Subgraphs : Funded(u, l, x)
  BY UpdateKeeps DEF CanOpen
<1>. HIDE DEF u
<1>3. u \in RewardsState /\ acc \in Nat
  BY <1>2, RewardsAreTyped DEF RewardsSound, RewardsTyping
<1>. HIDE DEF acc
<1>4. /\ q \in RewardsState
      /\ q.atOpening = [u.atOpening EXCEPT ![id] = acc]
      /\ q.assigned = u.assigned
      /\ q.subgraphs = u.subgraphs
      /\ q.issuanceRate = u.issuanceRate
      /\ q.accRewardsPerSignal = u.accRewardsPerSignal
      /\ q.accRewardsPerSignalLastBlockUpdated = u.accRewardsPerSignalLastBlockUpdated
  BY <1>3, WriteIs
<1>. HIDE DEF q
<1>5. RewardsSound(q)
  BY <1>2, <1>4 DEF RewardsSound
<1>6. /\ u.atOpening \in [AllocationIDs -> Nat]
      /\ l.allocations \in [AllocationIDs -> Allocation]
      /\ q.atOpening[id] = acc
      /\ \A y \in AllocationIDs \ {id} : q.atOpening[y] = u.atOpening[y]
  BY <1>3, <1>4, RewardsAreTyped DEF RewardsTyping, Good, OpenLedger
<1>7. /\ \A x \in Subgraphs : ~IsOn(l, id, x)
      /\ \A y \in AllocationIDs \ {id} : m.allocations[y] = l.allocations[y]
      /\ \A x \in Subgraphs : IsOn(m, id, x) => x = s
      /\ m.allocations[id].tokens = tokens
  BY <1>6 DEF Opens, IsOn, IsActive
<1>8. m.allocations[id].tokens \in Nat
  BY DEF Good, OpenLedger, Allocation
<1>9. ASSUME NEW x \in Subgraphs \ {s}
      PROVE  Funded(q, m, x)
  <2>1. \A y \in AllocationIDs :
           /\ IsOn(m, y, x) <=> IsOn(l, y, x)
           /\ IsOn(l, y, x) => /\ m.allocations[y].tokens = l.allocations[y].tokens
                               /\ q.atOpening[y] = u.atOpening[y]
    BY <1>6, <1>7, <1>9 DEF IsOn
  <2>2. /\ x \in Subgraphs /\ Funded(u, l, x) /\ q.assigned[x] = u.assigned[x]
        /\ q.subgraphs[x].accRewardsPerAllocatedToken
              = u.subgraphs[x].accRewardsPerAllocatedToken
        /\ q.subgraphs[x].accRewardsForSubgraphSnapshot
              = u.subgraphs[x].accRewardsForSubgraphSnapshot
    BY <1>2, <1>4
  <2>3. u \in RewardsState /\ q \in RewardsState
    BY <1>3, <1>4
  <2>. QED
    BY <2>1, <2>2, <2>3, FundedAlike
<1>10. Funded(q, m, s)
  <2>1. \A y \in AllocationIDs : Gains(q, m, s)[y] = Gains(u, l, s)[y]
    <3>. TAKE y \in AllocationIDs
    <3>1. CASE y = id
      <4>1. Gains(u, l, s)[y] = 0
        BY <1>7, <3>1 DEF Gains
      <4>2. Gains(q, m, s)[y] = 0 \/ Gains(q, m, s)[y] = (acc - acc) * m.allocations[id].tokens
        BY <1>4, <1>6, <3>1 DEF Gains, acc
      <4>. QED
        BY <1>3, <1>8, <4>1, <4>2
    <3>2. CASE y # id
      BY <1>4, <1>6, <1>7, <3>2 DEF Gains, IsOn
    <3>. QED
      BY <3>1, <3>2
  <2>2. SumFunctionOnSet(Gains(q, m, s), AllocationIDs)
           = SumFunctionOnSet(Gains(u, l, s), AllocationIDs)
    BY <1>3, <2>1, GainsInt, SumsOfEquals
  <2>3. \A y \in AllocationIDs : IsOn(m, y, s) =>
           q.atOpening[y] <= q.subgraphs[s].accRewardsPerAllocatedToken
    <3>. TAKE y \in AllocationIDs
    <3>1. CASE y = id
      BY <1>3, <1>4, <1>6, <3>1 DEF acc
    <3>2. CASE y # id
      BY <1>2, <1>4, <1>6, <1>7, <3>2 DEF Funded, IsOn
    <3>. QED
      BY <3>1, <3>2
  <2>. QED
    BY <1>2, <1>4, <2>2, <2>3 DEF Funded
<1>. QED
  BY <1>1, <1>5, <1>9, <1>10

\* The rewards of a close are the gains of the allocation, rounded down.
LEMMA TakenIs ==
    ASSUME NEW r, RewardsSound(r), block \in Nat, NEW l, Good(l), AllocationsBooked(l),
           curationLedger \in CurationDraft, Settled(curationLedger),
           NEW sender, NEW id \in AllocationIDs, NEW poi,
           DeploymentOf(l, id) \in Subgraphs, IsActive(l.allocations[id]),
           CanTake(r, l, sender, id, poi),
           \A x \in Subgraphs : Funded(r, l, x)
    PROVE  LET s    == DeploymentOf(l, id)
               u    == AllocationUpdated(r, l, curationLedger, s)
               paid == RewardsTaken(r, l, sender, id, poi)
           IN  /\ RewardsSound(u) /\ \A x \in Subgraphs : Funded(u, l, x)
               /\ paid \in Nat
               /\ paid * TokenDecimals <= Gains(u, l, s)[id]
<1>. DEFINE s    == DeploymentOf(l, id)
            u    == AllocationUpdated(r, l, curationLedger, s)
            paid == RewardsTaken(r, l, sender, id, poi)
            accN == AccRewardsPerAllocatedToken(r, l, curationLedger, s)
            gain == accN - r.atOpening[id]
            a    == l.allocations[id].tokens
            D    == TokenDecimals
<1>1. CanUpdateAllocation(r, l, curationLedger, s) /\ s \in Subgraphs
  BY DEF CanTake
<1>2. RewardsSound(u) /\ \A x \in Subgraphs : Funded(u, l, x)
  BY <1>1, UpdateKeeps
<1>3. accN \in Nat
  BY <1>1, UpdateSpreads
<1>4. u.subgraphs[s].accRewardsPerAllocatedToken = accN /\ u.atOpening = r.atOpening
  BY <1>1, UpdatedIs DEF RewardsSound
<1>5. IsOn(l, id, s)
  BY DEF IsOn, DeploymentOf
<1>6. r.atOpening[id] \in Nat /\ a \in Nat /\ D \in Nat \ {0}
  BY RewardsAreTyped, UnitNat DEF RewardsSound, RewardsTyping, Good, OpenLedger, Allocation
<1>7. r.atOpening[id] <= accN
  BY <1>1, <1>2, <1>4, <1>5 DEF Funded
<1>8. gain \in Nat
  BY <1>3, <1>6, <1>7
<1>9. Gains(u, l, s)[id] = gain * a
  BY <1>4, <1>5 DEF Gains
<1>10. paid = 0 \/ paid = (gain * a) \div D
  BY DEF RewardsTaken, CalcRewards, NewAccrued
<1>. HIDE DEF s, u, paid, accN, gain, a, D
<1>11. gain * a \in Nat
  BY <1>6, <1>8
<1>12. paid \in Nat /\ paid * D <= gain * a
  BY <1>6, <1>10, <1>11, DivBounds
<1>. QED
  BY <1>2, <1>9, <1>12 DEF s, u, paid, D

\* So what a close pays, it takes out of what the deployment owes.
LEMMA TakeKeeps ==
    ASSUME NEW r, RewardsSound(r), block \in Nat, NEW l, Good(l), AllocationsBooked(l),
           curationLedger \in CurationDraft, Settled(curationLedger),
           NEW sender, NEW id \in AllocationIDs, NEW poi,
           DeploymentOf(l, id) \in Subgraphs, IsActive(l.allocations[id]),
           CanTake(r, l, sender, id, poi),
           \A x \in Subgraphs : Funded(r, l, x),
           NEW m, Good(m), NEW effective, Closes(l, m, id, effective), epoch # 0
    PROVE  LET q == Taken(r, l, sender, id, poi)
           IN  RewardsSound(q) /\ \A x \in Subgraphs : Funded(q, m, x)
<1>. DEFINE s    == DeploymentOf(l, id)
            u    == AllocationUpdated(r, l, curationLedger, s)
            paid == RewardsTaken(r, l, sender, id, poi)
            D    == TokenDecimals
            total == u.assigned[s] + paid
            q    == [u EXCEPT !.assigned[s] = total]
<1>1. Taken(r, l, sender, id, poi) = q
  BY DEF Taken
<1>2. /\ RewardsSound(u) /\ \A x \in Subgraphs : Funded(u, l, x)
      /\ paid \in Nat
      /\ paid * D <= Gains(u, l, s)[id]
  BY TakenIs
<1>. HIDE DEF u, paid
<1>3. /\ u \in RewardsState /\ s \in Subgraphs /\ D \in Nat
      /\ \A x \in Subgraphs : /\ u.assigned[x] \in Nat
                              /\ u.subgraphs[x].accRewardsForSubgraphSnapshot \in Nat
  BY <1>2, RewardsAreTyped, UnitNat DEF RewardsSound, RewardsTyping
<1>4. total \in Nat
  BY <1>2, <1>3
<1>. HIDE DEF total, s
<1>5. /\ q \in RewardsState
      /\ q.assigned = [u.assigned EXCEPT ![s] = total]
      /\ q.atOpening = u.atOpening
      /\ q.subgraphs = u.subgraphs
      /\ q.issuanceRate = u.issuanceRate
      /\ q.accRewardsPerSignal = u.accRewardsPerSignal
      /\ q.accRewardsPerSignalLastBlockUpdated = u.accRewardsPerSignalLastBlockUpdated
  BY <1>3, <1>4, WriteIs
<1>. HIDE DEF q
<1>6. RewardsSound(q)
  BY <1>2, <1>5 DEF RewardsSound
<1>7. /\ l.allocations \in [AllocationIDs -> Allocation]
      /\ u.assigned \in [Subgraphs -> Nat]
  BY <1>3, RewardsAreTyped DEF Good, OpenLedger, RewardsTyping
<1>8. /\ \A x \in Subgraphs : ~IsOn(m, id, x)
      /\ \A y \in AllocationIDs \ {id} : m.allocations[y] = l.allocations[y]
      /\ \A x \in Subgraphs : IsOn(l, id, x) => x = s
  <2>1. m.allocations[id].closedAtEpoch = epoch
    BY <1>7 DEF Closes, Allocation
  <2>. QED
    BY <1>7, <2>1 DEF Closes, IsOn, IsActive, DeploymentOf, s
<1>9. ASSUME NEW x \in Subgraphs \ {s}
      PROVE  Funded(q, m, x)
  <2>1. \A y \in AllocationIDs :
           /\ IsOn(m, y, x) <=> IsOn(l, y, x)
           /\ IsOn(l, y, x) => /\ m.allocations[y].tokens = l.allocations[y].tokens
                               /\ q.atOpening[y] = u.atOpening[y]
    BY <1>5, <1>8, <1>9 DEF IsOn
  <2>2. /\ Funded(u, l, x) /\ q.assigned[x] = u.assigned[x]
        /\ q.subgraphs[x] = u.subgraphs[x]
    BY <1>2, <1>5, <1>7
  <2>3. u \in RewardsState /\ q \in RewardsState /\ x \in Subgraphs
    BY <1>3, <1>5
  <2>. QED
    BY <2>1, <2>2, <2>3, FundedAlike
<1>10. Funded(q, m, s)
  <2>. DEFINE G == SumFunctionOnSet(Gains(u, l, s), AllocationIDs)
              H == SumFunctionOnSet(Gains(q, m, s), AllocationIDs)
              g == Gains(u, l, s)[id]
              snap == u.subgraphs[s].accRewardsForSubgraphSnapshot
  <2>1. Gains(q, m, s)[id] = 0
    BY <1>3, <1>8 DEF Gains
  <2>2. \A y \in AllocationIDs \ {id} : Gains(q, m, s)[y] = Gains(u, l, s)[y]
    BY <1>5, <1>8 DEF Gains, IsOn
  <2>3. /\ \A y \in AllocationIDs : /\ Gains(u, l, s)[y] \in Int
                                    /\ Gains(q, m, s)[y] \in Int
        /\ G \in Int /\ H \in Int /\ IsFiniteSet(AllocationIDs)
    BY <1>3, <1>5, GainsInt
  <2>4. H = G + (0 - g)
    BY <2>1, <2>2, <2>3, SumAfterUpdate
  <2>5. g \in Int
    BY <2>3
  <2>6. u.assigned[s] * D + G <= snap * D
    BY <1>2, <1>3 DEF Funded
  <2>7. q.assigned[s] = total
    BY <1>3, <1>5, <1>7
  <2>8. total * D = u.assigned[s] * D + paid * D
    BY <1>2, <1>3 DEF total
  <2>9. /\ u.assigned[s] * D \in Int /\ paid * D \in Int /\ snap * D \in Int
        /\ paid * D <= g
    BY <1>2, <1>3
  <2>. HIDE DEF G, H, g, snap
  <2>10. total * D + H <= snap * D
    BY <2>3, <2>4, <2>5, <2>6, <2>8, <2>9
  <2>11. \A y \in AllocationIDs : IsOn(m, y, s) =>
            q.atOpening[y] <= q.subgraphs[s].accRewardsPerAllocatedToken
    BY <1>2, <1>3, <1>5, <1>8 DEF Funded, IsOn
  <2>. QED
    BY <1>5, <2>7, <2>10, <2>11 DEF Funded, H, D, snap
<1>. QED
  BY <1>1, <1>6, <1>9, <1>10

-----------------------------------------------------------------------------
(* The other hooks *)

\* From r to q nothing is written that the staking contract's hooks write.
LeavesFunds(r, q) ==
    /\ q.atOpening = r.atOpening
    /\ q.assigned = r.assigned
    /\ \A s \in Subgraphs :
          /\ q.subgraphs[s].accRewardsPerAllocatedToken
                = r.subgraphs[s].accRewardsPerAllocatedToken
          /\ q.subgraphs[s].accRewardsForSubgraphSnapshot
                = r.subgraphs[s].accRewardsForSubgraphSnapshot

LEMMA LeavesFunded ==
    ASSUME NEW r \in RewardsState, NEW q \in RewardsState, NEW l, Good(l),
           LeavesFunds(r, q), \A s \in Subgraphs : Funded(r, l, s)
    PROVE  \A s \in Subgraphs : Funded(q, l, s)
<1>. TAKE s \in Subgraphs
<1>1. /\ Funded(r, l, s)
      /\ \A id \in AllocationIDs :
            /\ IsOn(l, id, s) <=> IsOn(l, id, s)
            /\ IsOn(l, id, s) => /\ l.allocations[id].tokens = l.allocations[id].tokens
                                 /\ q.atOpening[id] = r.atOpening[id]
      /\ q.assigned[s] = r.assigned[s]
      /\ q.subgraphs[s].accRewardsPerAllocatedToken
            = r.subgraphs[s].accRewardsPerAllocatedToken
      /\ q.subgraphs[s].accRewardsForSubgraphSnapshot
            = r.subgraphs[s].accRewardsForSubgraphSnapshot
  BY DEF LeavesFunds
<1>. QED
  BY <1>1, FundedAlike

\* updateAccRewardsPerSignal, with or without a new rate.
LEMMA CheckpointKeeps ==
    ASSUME NEW r, RewardsSound(r), block \in Blocks, NEW l, Good(l), l \in Ledger,
           NEW c \in CurationDraft, Settled(c)
    PROVE  /\ RewardsSound(Checkpointed(r, l, c))
           /\ LeavesFunds(r, Checkpointed(r, l, c))
           /\ Checkpointed(r, l, c).accRewardsPerSignalLastBlockUpdated = block
           /\ \A rate \in Nat : rate >= TokenDecimals =>
                 LET q == [Checkpointed(r, l, c) EXCEPT !.issuanceRate = rate]
                 IN  RewardsSound(q) /\ LeavesFunds(r, q)
<1>. DEFINE acc == AccRewardsPerSignal(r, l, c)
            q == Checkpointed(r, l, c)
<1>1. block \in Nat /\ block \in 0 .. MaxBlock
  BY ClockAssumption DEF Blocks
<1>2. /\ r \in RewardsState /\ r.accRewardsPerSignal \in Nat
      /\ r.issuanceRate >= TokenDecimals
      /\ \A s \in Subgraphs : /\ r.subgraphs[s].accRewardsPerSignalSnapshot \in Nat
                              /\ r.subgraphs[s].accRewardsPerSignalSnapshot
                                    <= r.accRewardsPerSignal
  BY RewardsAreTyped DEF RewardsSound, RewardsTyping
<1>3. TotalSupply(l, c) >= 0
  BY SupplyIs
<1>4. acc \in Int /\ acc >= r.accRewardsPerSignal
  BY <1>1, <1>3, PerSignalIs
<1>5. acc \in Nat
  BY <1>2, <1>4
<1>6. q = [r EXCEPT !.accRewardsPerSignal = acc,
                    !.accRewardsPerSignalLastBlockUpdated = block]
  BY DEF Checkpointed
<1>. HIDE DEF acc, q
<1>7. /\ q \in RewardsState /\ q.accRewardsPerSignal = acc
      /\ q.accRewardsPerSignalLastBlockUpdated = block
      /\ q.issuanceRate = r.issuanceRate /\ q.subgraphs = r.subgraphs
      /\ q.atOpening = r.atOpening /\ q.assigned = r.assigned
  BY <1>1, <1>2, <1>5, <1>6 DEF RewardsState
<1>8. \A s \in Subgraphs : q.subgraphs[s].accRewardsPerSignalSnapshot <= q.accRewardsPerSignal
  <2>. TAKE s \in Subgraphs
  <2>. DEFINE x == r.subgraphs[s].accRewardsPerSignalSnapshot
              y == r.accRewardsPerSignal
  <2>1. x \in Nat /\ y \in Nat /\ x <= y
    BY <1>2
  <2>2. q.subgraphs[s].accRewardsPerSignalSnapshot = x /\ q.accRewardsPerSignal = acc
    BY <1>7
  <2>3. acc >= y
    BY <1>4
  <2>. HIDE DEF x, y
  <2>. QED
    BY <1>5, <2>1, <2>2, <2>3
<1>9. RewardsSound(q)
  BY <1>1, <1>2, <1>7, <1>8 DEF RewardsSound
<1>10. LeavesFunds(r, q)
  BY <1>7 DEF LeavesFunds
<1>11. ASSUME NEW rate \in Nat, rate >= TokenDecimals
       PROVE  LET p == [q EXCEPT !.issuanceRate = rate]
              IN  RewardsSound(p) /\ LeavesFunds(r, p)
  <2>. DEFINE p == [q EXCEPT !.issuanceRate = rate]
  <2>1. /\ p \in RewardsState /\ p.accRewardsPerSignal = q.accRewardsPerSignal
        /\ p.accRewardsPerSignalLastBlockUpdated = q.accRewardsPerSignalLastBlockUpdated
        /\ p.issuanceRate = rate /\ p.subgraphs = q.subgraphs
        /\ p.atOpening = q.atOpening /\ p.assigned = q.assigned
    BY <1>7 DEF RewardsState
  <2>. HIDE DEF p
  <2>2. RewardsSound(p) /\ LeavesFunds(r, p)
    BY <1>9, <1>10, <1>11, <2>1 DEF RewardsSound, LeavesFunds
  <2>. QED
    BY <2>2 DEF p
<1>. QED
  BY <1>7, <1>9, <1>10, <1>11 DEF q

\* onSubgraphSignalUpdate
LEMMA SignalKeeps ==
    ASSUME NEW r, RewardsSound(r), block \in Blocks, NEW l, Good(l), l \in Ledger,
           NEW c \in CurationDraft, Settled(c), NEW s \in Subgraphs
    PROVE  LET q == SignalUpdated(r, l, c, s)
           IN  RewardsSound(q) /\ LeavesFunds(r, q)
<1>. DEFINE now == Checkpointed(r, l, c)
            acc == now.accRewardsPerSignal
            sum == AccRewardsForSubgraph(now, l, c, s)
            q == [now EXCEPT !.subgraphs[s].accRewardsForSubgraph = sum,
                             !.subgraphs[s].accRewardsPerSignalSnapshot = acc]
<1>1. SignalUpdated(r, l, c, s) = q
  BY DEF SignalUpdated
<1>2. block \in Nat
  BY ClockAssumption DEF Blocks
<1>3. RewardsSound(now) /\ LeavesFunds(r, now)
  BY CheckpointKeeps
<1>. HIDE DEF now
<1>4. TotalSupply(l, c) >= 0
  BY SupplyIs
<1>5. sum \in Nat
  BY <1>2, <1>3, <1>4, AccruedIs
<1>6. now \in RewardsState /\ acc \in Nat
  BY <1>3, RewardsAreTyped DEF RewardsSound, RewardsTyping
<1>. HIDE DEF sum, acc
<1>7. /\ q \in RewardsState
      /\ q.accRewardsPerSignal = now.accRewardsPerSignal
      /\ q.accRewardsPerSignalLastBlockUpdated = now.accRewardsPerSignalLastBlockUpdated
      /\ q.issuanceRate = now.issuanceRate
      /\ q.atOpening = now.atOpening /\ q.assigned = now.assigned
      /\ \A x \in Subgraphs \ {s} : q.subgraphs[x] = now.subgraphs[x]
      /\ q.subgraphs[s].accRewardsPerSignalSnapshot = acc
      /\ q.subgraphs[s].accRewardsPerAllocatedToken
            = now.subgraphs[s].accRewardsPerAllocatedToken
      /\ q.subgraphs[s].accRewardsForSubgraphSnapshot
            = now.subgraphs[s].accRewardsForSubgraphSnapshot
  <2>. DEFINE f == [now.subgraphs EXCEPT ![s].accRewardsForSubgraph = sum,
                                         ![s].accRewardsPerSignalSnapshot = acc]
  <2>1. now.subgraphs \in [Subgraphs -> SubgraphRewards]
    BY <1>6 DEF RewardsState
  <2>2. /\ f \in [Subgraphs -> SubgraphRewards]
        /\ \A x \in Subgraphs \ {s} : f[x] = now.subgraphs[x]
        /\ f[s].accRewardsPerSignalSnapshot = acc
        /\ f[s].accRewardsPerAllocatedToken = now.subgraphs[s].accRewardsPerAllocatedToken
        /\ f[s].accRewardsForSubgraphSnapshot
              = now.subgraphs[s].accRewardsForSubgraphSnapshot
    BY <1>5, <1>6, <2>1 DEF SubgraphRewards
  <2>3. q = [now EXCEPT !.subgraphs = f]
    BY <1>6 DEF RewardsState
  <2>. HIDE DEF f, q
  <2>. QED
    BY <1>6, <2>2, <2>3 DEF RewardsState
<1>. HIDE DEF q
<1>8. RewardsSound(q)
  <2>1. \A x \in Subgraphs :
           q.subgraphs[x].accRewardsPerSignalSnapshot <= q.accRewardsPerSignal
    <3>. TAKE x \in Subgraphs
    <3>1. CASE x = s
      BY <1>6, <1>7, <3>1 DEF acc
    <3>2. CASE x # s
      BY <1>3, <1>7, <3>2 DEF RewardsSound
    <3>. QED
      BY <3>1, <3>2
  <2>. QED
    BY <1>3, <1>7, <2>1 DEF RewardsSound
<1>9. LeavesFunds(now, q)
  BY <1>7 DEF LeavesFunds
<1>10. LeavesFunds(r, q)
  BY <1>3, <1>9 DEF LeavesFunds
<1>. QED
  BY <1>1, <1>8, <1>10

-----------------------------------------------------------------------------
(* The invariant *)

\* The inductive invariant of the rewards.
RewardsInvariant ==
    /\ Books
    /\ Deployed(ledger)
    /\ CurationInvariant
    /\ RewardsSound(rewards)
    /\ \A s \in Subgraphs : Funded(rewards, ledger, s)

\* What the invariant says of this moment.
LEMMA NowIs ==
    ASSUME RewardsInvariant
    PROVE  /\ IInv /\ Context
           /\ Good(ledger) /\ ledger \in Ledger /\ AllocationsBooked(ledger)
           /\ block \in Nat /\ block \in Blocks
           /\ curationLedger \in CurationDraft /\ Settled(curationLedger)
           /\ curationParams \in CurationParams
           /\ rewards \in RewardsState
BY InvContext DEF RewardsInvariant, Books, IInv, TypeOK, ClockTypeOK, CurationInvariant,
                  DraftSound, RewardsSound

LEMMA RewardsInitially ==
    ASSUME RewardsInit
    PROVE  RewardsInvariant
<1>1. Books
  BY InitBooks DEF RewardsInit, RebateBooks
<1>2. Deployed(ledger)
  BY DEF RewardsInit, Init, Deployed, NoAllocation
<1>3. CurationInvariant
  BY CurationInitially DEF RewardsInit, Init, CurationAlone
<1>4. block \in 0 .. MaxBlock /\ block \in Int
  BY ClockAssumption DEF RewardsInit, Init, ClockInit
<1>5. /\ rewards \in RewardsState
      /\ rewards.issuanceRate = InitialIssuanceRate
      /\ rewards.accRewardsPerSignal = 0
      /\ rewards.accRewardsPerSignalLastBlockUpdated = block
      /\ \A s \in Subgraphs : /\ rewards.subgraphs[s] = NoSubgraphRewards
                              /\ rewards.assigned[s] = 0
  BY <1>4, RewardsAssumption
     DEF RewardsInit, RewardsState, SubgraphRewards, NoSubgraphRewards
<1>6. RewardsSound(rewards)
  BY <1>4, <1>5, RewardsAssumption DEF RewardsSound, NoSubgraphRewards
<1>7. ASSUME NEW s \in Subgraphs
      PROVE  Funded(rewards, ledger, s)
  <2>1. \A id \in AllocationIDs : ~IsOn(ledger, id, s)
    BY DEF RewardsInit, Init, IsOn, IsActive, NoAllocation
  <2>2. \A id \in AllocationIDs : Gains(rewards, ledger, s)[id] = 0
    BY <2>1 DEF Gains
  <2>3. SumFunctionOnSet(Gains(rewards, ledger, s), AllocationIDs) = 0
    BY <2>2, FiniteSets, SumOfZeros
  <2>. QED
    BY <1>5, <2>1, <2>3, UnitNat DEF Funded, NoSubgraphRewards
<1>. QED
  BY <1>1, <1>2, <1>3, <1>6, <1>7 DEF RewardsInvariant

\* The same rewards are sound, and the same open allocations funded, in a later block.
LEMMA RewardsUntouched ==
    ASSUME RewardsInvariant, GoodStep, OpenStay(ledger, ledger'), rewards' = rewards,
           block' >= block, CurationInvariant'
    PROVE  RewardsInvariant'
<1>1. Books' /\ Deployed(ledger')
  BY BooksAfter, DeployedAfter DEF RewardsInvariant, Books
<1>2. Good(ledger) /\ Good(ledger') /\ rewards \in RewardsState /\ block' \in Nat /\ block \in Nat
  BY NowIs, ClockAssumption DEF GoodStep, IInv, TypeOK, ClockTypeOK, Blocks
<1>3. RewardsSound(rewards)'
  BY <1>2, RewardsAreTyped DEF RewardsInvariant, RewardsSound, RewardsTyping
<1>4. ASSUME NEW s \in Subgraphs
      PROVE  Funded(rewards, ledger', s)
  <2>1. \A id \in AllocationIDs :
           /\ IsOn(ledger', id, s) <=> IsOn(ledger, id, s)
           /\ IsOn(ledger, id, s) =>
                 /\ ledger'.allocations[id].tokens = ledger.allocations[id].tokens
                 /\ rewards.atOpening[id] = rewards.atOpening[id]
    BY DEF OpenStay, IsOn
  <2>2. Funded(rewards, ledger, s)
    BY DEF RewardsInvariant
  <2>. QED
    BY <1>2, <2>1, <2>2, FundedAlike
<1>5. \A s \in Subgraphs : Funded(rewards', ledger', s)
  BY <1>4
<1>. QED
  BY <1>1, <1>3, <1>5 DEF RewardsInvariant

-----------------------------------------------------------------------------
(* The transactions *)

\* Time stands still in all but one of them.
LEMMA UnrewardedInBlock ==
    ASSUME UnrewardedSteps, ~NextBlock
    PROVE  block' = block
<1>1. ASSUME NEW l, Commit(l)
      PROVE  block' = block
  BY <1>1 DEF Commit, clock
<1>2. CASE IndexerSteps
  <2>1. PICK i \in Indexers :
           \/ \E sender \in Accounts, tokens \in StakeAmounts : StakeTo(sender, i, tokens)
           \/ \E tokens \in StakeAmounts : Unstake(i, tokens)
           \/ Withdraw(i)
           \/ \E operator \in Operators, allowed \in BOOLEAN : SetOperator(i, operator, allowed)
           \/ \E to \in Destinations : SetRewardsDestination(i, to)
           \/ \E r, q \in CutChoices, c \in CooldownChoices : SetDelegationParameters(i, r, q, c)
    BY <1>2 DEF IndexerSteps
  <2>2. ASSUME NEW sender, NEW tokens, StakeTo(sender, i, tokens)
        PROVE  block' = block
    BY <1>1, <2>2 DEF StakeTo
  <2>3. ASSUME NEW tokens, Unstake(i, tokens)
        PROVE  block' = block
    BY <1>1, <2>3 DEF Unstake
  <2>4. ASSUME Withdraw(i)
        PROVE  block' = block
    BY <1>1, <2>4 DEF Withdraw
  <2>5. ASSUME NEW operator, NEW allowed, SetOperator(i, operator, allowed)
        PROVE  block' = block
    BY <2>5 DEF SetOperator, clock
  <2>6. ASSUME NEW to, SetRewardsDestination(i, to)
        PROVE  block' = block
    BY <2>6 DEF SetRewardsDestination, clock
  <2>7. ASSUME NEW r, NEW q, NEW c, SetDelegationParameters(i, r, q, c)
        PROVE  block' = block
    BY <1>1, <2>7 DEF SetDelegationParameters
  <2>. QED
    BY <2>1, <2>2, <2>3, <2>4, <2>5, <2>6, <2>7
<1>3. CASE SlasherSteps
  BY <1>3 DEF SlasherSteps, Slash, Commit, clock
<1>4. CASE DelegatorSteps
  <2>1. PICK d \in Delegators, i \in Indexers :
           \/ \E tokens \in DelegateAmounts : Delegate(d, i, tokens)
           \/ \E shares \in ShareAmounts : Undelegate(d, i, shares)
           \/ \E to \in Indexers \cup {NoAddress} : WithdrawDelegated(d, i, to)
    BY <1>4 DEF DelegatorSteps
  <2>3. ASSUME NEW tokens, Delegate(d, i, tokens)
        PROVE  block' = block
    BY <1>1, <2>3 DEF Delegate
  <2>4. ASSUME NEW shares, Undelegate(d, i, shares)
        PROVE  block' = block
    BY <1>1, <2>4 DEF Undelegate
  <2>5. ASSUME NEW to, WithdrawDelegated(d, i, to)
        PROVE  block' = block
    BY <1>1, <2>5 DEF WithdrawDelegated
  <2>. QED
    BY <2>1, <2>3, <2>4, <2>5
<1>5. CASE ClaimSteps
  BY <1>5 DEF ClaimSteps, Claim, ClaimMany, Commit, clock
<1>6. CASE GovernorSteps
  BY <1>6 DEF GovernorSteps, SkipEpochs, Skip, SetParameter, SetRebateRatio, SetSlasher,
              SetAssetHolder, SetPaused, SetPartialPaused, clock
<1>. QED
  BY <1>2, <1>3, <1>4, <1>5, <1>6 DEF UnrewardedSteps

\* Time goes on.
LEMMA UnrewardedTime ==
    ASSUME IInv, UnrewardedSteps
    PROVE  block' >= block /\ GoodStep
<1>1. Next
  BY DEF UnrewardedSteps, Next
<1>2. GoodStep
  BY <1>1, NextStep
<1>3. block \in Nat
  BY ClockAssumption DEF IInv, TypeOK, ClockTypeOK, Blocks
<1>4. block' = block + 1 \/ block' = block
  BY UnrewardedInBlock DEF NextBlock, Tick
<1>. QED
  BY <1>2, <1>3, <1>4

\* What the curation contract keeps while it is not called.
LEMMA CurationUntouched ==
    ASSUME CurationInvariant, UNCHANGED curationVars
    PROVE  CurationInvariant'
BY DEF CurationInvariant, DraftSound, Settled, PoolSound, curationVars

LEMMA UnrewardedKeeps ==
    ASSUME RewardsInvariant, UnrewardedSteps
    PROVE  RewardsInvariant'
<1>1. IInv /\ CurationInvariant
  BY NowIs DEF RewardsInvariant
<1>2. OpenStay(ledger, ledger') /\ block' >= block /\ GoodStep
  BY <1>1, UnrewardedStays, UnrewardedTime
<1>3. rewards' = rewards /\ UNCHANGED curationVars
  BY DEF UnrewardedSteps, rewardsVars
<1>4. CurationInvariant'
  BY <1>1, <1>3, CurationUntouched
<1>. QED
  BY <1>2, <1>3, <1>4, RewardsUntouched

\* What a transaction of the staking contract and the rewards manager keeps: it
\* leaves the books to a good step, and the curation contract alone.
LEMMA TransactionKeeps ==
    ASSUME RewardsInvariant, GoodStep, RewardsUnmoved, UNCHANGED clock,
           RewardsSound(rewards'), \A s \in Subgraphs : Funded(rewards', ledger', s)
    PROVE  RewardsInvariant'
<1>1. Books' /\ Deployed(ledger')
  BY BooksAfter, DeployedAfter DEF RewardsInvariant, Books
<1>2. CurationInvariant'
  BY CurationUntouched DEF RewardsInvariant, RewardsUnmoved
<1>3. RewardsSound(rewards)'
  BY DEF RewardsSound, clock
<1>. QED
  BY <1>1, <1>2, <1>3 DEF RewardsInvariant

LEMMA RewardedAllocateKeeps ==
    ASSUME RewardsInvariant, NEW sender, NEW i \in Indexers, NEW s \in Subgraphs,
           NEW tokens \in Nat, NEW id \in AllocationIDs,
           RewardedAllocate(sender, i, s, tokens, id)
    PROVE  RewardsInvariant'
<1>1. /\ IInv /\ Context /\ Good(ledger) /\ AllocationsBooked(ledger) /\ block \in Nat
      /\ curationLedger \in CurationDraft /\ Settled(curationLedger)
      /\ RewardsSound(rewards) /\ \A x \in Subgraphs : Funded(rewards, ledger, x)
  BY NowIs DEF RewardsInvariant
<1>2. /\ Allocate(sender, i, s, tokens, id) /\ CanOpen(rewards, ledger, s)
      /\ rewards' = Opened(rewards, ledger, s, id) /\ RewardsUnmoved
  BY DEF RewardedAllocate
<1>3. GoodStep
  BY <1>1, <1>2, AllocateStep
<1>4. /\ CanAllocate(ledger, sender, i, tokens, id)
      /\ ledger' = Allocated(ledger, i, s, tokens, id) /\ UNCHANGED clock
  BY <1>2 DEF Allocate, Commit
<1>5. /\ Good(ledger') /\ Opens(ledger, ledger', i, s, tokens, id)
      /\ ledger.allocations[id].indexer = NoAddress
  BY <1>1, <1>4, AllocatedGood, AllocatedMoves
<1>. DEFINE m == ledger'
            q == Opened(rewards, ledger, s, id)
<1>6. Good(m) /\ Opens(ledger, m, i, s, tokens, id)
  BY <1>5
<1>. HIDE DEF m
<1>7. RewardsSound(q) /\ \A x \in Subgraphs : Funded(q, m, x)
  BY <1>1, <1>2, <1>5, <1>6, OpenKeeps
<1>. HIDE DEF q
<1>8. RewardsSound(rewards') /\ \A x \in Subgraphs : Funded(rewards', ledger', x)
  BY <1>2, <1>7 DEF q, m
<1>. QED
  BY <1>2, <1>3, <1>4, <1>8, TransactionKeeps

\* A close with its rewards, as one call of a transaction.
LEMMA CloseCall ==
    ASSUME Context, NEW r, RewardsSound(r), block \in Nat, NEW l, Good(l), AllocationsBooked(l),
           Deployed(l), curationLedger \in CurationDraft, Settled(curationLedger),
           NEW sender, NEW id \in AllocationIDs, NEW poi,
           CanClose(l, sender, id), CanTake(r, l, sender, id, poi),
           \A x \in Subgraphs : Funded(r, l, x)
    PROVE  LET m == Closed(l, id, RewardsTaken(r, l, sender, id, poi))
               q == Taken(r, l, sender, id, poi)
           IN  /\ AllocationCall(l, m) /\ AllocationsBooked(m) /\ Deployed(m)
               /\ RewardsSound(q) /\ \A x \in Subgraphs : Funded(q, m, x)
<1>. DEFINE paid == RewardsTaken(r, l, sender, id, poi)
            m == Closed(l, id, paid)
            q == Taken(r, l, sender, id, poi)
<1>1. IsActive(l.allocations[id])
  BY DEF CanClose, StateOf, AllocationState, IsActive
<1>2. DeploymentOf(l, id) \in Subgraphs
  BY <1>1 DEF IsActive, Deployed
<1>3. paid \in Nat
  BY <1>1, <1>2, TakenIs
<1>. HIDE DEF paid
<1>4. AllocationCall(l, m)
  BY <1>3, ClosedCall
<1>5. Good(m) /\ \E effective \in Nat \ {0} : Closes(l, m, id, effective)
  BY <1>3, ClosedGood
<1>. HIDE DEF m
<1>6. PICK effective : Closes(l, m, id, effective)
  BY <1>5
<1>7. epoch # 0
  <2>1. DiffOrZero(epoch, l.allocations[id].createdAtEpoch) > 0
    BY DEF CanClose
  <2>2. epoch \in Nat /\ l.allocations[id].createdAtEpoch \in Nat
    BY ClockAssumption DEF Good, OpenLedger, Allocation, Epochs, Context, ClockTypeOK
  <2>. QED
    BY <2>1, <2>2 DEF DiffOrZero
<1>8. RewardsSound(q) /\ \A x \in Subgraphs : Funded(q, m, x)
  BY <1>1, <1>2, <1>5, <1>6, <1>7, TakeKeeps
<1>9. AllocationsBooked(m) /\ Deployed(m)
  BY <1>4, <1>5, AllocationsKept, MoveDeployed DEF AllocationCall
<1>. QED
  BY <1>4, <1>8, <1>9 DEF m, paid

LEMMA RewardedCloseKeeps ==
    ASSUME RewardsInvariant, NEW sender, NEW id \in AllocationIDs, NEW poi,
           RewardedClose(sender, id, poi)
    PROVE  RewardsInvariant'
<1>. DEFINE m == Closed(ledger, id, RewardsTaken(rewards, ledger, sender, id, poi))
            q == Taken(rewards, ledger, sender, id, poi)
<1>1. /\ IInv /\ Context /\ Good(ledger) /\ AllocationsBooked(ledger) /\ block \in Nat
      /\ curationLedger \in CurationDraft /\ Settled(curationLedger) /\ Deployed(ledger)
      /\ RewardsSound(rewards) /\ \A x \in Subgraphs : Funded(rewards, ledger, x)
  BY NowIs DEF RewardsInvariant
<1>2. /\ NotPaused /\ CanClose(ledger, sender, id)
      /\ CanTake(rewards, ledger, sender, id, poi)
      /\ Commit(m) /\ rewards' = q /\ RewardsUnmoved
  BY DEF RewardedClose
<1>3. /\ AllocationCall(ledger, m)
      /\ RewardsSound(q) /\ \A x \in Subgraphs : Funded(q, m, x)
  BY <1>1, <1>2, CloseCall
<1>. HIDE DEF m, q
<1>4. GoodStep
  BY <1>1, <1>2, <1>3, OneCallStep
<1>5. ledger' = m /\ UNCHANGED clock
  BY <1>2 DEF Commit
<1>6. RewardsSound(rewards') /\ \A x \in Subgraphs : Funded(rewards', ledger', x)
  BY <1>2, <1>3, <1>5
<1>. QED
  BY <1>2, <1>4, <1>5, <1>6, TransactionKeeps

LEMMA RewardedCloseManyKeeps ==
    ASSUME RewardsInvariant, NEW sender, NEW id1 \in AllocationIDs, NEW poi1,
           NEW id2 \in AllocationIDs, NEW poi2,
           RewardedCloseMany(sender, id1, poi1, id2, poi2)
    PROVE  RewardsInvariant'
<1>. DEFINE l == Closed(ledger, id1, RewardsTaken(rewards, ledger, sender, id1, poi1))
            r == Taken(rewards, ledger, sender, id1, poi1)
            m == Closed(l, id2, RewardsTaken(r, l, sender, id2, poi2))
            q == Taken(r, l, sender, id2, poi2)
<1>1. /\ IInv /\ Context /\ Good(ledger) /\ AllocationsBooked(ledger) /\ block \in Nat
      /\ curationLedger \in CurationDraft /\ Settled(curationLedger) /\ Deployed(ledger)
      /\ RewardsSound(rewards) /\ \A x \in Subgraphs : Funded(rewards, ledger, x)
  BY NowIs DEF RewardsInvariant
<1>2. /\ NotPaused /\ CanClose(ledger, sender, id1)
      /\ CanTake(rewards, ledger, sender, id1, poi1)
      /\ CanClose(l, sender, id2) /\ CanTake(r, l, sender, id2, poi2)
      /\ Commit(m) /\ rewards' = q /\ RewardsUnmoved
  BY DEF RewardedCloseMany
<1>3. /\ AllocationCall(ledger, l) /\ AllocationsBooked(l) /\ Deployed(l)
      /\ RewardsSound(r) /\ \A x \in Subgraphs : Funded(r, l, x)
  BY <1>1, <1>2, CloseCall
<1>4. Good(l)
  BY <1>3 DEF AllocationCall
<1>. HIDE DEF l, r
<1>5. /\ AllocationCall(l, m)
      /\ RewardsSound(q) /\ \A x \in Subgraphs : Funded(q, m, x)
  BY <1>1, <1>2, <1>3, <1>4, CloseCall
<1>. HIDE DEF m, q
<1>6. GoodStep
  BY <1>1, <1>2, <1>3, <1>5, TwoCallsStep
<1>7. ledger' = m /\ UNCHANGED clock
  BY <1>2 DEF Commit
<1>8. RewardsSound(rewards') /\ \A x \in Subgraphs : Funded(rewards', ledger', x)
  BY <1>2, <1>5, <1>7
<1>. QED
  BY <1>2, <1>6, <1>7, <1>8, TransactionKeeps

LEMMA RewardedCloseAndAllocateKeeps ==
    ASSUME RewardsInvariant, NEW sender, NEW closing \in AllocationIDs, NEW poi,
           NEW i \in Indexers, NEW s \in Subgraphs, NEW tokens \in Nat,
           NEW id \in AllocationIDs,
           RewardedCloseAndAllocate(sender, closing, poi, i, s, tokens, id)
    PROVE  RewardsInvariant'
<1>. DEFINE l == Closed(ledger, closing, RewardsTaken(rewards, ledger, sender, closing, poi))
            r == Taken(rewards, ledger, sender, closing, poi)
            m == Allocated(l, i, s, tokens, id)
            q == Opened(r, l, s, id)
<1>1. /\ IInv /\ Context /\ Good(ledger) /\ AllocationsBooked(ledger) /\ block \in Nat
      /\ curationLedger \in CurationDraft /\ Settled(curationLedger) /\ Deployed(ledger)
      /\ RewardsSound(rewards) /\ \A x \in Subgraphs : Funded(rewards, ledger, x)
  BY NowIs DEF RewardsInvariant
<1>2. /\ NotPaused /\ CanClose(ledger, sender, closing)
      /\ CanTake(rewards, ledger, sender, closing, poi)
      /\ CanAllocate(l, sender, i, tokens, id) /\ CanOpen(r, l, s)
      /\ Commit(m) /\ rewards' = q /\ RewardsUnmoved
  BY DEF RewardedCloseAndAllocate
<1>3. /\ AllocationCall(ledger, l) /\ AllocationsBooked(l)
      /\ RewardsSound(r) /\ \A x \in Subgraphs : Funded(r, l, x)
  BY <1>1, <1>2, CloseCall
<1>4. Good(l)
  BY <1>3 DEF AllocationCall
<1>. HIDE DEF l, r
<1>5. /\ AllocationCall(l, m) /\ Good(m) /\ Opens(l, m, i, s, tokens, id)
      /\ l.allocations[id].indexer = NoAddress
  BY <1>1, <1>2, <1>4, AllocatedCall, AllocatedGood, AllocatedMoves
<1>. HIDE DEF m
<1>6. RewardsSound(q) /\ \A x \in Subgraphs : Funded(q, m, x)
  BY <1>1, <1>2, <1>3, <1>4, <1>5, OpenKeeps
<1>. HIDE DEF q
<1>7. GoodStep
  BY <1>1, <1>2, <1>3, <1>5, TwoCallsStep
<1>8. ledger' = m /\ UNCHANGED clock
  BY <1>2 DEF Commit
<1>9. RewardsSound(rewards') /\ \A x \in Subgraphs : Funded(rewards', ledger', x)
  BY <1>2, <1>6, <1>8
<1>. QED
  BY <1>2, <1>7, <1>8, <1>9, TransactionKeeps

\* The curators' part of the fees is a whole number, none unless they have signal.
LEMMA CurationFeesNat ==
    ASSUME IInv, NEW tokens \in Nat, NEW id, NEW curated \in BOOLEAN
    PROVE  /\ CurationFees(tokens, id, curated) \in Nat
           /\ CurationFees(tokens, id, curated) > 0 => curated
<1>1. /\ UsedProtocolPercentage(StateOf(ledger, id)) \in 0 .. MAX_PPM
      /\ params["curationPercentage"] \in 0 .. MAX_PPM
  BY MaxPPM DEF UsedProtocolPercentage, IInv, TypeOK, Params, Settings, PercentageSettings
<1>2. ProtocolTax(tokens, id) \in 0 .. tokens
  BY <1>1, PortionBounds DEF ProtocolTax
<1>3. tokens - ProtocolTax(tokens, id) \in Nat
  BY <1>2
<1>4. Portion(params["curationPercentage"], tokens - ProtocolTax(tokens, id)) \in Nat
  BY <1>1, <1>3, PortionBounds
<1>. QED
  BY <1>4 DEF CurationFees

LEMMA CuratedCollectKeeps ==
    ASSUME RewardsInvariant, NEW holder \in Accounts, NEW tokens \in Nat,
           NEW id \in AllocationIDs, CuratedCollect(holder, tokens, id)
    PROVE  RewardsInvariant'
<1>. DEFINE s == DeploymentOf(ledger, id)
            fees == CurationFees(tokens, id, IsCurated(s))
<1>1. /\ IInv /\ Deployed(ledger) /\ CurationInvariant /\ DraftSound(curationLedger)
      /\ block \in Nat
  BY NowIs DEF RewardsInvariant, CurationInvariant
<1>2. /\ StateOf(ledger, id) # "Null" /\ Collect(holder, tokens, id, IsCurated(s))
      /\ CommitCuration(IF fees > 0 THEN FeesCollected(s, fees) ELSE curationLedger)
      /\ rewards' = rewards
  BY DEF CuratedCollect, rewardsVars
<1>3. s \in Subgraphs
  BY <1>1, <1>2 DEF StateOf, AllocationState, Deployed
<1>4. IsCurated(s) \in BOOLEAN
  BY DEF IsCurated
<1>5. GoodStep /\ OpenStay(ledger, ledger')
  BY <1>1, <1>2, <1>4, CollectStep, CollectStays
<1>6. block' >= block
  BY <1>1, <1>2 DEF Collect, Commit, clock
<1>7. fees \in Nat /\ (fees > 0 => IsCurated(s))
  BY <1>1, <1>4, CurationFeesNat
<1>. HIDE DEF fees, s
<1>8. CurationInvariant'
  <2>1. CASE fees > 0
    <3>1. CommitCuration(FeesCollected(s, fees))
      BY <1>2, <2>1
    <3>2. SoundStep(curationLedger, FeesCollected(s, fees), s)
      BY <1>1, <1>3, <1>7, <2>1, FeesSound
    <3>. QED
      BY <1>1, <1>3, <3>1, <3>2, CommitStepKeeps
  <2>2. CASE ~(fees > 0)
    <3>1. CommitCuration(curationLedger)
      BY <1>2, <2>2
    <3>. QED
      BY <1>1, <3>1, CommitKeeps
  <2>. QED
    BY <2>1, <2>2
<1>. QED
  BY <1>2, <1>5, <1>6, <1>8, RewardsUntouched

\* A step that leaves the staking contract alone.
LEMMA SignalStepKeeps ==
    ASSUME RewardsInvariant, UNCHANGED vars, CurationInvariant', RewardsSound(rewards'),
           LeavesFunds(rewards, rewards')
    PROVE  RewardsInvariant'
<1>1. /\ IInv /\ Good(ledger) /\ rewards \in RewardsState /\ rewards' \in RewardsState
      /\ \A s \in Subgraphs : Funded(rewards, ledger, s)
  BY NowIs DEF RewardsInvariant, RewardsSound
<1>2. GoodStep
  BY <1>1, StutterStep
<1>3. Books' /\ Deployed(ledger')
  BY <1>2, BooksAfter, DeployedAfter DEF RewardsInvariant, Books
<1>4. \A s \in Subgraphs : Funded(rewards', ledger, s)
  BY <1>1, LeavesFunded
<1>5. ledger' = ledger /\ UNCHANGED clock
  BY DEF vars
<1>6. RewardsSound(rewards)'
  BY <1>5 DEF RewardsSound, clock
<1>. QED
  BY <1>3, <1>4, <1>5, <1>6 DEF RewardsInvariant

LEMMA SignalKeepsAll ==
    ASSUME RewardsInvariant, SignalSteps
    PROVE  RewardsInvariant'
<1>1. /\ CurationInvariant /\ RewardsSound(rewards) /\ block \in Blocks
      /\ Good(ledger) /\ ledger \in Ledger
      /\ curationLedger \in CurationDraft /\ Settled(curationLedger)
  BY NowIs DEF RewardsInvariant
<1>2. UNCHANGED vars /\ UNCHANGED pauses
  BY DEF SignalSteps, SignalMint, SignalBurn, vars
<1>3. CurationNext
  BY <1>2 DEF SignalSteps, SignalMint, SignalBurn, CurationNext, MintSteps, BurnSteps
<1>4. CurationInvariant'
  BY <1>1, <1>3, CurationStepKeeps
<1>5. RewardsSound(rewards') /\ LeavesFunds(rewards, rewards')
  <2>1. \/ rewards' = rewards
        \/ \E s \in Subgraphs : rewards' = SignalUpdated(rewards, ledger, curationLedger, s)
    BY DEF SignalSteps, SignalMint, SignalBurn, rewardsVars
  <2>. QED
    BY <1>1, <2>1, SignalKeeps DEF LeavesFunds
<1>. QED
  BY <1>2, <1>4, <1>5, SignalStepKeeps

\* The hooks that anyone may call, the governor and the oracle.
LEMMA HooksKeep ==
    ASSUME RewardsInvariant, HookSteps \/ RewardsGovernorSteps
    PROVE  RewardsInvariant'
<1>1. /\ CurationInvariant /\ RewardsSound(rewards) /\ block \in Blocks /\ block \in Nat
      /\ Good(ledger) /\ ledger \in Ledger /\ AllocationsBooked(ledger) /\ IInv
      /\ curationLedger \in CurationDraft /\ Settled(curationLedger)
      /\ \A x \in Subgraphs : Funded(rewards, ledger, x)
  BY NowIs DEF RewardsInvariant
<1>2. UNCHANGED vars /\ UNCHANGED curationVars
  BY DEF HookSteps, RewardsGovernorSteps, UpdateAccRewardsPerSignal, OnSubgraphSignalUpdate,
         OnSubgraphAllocationUpdate, SetIssuanceRate, SetSubgraphAvailabilityOracle,
         SetDenied, SetDeniedMany, Update
<1>3. CurationInvariant'
  BY <1>1, <1>2, CurationUntouched
<1>4. CASE \E s \in Subgraphs : OnSubgraphAllocationUpdate(s)
  <2>1. PICK s \in Subgraphs : OnSubgraphAllocationUpdate(s)
    BY <1>4
  <2>. DEFINE q == AllocationUpdated(rewards, ledger, curationLedger, s)
  <2>2. CanUpdateAllocation(rewards, ledger, curationLedger, s) /\ rewards' = q
    BY <2>1 DEF OnSubgraphAllocationUpdate, Update
  <2>3. RewardsSound(q) /\ \A x \in Subgraphs : Funded(q, ledger, x)
    BY <1>1, <2>2, UpdateKeeps
  <2>. HIDE DEF q
  <2>4. GoodStep
    BY <1>1, <1>2, StutterStep
  <2>5. ledger' = ledger /\ UNCHANGED clock
    BY <1>2 DEF vars
  <2>6. Books' /\ Deployed(ledger')
    BY <2>4, BooksAfter, DeployedAfter DEF RewardsInvariant, Books
  <2>7. RewardsSound(rewards)'
    BY <2>2, <2>3, <2>5 DEF RewardsSound, clock
  <2>. QED
    BY <1>3, <2>2, <2>3, <2>5, <2>6, <2>7 DEF RewardsInvariant
<1>5. CASE ~\E s \in Subgraphs : OnSubgraphAllocationUpdate(s)
  <2>1. \/ rewards' = rewards
        \/ rewards' = Checkpointed(rewards, ledger, curationLedger)
        \/ \E s \in Subgraphs : rewards' = SignalUpdated(rewards, ledger, curationLedger, s)
        \/ \E rate \in IssuanceRates :
              /\ rate >= TokenDecimals
              /\ rewards' = [Checkpointed(rewards, ledger, curationLedger)
                                EXCEPT !.issuanceRate = rate]
    <3>1. CASE HookSteps
      BY <1>5, <3>1 DEF HookSteps, UpdateAccRewardsPerSignal, OnSubgraphSignalUpdate, Update
    <3>2. CASE RewardsGovernorSteps
      BY <3>2 DEF RewardsGovernorSteps, SetIssuanceRate, SetSubgraphAvailabilityOracle,
                  SetDenied, SetDeniedMany, Update
    <3>. QED
      BY <3>1, <3>2
  <2>2. IssuanceRates \subseteq Nat
    BY RewardsAssumption
  <2>3. RewardsSound(rewards') /\ LeavesFunds(rewards, rewards')
    <3>1. CASE rewards' = rewards
      BY <1>1, <3>1 DEF LeavesFunds
    <3>2. CASE rewards' # rewards
      BY <1>1, <2>1, <2>2, <3>2, SignalKeeps, CheckpointKeeps
    <3>. QED
      BY <3>1, <3>2
  <2>. QED
    BY <1>2, <1>3, <2>3, SignalStepKeeps
<1>. QED
  BY <1>4, <1>5

LEMMA RewardsStep ==
    ASSUME RewardsInvariant, [RewardsNext]_protocolVars
    PROVE  RewardsInvariant'
<1>1. CASE UnrewardedSteps
  BY <1>1, UnrewardedKeeps
<1>2. CASE RewardedSteps
  <2>1. AllocateAmounts \subseteq Nat /\ FeeAmounts \subseteq Nat
    BY InputAssumption
  <2>2. PICK sender \in Accounts, id \in AllocationIDs :
        \/ \E i \in Indexers, s \in Subgraphs, tokens \in AllocateAmounts :
               RewardedAllocate(sender, i, s, tokens, id)
        \/ \E poi \in BOOLEAN : RewardedClose(sender, id, poi)
        \/ \E poi1, poi2 \in BOOLEAN, id2 \in AllocationIDs :
               RewardedCloseMany(sender, id, poi1, id2, poi2)
        \/ \E poi \in BOOLEAN, i \in Indexers, s \in Subgraphs, tokens \in AllocateAmounts,
              id2 \in AllocationIDs : RewardedCloseAndAllocate(sender, id, poi, i, s, tokens, id2)
        \/ \E tokens \in FeeAmounts : CuratedCollect(sender, tokens, id)
    BY <1>2 DEF RewardedSteps
  <2>3. CASE \E i \in Indexers, s \in Subgraphs, tokens \in AllocateAmounts :
                RewardedAllocate(sender, i, s, tokens, id)
    BY <2>1, <2>3, RewardedAllocateKeeps
  <2>4. CASE \E poi \in BOOLEAN : RewardedClose(sender, id, poi)
    BY <2>4, RewardedCloseKeeps
  <2>5. CASE \E poi1, poi2 \in BOOLEAN, id2 \in AllocationIDs :
                RewardedCloseMany(sender, id, poi1, id2, poi2)
    BY <2>5, RewardedCloseManyKeeps
  <2>6. CASE \E poi \in BOOLEAN, i \in Indexers, s \in Subgraphs, tokens \in AllocateAmounts,
               id2 \in AllocationIDs : RewardedCloseAndAllocate(sender, id, poi, i, s, tokens, id2)
    BY <2>1, <2>6, RewardedCloseAndAllocateKeeps
  <2>7. CASE \E tokens \in FeeAmounts : CuratedCollect(sender, tokens, id)
    BY <2>1, <2>7, CuratedCollectKeeps
  <2>. QED
    BY <2>2, <2>3, <2>4, <2>5, <2>6, <2>7
<1>3. CASE SignalSteps
  BY <1>3, SignalKeepsAll
<1>4. CASE HookSteps \/ RewardsGovernorSteps
  BY <1>4, HooksKeep
<1>5. CASE UNCHANGED protocolVars
  <2>1. UNCHANGED vars /\ UNCHANGED curationVars /\ rewards' = rewards
    BY <1>5 DEF protocolVars, rewardsVars
  <2>2. CurationInvariant'
    BY <2>1, CurationUntouched DEF RewardsInvariant
  <2>3. RewardsSound(rewards') /\ LeavesFunds(rewards, rewards')
    BY <2>1 DEF RewardsInvariant, LeavesFunds
  <2>. QED
    BY <2>1, <2>2, <2>3, SignalStepKeeps
<1>. QED
  BY <1>1, <1>2, <1>3, <1>4, <1>5 DEF RewardsNext

\* The rewards are funded in every reachable state.
THEOREM RewardsAreFunded == RewardsSpec => []RewardsInvariant
<1>1. RewardsInit => RewardsInvariant
  BY RewardsInitially
<1>2. RewardsInvariant /\ [RewardsNext]_protocolVars => RewardsInvariant'
  BY RewardsStep
<1>. QED
  BY <1>1, <1>2, PTL DEF RewardsSpec

-----------------------------------------------------------------------------
(* What an allocation would be paid *)

\* An open allocation would be paid at most what the accumulator, brought up to
\* date, gives it.
LEMMA PendingIs ==
    ASSUME RewardsInvariant, NEW s \in Subgraphs,
           CanUpdateAllocation(rewards, ledger, curationLedger, s)
    PROVE  LET q == AllocationUpdated(rewards, ledger, curationLedger, s)
           IN  /\ q \in RewardsState /\ Funded(q, ledger, s)
               /\ \A id \in OpenOn(ledger, s) :
                     /\ Pending(id) \in Nat
                     /\ Pending(id) * TokenDecimals <= Gains(q, ledger, s)[id]
               /\ \A id \in AllocationIDs \ OpenOn(ledger, s) : Gains(q, ledger, s)[id] = 0
<1>. DEFINE q    == AllocationUpdated(rewards, ledger, curationLedger, s)
            accN == AccRewardsPerAllocatedToken(rewards, ledger, curationLedger, s)
            D    == TokenDecimals
<1>1. /\ RewardsSound(q) /\ Funded(q, ledger, s) /\ accN \in Nat
  BY NowIs, UpdateKeeps, UpdateSpreads DEF RewardsInvariant
<1>2. q.subgraphs[s].accRewardsPerAllocatedToken = accN /\ q.atOpening = rewards.atOpening
  BY NowIs, UpdatedIs
<1>3. \A id \in AllocationIDs : /\ rewards.atOpening[id] \in Nat
                                /\ ledger.allocations[id].tokens \in Nat
  BY NowIs, RewardsAreTyped DEF RewardsTyping, Good, OpenLedger, Allocation
<1>4. \A id \in AllocationIDs :
         /\ id \in OpenOn(ledger, s) <=> IsOn(ledger, id, s)
         /\ id \in OpenOn(ledger, s) => DeploymentOf(ledger, id) = s
  BY DEF OpenOn, Active, StateOf, AllocationState, IsOn, IsActive, DeploymentOf
<1>5. ASSUME NEW id \in OpenOn(ledger, s)
      PROVE  Pending(id) \in Nat /\ Pending(id) * D <= Gains(q, ledger, s)[id]
  <2>. DEFINE a    == ledger.allocations[id].tokens
              gain == accN - rewards.atOpening[id]
              pays == (gain * a) \div D
  <2>1. id \in AllocationIDs
    BY DEF OpenOn, Active
  <2>2. gain \in Nat /\ a \in Nat /\ D \in Nat \ {0}
    BY <1>1, <1>2, <1>3, <1>4, <2>1, UnitNat DEF Funded
  <2>3. Gains(q, ledger, s)[id] = gain * a
    BY <1>2, <1>4, <2>1 DEF Gains
  <2>4. Pending(id) = DiffOrZero(pays, 0)
    BY <1>4, <2>1 DEF Pending, CalcRewards, NewAccrued
  <2>. HIDE DEF a, gain, D
  <2>5. gain * a \in Nat
    BY <2>2
  <2>6. pays \in Nat /\ pays * D <= gain * a
    BY <2>2, <2>5, DivBounds
  <2>7. Pending(id) = pays
    BY <2>4, <2>6 DEF DiffOrZero
  <2>. QED
    BY <2>3, <2>6, <2>7
<1>6. \A id \in AllocationIDs \ OpenOn(ledger, s) : Gains(q, ledger, s)[id] = 0
  BY <1>4 DEF Gains
<1>. QED
  BY <1>1, <1>5, <1>6 DEF RewardsSound

LEMMA AllAreBacked ==
    ASSUME RewardsInvariant, NEW s \in Subgraphs,
           CanUpdateAllocation(rewards, ledger, curationLedger, s)
    PROVE  Backed(s)
<1>. DEFINE q == AllocationUpdated(rewards, ledger, curationLedger, s)
            G == Gains(q, ledger, s)
            O == OpenOn(ledger, s)
            P == [id \in O |-> Pending(id)]
            W == [id \in AllocationIDs |-> IF id \in O THEN P[id] ELSE 0]
            Z == [id \in AllocationIDs |-> 0]
            V == [id \in AllocationIDs |-> Z[id] + TokenDecimals * W[id]]
            pending == SumFunctionOnSet(P, O)
            paid == rewards.assigned[s]
            accrued == Accrued(s)
            D == TokenDecimals
<1>1. /\ q \in RewardsState /\ Funded(q, ledger, s)
      /\ \A id \in O : P[id] \in Nat /\ P[id] * D <= G[id]
      /\ \A id \in AllocationIDs \ O : G[id] = 0
  BY PendingIs
<1>2. /\ q.assigned[s] = paid
      /\ q.subgraphs[s].accRewardsForSubgraphSnapshot = accrued
      /\ rewards \in RewardsState
  BY NowIs, UpdatedIs DEF Accrued
<1>3. paid \in Nat /\ accrued \in Nat /\ D \in Nat \ {0}
  BY <1>1, <1>2, RewardsAreTyped, UnitNat DEF RewardsTyping, SubgraphRewards
<1>4. O \subseteq AllocationIDs /\ IsFiniteSet(AllocationIDs)
  BY FiniteSets DEF OpenOn, Active
<1>5. Backed(s) <=> paid + pending <= accrued
  BY DEF Backed, SumFunction
<1>6. \A id \in AllocationIDs : G[id] \in Int
  BY <1>1, NowIs, GainsInt
<1>. HIDE DEF G, O, P, q, paid, accrued
<1>7. \A id \in AllocationIDs : /\ W[id] = IF id \in O THEN P[id] ELSE 0
                                /\ W[id] \in Int /\ Z[id] = 0 /\ Z[id] \in Int
  BY <1>1
<1>8. \A id \in AllocationIDs : V[id] = Z[id] + D * W[id]
  OBVIOUS
<1>9. \A id \in AllocationIDs : V[id] \in Int /\ V[id] <= G[id]
  <2>. TAKE id \in AllocationIDs
  <2>1. CASE id \in O
    BY <1>1, <1>3, <1>6, <1>7, <1>8, <2>1
  <2>2. CASE id \notin O
    BY <1>1, <1>3, <1>6, <1>7, <1>8, <2>2
  <2>. QED
    BY <2>1, <2>2
<1>. HIDE DEF V, W, Z, D
<1>10. pending = SumFunctionOnSet(W, AllocationIDs)
  BY <1>1, <1>4, <1>7, SumOverPart
<1>11. SumFunctionOnSet(W, AllocationIDs) \in Int
  BY <1>4, <1>7, SumIsInt
<1>12. SumFunctionOnSet(Z, AllocationIDs) = 0
  BY <1>4, <1>7, SumOfZeros
<1>13. SumFunctionOnSet(V, AllocationIDs)
          = SumFunctionOnSet(Z, AllocationIDs) + D * SumFunctionOnSet(W, AllocationIDs)
  <2>1. /\ IsFiniteSet(AllocationIDs) /\ D \in Int
        /\ \A id \in AllocationIDs : Z[id] \in Int /\ W[id] \in Int /\ V[id] = Z[id] + D * W[id]
    BY <1>3, <1>4, <1>7, <1>8
  <2>. QED
    BY <2>1, SumOfScaled
<1>14. SumFunctionOnSet(V, AllocationIDs) <= SumFunctionOnSet(G, AllocationIDs)
  BY <1>4, <1>6, <1>9, SumIsMonotonic
<1>15. /\ paid * D + SumFunctionOnSet(G, AllocationIDs) <= accrued * D
       /\ SumFunctionOnSet(G, AllocationIDs) \in Int
  <2>1. SumFunctionOnSet(G, AllocationIDs) \in Int
    BY <1>4, <1>6, SumIsInt
  <2>. QED
    BY <1>1, <1>2, <2>1 DEF Funded, D, G
<1>. HIDE DEF pending
<1>16. paid * D + D * pending <= accrued * D
  <2>1. pending \in Int /\ D * pending \in Int /\ paid * D \in Int /\ accrued * D \in Int
    BY <1>3, <1>10, <1>11
  <2>2. D * pending <= SumFunctionOnSet(G, AllocationIDs)
    BY <1>3, <1>10, <1>11, <1>12, <1>13, <1>14
  <2>. QED
    BY <1>15, <2>1, <2>2
<1>17. pending \in Int
  BY <1>10, <1>11
<1>18. (paid + pending) * D <= accrued * D /\ paid + pending \in Int
  BY <1>3, <1>16, <1>17
<1>19. paid + pending <= accrued
  BY <1>3, <1>18, FactorCancels
<1>. QED
  BY <1>5, <1>19

\* No rewards are paid twice, to two allocations or for a time before an
\* allocation was opened (RewardsManager.sol:289-394).
THEOREM RewardsAreCovered == RewardsSpec => []RewardsCovered
<1>1. RewardsInvariant => RewardsCovered
  BY AllAreBacked DEF RewardsCovered
<1>. QED
  BY <1>1, RewardsAreFunded, PTL

\* With the rewards minted and the curators' part of the fees paid, the staking
\* contract still holds exactly what it owes.
THEOREM TotalsStayExactRewarded == RewardsSpec => []TotalsAddUp
<1>1. RewardsInvariant => TotalsAddUp
  BY BooksAddUp DEF RewardsInvariant
<1>. QED
  BY <1>1, RewardsAreFunded, PTL

\* And the curation contract its reserves.
THEOREM RewardedReservesSound == RewardsSpec => []ReservesSound
<1>1. RewardsInvariant => ReservesSound
  BY DEF RewardsInvariant, CurationInvariant, DraftSound, PoolSound, ReservesSound,
         ReservesHeld, ReserveBacksSignal
<1>. QED
  BY <1>1, RewardsAreFunded, PTL

-----------------------------------------------------------------------------
(* What accrues in a block *)

\* The same as AccRewardsPerSignal and AccRewardsForSubgraph, in any block b, with
\* any supply p and t signalled tokens, of which k in the pool of the deployment.
IssuedAt(b, r, p) ==
    (p * Pow(r.issuanceRate, b - r.accRewardsPerSignalLastBlockUpdated)) \div TokenDecimals - p

NewPerSignalAt(b, r, p, t) ==
    IF \/ b = r.accRewardsPerSignalLastBlockUpdated
       \/ r.issuanceRate <= TokenDecimals
       \/ t = 0
    THEN 0
    ELSE (IssuedAt(b, r, p) * TokenDecimals) \div t

PerSignalAt(b, r, p, t) == r.accRewardsPerSignal + NewPerSignalAt(b, r, p, t)

ShareAt(r, s, perSignal, k) ==
    r.subgraphs[s].accRewardsForSubgraph
       + ((perSignal - r.subgraphs[s].accRewardsPerSignalSnapshot) * k) \div TokenDecimals

AccruedAt(b, r, p, t, s, k) == ShareAt(r, s, PerSignalAt(b, r, p, t), k)

LEMMA AtThisBlock ==
    ASSUME NEW r, NEW l, NEW c, NEW s
    PROVE  /\ Issued(r, l, c) = IssuedAt(block, r, TotalSupply(l, c))
           /\ AccRewardsPerSignal(r, l, c)
                 = PerSignalAt(block, r, TotalSupply(l, c), SignalledTokens(c))
           /\ AccRewardsForSubgraph(r, l, c, s)
                 = AccruedAt(block, r, TotalSupply(l, c), SignalledTokens(c), s, c.pools[s].tokens)
<1>1. Issued(r, l, c) = IssuedAt(block, r, TotalSupply(l, c))
  BY DEF Issued, IssuedAt
<1>2. AccRewardsPerSignal(r, l, c)
         = PerSignalAt(block, r, TotalSupply(l, c), SignalledTokens(c))
  BY <1>1 DEF AccRewardsPerSignal, NewRewardsPerSignal, PerSignalAt, NewPerSignalAt
<1>3. AccRewardsForSubgraph(r, l, c, s)
         = AccruedAt(block, r, TotalSupply(l, c), SignalledTokens(c), s, c.pools[s].tokens)
  BY <1>2 DEF AccRewardsForSubgraph, AccruedAt, ShareAt
<1>. QED
  BY <1>1, <1>2, <1>3

\* What deployments accrued, before a step and after it.
LEMMA AccruedNow ==
    ASSUME NEW s
    PROVE  Accrued(s) = AccruedAt(block, rewards, TotalSupply(ledger, curationLedger),
                                  SignalledTokens(curationLedger), s,
                                  curationLedger.pools[s].tokens)
BY AtThisBlock DEF Accrued

LEMMA AccruedThen ==
    ASSUME NEW s
    PROVE  Accrued(s)' = AccruedAt(block', rewards', TotalSupply(ledger', curationLedger'),
                                   SignalledTokens(curationLedger'), s,
                                   curationLedger'.pools[s].tokens)
<1>. DEFINE i == (TotalSupply(ledger', curationLedger')
                    * Pow(rewards'.issuanceRate,
                          block' - rewards'.accRewardsPerSignalLastBlockUpdated))
                    \div TokenDecimals - TotalSupply(ledger', curationLedger')
<1>1. Issued(rewards, ledger, curationLedger)' = i
  BY DEF Issued, TotalSupply
<1>2. IssuedAt(block', rewards', TotalSupply(ledger', curationLedger')) = i
  BY DEF IssuedAt
<1>. HIDE DEF i
<1>3. AccRewardsPerSignal(rewards, ledger, curationLedger)'
         = PerSignalAt(block', rewards', TotalSupply(ledger', curationLedger'),
                       SignalledTokens(curationLedger'))
  BY <1>1, <1>2 DEF AccRewardsPerSignal, NewRewardsPerSignal, PerSignalAt, NewPerSignalAt,
                    SignalledTokens
<1>4. AccRewardsForSubgraph(rewards, ledger, curationLedger, s)'
         = ShareAt(rewards', s, AccRewardsPerSignal(rewards, ledger, curationLedger)',
                   curationLedger'.pools[s].tokens)
  BY DEF AccRewardsForSubgraph, ShareAt
<1>. QED
  BY <1>3, <1>4 DEF AccruedAt, Accrued

LEMMA DivShift ==
    ASSUME NEW a \in Int, NEW n \in Int, NEW b \in Nat \ {0}
    PROVE  (a + n * b) \div b = a \div b + n
<1>. DEFINE p == a \div b
            q == (a + n * b) \div b
<1>1. a + n * b \in Int
  OBVIOUS
<1>2. /\ p \in Int /\ p * b <= a /\ a < p * b + b
      /\ q \in Int /\ q * b <= a + n * b /\ a + n * b < q * b + b
  BY <1>1, IntDivBounds
<1>. HIDE DEF p, q
<1>3. (q - n) * b = q * b - n * b /\ q - n \in Int
  BY <1>2
<1>4. (q - n) * b < (p + 1) * b /\ p * b < (q - n + 1) * b
  BY <1>2, <1>3
<1>5. \A x, y \in Int : x * b < y * b => x < y
  OBVIOUS
<1>6. q - n < p + 1 /\ p < q - n + 1
  BY <1>2, <1>3, <1>4, <1>5
<1>. QED
  BY <1>2, <1>6 DEF p, q

\* What is issued grows with the supply and with the blocks.
LEMMA IssuedGrows ==
    ASSUME NEW r, r.issuanceRate \in Nat, r.issuanceRate >= TokenDecimals,
           NEW b \in Nat, NEW c \in Nat, c = b \/ c = b + 1,
           r.accRewardsPerSignalLastBlockUpdated \in Nat,
           r.accRewardsPerSignalLastBlockUpdated <= b,
           NEW p \in Nat, NEW q \in Nat, p <= q
    PROVE  /\ IssuedAt(b, r, p) \in Nat /\ IssuedAt(c, r, q) \in Nat
           /\ IssuedAt(b, r, p) <= IssuedAt(c, r, q)
           /\ b = r.accRewardsPerSignalLastBlockUpdated => IssuedAt(b, r, p) = 0
<1>. DEFINE D == TokenDecimals
            x == r.issuanceRate
            n == b - r.accRewardsPerSignalLastBlockUpdated
            m == c - r.accRewardsPerSignalLastBlockUpdated
            v == Pow(x, n)
            w == Pow(x, m)
            i == (p * (v - D)) \div D
            j == (q * (w - D)) \div D
<1>1. D \in Nat \ {0} /\ n \in Nat /\ m \in Nat /\ (m = n \/ m = n + 1)
  BY UnitNat
<1>2. v \in Nat /\ w \in Nat /\ D <= v /\ D <= w /\ v <= w
  <2>1. \A k \in Nat : Pow(x, k) \in Nat /\ D <= Pow(x, k) /\ Pow(x, k) <= Pow(x, k + 1)
    BY PowGrows
  <2>. HIDE DEF D, n, m
  <2>. QED
    BY <1>1, <2>1
<1>3. n = 0 => v = D
  <2>1. 0 \div 2 = 0 /\ 0 % 2 = 0
    OBVIOUS
  <2>2. ASSUME n = 0 PROVE v = PowLoop[0][x][D]
    BY <2>1, <2>2 DEF Pow
  <2>3. PowLoop[0][x][D] = D
    BY <1>1, PowDone
  <2>. QED
    BY <2>2, <2>3
<1>4. IssuedAt(b, r, p) = (p * v) \div D - p /\ IssuedAt(c, r, q) = (q * w) \div D - q
  BY DEF IssuedAt
<1>. HIDE DEF D, v, w, n, m
<1>5. p * (v - D) \in Nat /\ q * (w - D) \in Nat /\ p * (v - D) <= q * (w - D)
  <2>1. v - D \in Nat /\ w - D \in Nat /\ v - D <= w - D
    BY <1>1, <1>2
  <2>. QED
    BY <2>1, ProductsGrow
<1>6. i \in Nat /\ j \in Nat /\ i <= j
  <2>1. 0 \div D = 0
    BY <1>1
  <2>2. i \in Int /\ j \in Int /\ 0 \div D <= i /\ 0 \div D <= j /\ i <= j
    BY <1>1, <1>5, IntDivBounds, DivGrows
  <2>. QED
    BY <2>1, <2>2
<1>7. (p * v) \div D - p = i /\ (q * w) \div D - q = j
  <2>1. p * v = p * (v - D) + p * D /\ q * w = q * (w - D) + q * D
    BY <1>1, <1>2
  <2>2. \A a \in Nat, k \in Nat : (a + k * D) \div D = a \div D + k
    <3>. TAKE a \in Nat, k \in Nat
    <3>1. D \in Nat \ {0} /\ a \in Int /\ k \in Int
      BY <1>1
    <3>. QED
      BY <3>1, DivShift, Zenon
  <2>3. (p * v) \div D = i + p /\ (q * w) \div D = j + q
    BY <1>5, <2>1, <2>2
  <2>. HIDE DEF i, j
  <2>. QED
    BY <1>6, <2>3
<1>8. n = 0 => i = 0
  BY <1>1, <1>3
<1>. QED
  BY <1>4, <1>6, <1>7, <1>8 DEF n

\* So does what a token of signal has earned.
LEMMA PerSignalGrows ==
    ASSUME NEW r, RewardsSound(r),
           NEW b \in Nat, NEW c \in Nat, c = b \/ c = b + 1,
           r.accRewardsPerSignalLastBlockUpdated <= b,
           NEW p \in Nat, NEW q \in Nat, p <= q, NEW t \in Nat
    PROVE  /\ NewPerSignalAt(b, r, p, t) \in Nat /\ NewPerSignalAt(c, r, q, t) \in Nat
           /\ NewPerSignalAt(b, r, p, t) <= NewPerSignalAt(c, r, q, t)
           /\ PerSignalAt(b, r, p, t) \in Nat /\ PerSignalAt(c, r, q, t) \in Nat
           /\ r.accRewardsPerSignal <= PerSignalAt(b, r, p, t)
           /\ PerSignalAt(b, r, p, t) <= PerSignalAt(c, r, q, t)
<1>. DEFINE i == IssuedAt(b, r, p)
            j == IssuedAt(c, r, q)
            D == TokenDecimals
            m == NewPerSignalAt(b, r, p, t)
            n == NewPerSignalAt(c, r, q, t)
            last == r.accRewardsPerSignalLastBlockUpdated
<1>1. /\ r.issuanceRate \in Nat /\ r.issuanceRate >= D /\ last \in Nat
      /\ r.accRewardsPerSignal \in Nat
  BY RewardsAreTyped DEF RewardsSound, RewardsTyping
<1>2. i \in Nat /\ j \in Nat /\ i <= j
  BY <1>1, IssuedGrows
<1>3. D \in Nat \ {0}
  BY UnitNat
<1>4. /\ m = IF b = last \/ r.issuanceRate <= D \/ t = 0 THEN 0 ELSE (i * D) \div t
      /\ n = IF c = last \/ r.issuanceRate <= D \/ t = 0 THEN 0 ELSE (j * D) \div t
  BY DEF NewPerSignalAt
<1>. HIDE DEF m, n, i, j, D
<1>5. ASSUME t # 0
      PROVE  /\ (i * D) \div t \in Nat /\ (j * D) \div t \in Nat
             /\ (i * D) \div t <= (j * D) \div t
  <2>1. i * D \in Nat /\ j * D \in Nat /\ i * D <= j * D
    BY <1>2, <1>3
  <2>2. t \in Nat \ {0} /\ 0 \div t = 0
    BY <1>5
  <2>3. /\ (i * D) \div t \in Int /\ (j * D) \div t \in Int
        /\ 0 \div t <= (i * D) \div t /\ (i * D) \div t <= (j * D) \div t
    BY <2>1, <2>2, IntDivBounds, DivGrows
  <2>. QED
    BY <2>2, <2>3
<1>6. m \in Nat /\ n \in Nat /\ m <= n
  BY <1>1, <1>4, <1>5
<1>. QED
  BY <1>1, <1>6 DEF PerSignalAt, m, n

\* And the share of a deployment.
LEMMA ShareGrows ==
    ASSUME NEW r, RewardsSound(r), NEW s \in Subgraphs, NEW x \in Int, NEW y \in Int,
           x <= y, NEW k \in Nat
    PROVE  /\ ShareAt(r, s, x, k) \in Int /\ ShareAt(r, s, y, k) \in Int
           /\ ShareAt(r, s, x, k) <= ShareAt(r, s, y, k)
<1>. DEFINE o == r.subgraphs[s].accRewardsPerSignalSnapshot
            a == r.subgraphs[s].accRewardsForSubgraph
            D == TokenDecimals
<1>1. o \in Nat /\ a \in Nat /\ D \in Nat \ {0}
  BY RewardsAreTyped, UnitNat DEF RewardsSound, RewardsTyping
<1>. HIDE DEF o, a, D
<1>2. /\ (x - o) * k \in Int /\ (y - o) * k \in Int /\ (x - o) * k <= (y - o) * k
  BY <1>1
<1>3. /\ ((x - o) * k) \div D \in Int /\ ((y - o) * k) \div D \in Int
      /\ ((x - o) * k) \div D <= ((y - o) * k) \div D
  BY <1>1, <1>2, IntDivBounds, DivGrows
<1>. QED
  BY <1>1, <1>3 DEF ShareAt, o, a, D

\* From r to q nothing is written that the hooks of the curation contract write.
SignalLeft(r, q) ==
    /\ q.issuanceRate = r.issuanceRate
    /\ q.accRewardsPerSignal = r.accRewardsPerSignal
    /\ q.accRewardsPerSignalLastBlockUpdated = r.accRewardsPerSignalLastBlockUpdated
    /\ \A s \in Subgraphs :
          /\ q.subgraphs[s].accRewardsForSubgraph = r.subgraphs[s].accRewardsForSubgraph
          /\ q.subgraphs[s].accRewardsPerSignalSnapshot
                = r.subgraphs[s].accRewardsPerSignalSnapshot

LEMMA LeftAlike ==
    ASSUME NEW r, NEW q, SignalLeft(r, q), NEW s \in Subgraphs, NEW b, NEW p, NEW t, NEW k
    PROVE  /\ PerSignalAt(b, q, p, t) = PerSignalAt(b, r, p, t)
           /\ AccruedAt(b, q, p, t, s, k) = AccruedAt(b, r, p, t, s, k)
<1>1. PerSignalAt(b, q, p, t) = PerSignalAt(b, r, p, t)
  BY DEF SignalLeft, PerSignalAt, NewPerSignalAt, IssuedAt
<1>. QED
  BY <1>1 DEF SignalLeft, AccruedAt, ShareAt

\* The numbers of this moment.
LEMMA NumbersNow ==
    ASSUME RewardsInvariant
    PROVE  /\ RewardsSound(rewards)
           /\ TotalSupply(ledger, curationLedger) \in Nat
           /\ SignalledTokens(curationLedger) \in Nat
           /\ block \in Nat
           /\ rewards.accRewardsPerSignalLastBlockUpdated \in Nat
           /\ rewards.accRewardsPerSignalLastBlockUpdated <= block
           /\ rewards.accRewardsPerSignal \in Nat
           /\ rewards.issuanceRate \in Nat /\ rewards.issuanceRate >= TokenDecimals
           /\ \A s \in Subgraphs :
                 /\ curationLedger.pools[s].tokens \in Nat
                 /\ rewards.subgraphs[s].accRewardsForSubgraph \in Nat
                 /\ rewards.subgraphs[s].accRewardsPerSignalSnapshot \in Nat
                 /\ rewards.subgraphs[s].accRewardsForSubgraphSnapshot \in Nat
                 /\ rewards.subgraphs[s].accRewardsPerSignalSnapshot
                       <= rewards.accRewardsPerSignal
<1>1. RewardsSound(rewards) /\ RewardsTyping(rewards)
  BY RewardsAreTyped DEF RewardsInvariant, RewardsSound
<1>2. TotalSupply(ledger, curationLedger) \in Nat
  BY NowIs, SupplyIs
<1>3. \A s \in Subgraphs : curationLedger.pools[s].tokens \in Nat
  BY NowIs DEF CurationDraft, CurationPool
<1>4. SignalledTokens(curationLedger) \in Nat
  BY NowIs DEF SignalledTokens, CurationDraft, CurationHolders, Settled
<1>. QED
  BY <1>1, <1>2, <1>3, <1>4, NowIs DEF RewardsSound, RewardsTyping

\* Without a checkpoint nothing accrues or is lost in a block, unless it is repriced.
LEMMA AccrualLeft ==
    ASSUME RewardsInvariant, block' = block, SignalLeft(rewards, rewards'), NEW s \in Subgraphs,
           \/ curationLedger'.pools[s].tokens = curationLedger.pools[s].tokens
           \/ SignalledTokens(curationLedger') # SignalledTokens(curationLedger),
           ledger' = ledger => /\ curationLedger'.pools = curationLedger.pools
                               /\ curationLedger'.grt = curationLedger.grt,
           curationLedger'.pools[s].tokens \in Int, ~Repriced(s)
    PROVE  Accrued(s)' = Accrued(s)
<1>. DEFINE b == block
            p == TotalSupply(ledger, curationLedger)
            t == SignalledTokens(curationLedger)
            k == curationLedger.pools[s].tokens
            q == TotalSupply(ledger', curationLedger')
            u == SignalledTokens(curationLedger')
            m == curationLedger'.pools[s].tokens
            r == rewards
            acc == r.accRewardsPerSignal
            snap == r.subgraphs[s].accRewardsPerSignalSnapshot
<1>1. Accrued(s) = AccruedAt(b, r, p, t, s, k)
  BY AccruedNow
<1>2. Accrued(s)' = AccruedAt(b, r, q, u, s, m)
  <2>1. Accrued(s)' = AccruedAt(block', rewards', q, u, s, m)
    BY AccruedThen
  <2>. HIDE DEF q, u, m
  <2>. QED
    BY <2>1, LeftAlike
<1>3. /\ r.accRewardsPerSignalLastBlockUpdated <= b /\ b \in Nat
      /\ r.accRewardsPerSignalLastBlockUpdated \in Nat
      /\ snap <= acc /\ snap \in Nat /\ acc \in Nat /\ k \in Nat
  BY NumbersNow
<1>4. /\ r.accRewardsPerSignalLastBlockUpdated < b => q = p /\ u = t
      /\ m # k => snap >= acc
  <2>0. ledger' = ledger => q = p /\ u = t /\ m = k
    BY DEF TotalSupply, SignalledTokens
  <2>1. /\ rewards'.accRewardsPerSignalLastBlockUpdated = r.accRewardsPerSignalLastBlockUpdated
        /\ rewards'.accRewardsPerSignal = acc
        /\ rewards'.subgraphs[s].accRewardsPerSignalSnapshot = snap
    BY DEF SignalLeft
  <2>2. /\ ~(/\ rewards'.accRewardsPerSignalLastBlockUpdated < b
             /\ q # p \/ u # t)
        /\ ~(m # k /\ rewards'.subgraphs[s].accRewardsPerSignalSnapshot
                          < rewards'.accRewardsPerSignal)
    BY <2>0 DEF Repriced
  <2>. HIDE DEF p, q, t, u, m, k, acc, snap
  <2>. QED
    BY <1>3, <2>1, <2>2
<1>5. (m = k \/ u # t) /\ m \in Int
  OBVIOUS
<1>. HIDE DEF p, q, t, u, m, k
<1>6. CASE r.accRewardsPerSignalLastBlockUpdated < b
  BY <1>1, <1>2, <1>4, <1>5, <1>6
<1>7. CASE r.accRewardsPerSignalLastBlockUpdated = b
  <2>1. PerSignalAt(b, r, p, t) = acc /\ PerSignalAt(b, r, q, u) = acc
    BY <1>3, <1>7 DEF PerSignalAt, NewPerSignalAt
  <2>2. CASE m = k
    BY <1>1, <1>2, <2>1, <2>2 DEF AccruedAt
  <2>3. CASE m # k
    <3>1. acc - snap = 0
      BY <1>4, <1>3, <2>3
    <3>. DEFINE z == acc - snap
    <3>2. z * k = 0 /\ z * m = 0
      BY <1>3, <1>5, <3>1
    <3>. QED
      BY <1>1, <1>2, <2>1, <3>2 DEF AccruedAt, ShareAt
  <2>. QED
    BY <2>2, <2>3
<1>. QED
  BY <1>3, <1>6, <1>7

Earned == AccRewardsPerSignal(rewards, ledger, curationLedger)

\* The hooks of the curation contract write what every token of signal has earned,
\* and what a deployment accrued with it if they are to change its tokens.
TakenUp(q, s) ==
    /\ q.accRewardsPerSignalLastBlockUpdated = block
    /\ q.accRewardsPerSignal = Earned
    /\ \/ /\ q.subgraphs[s].accRewardsForSubgraph = rewards.subgraphs[s].accRewardsForSubgraph
          /\ q.subgraphs[s].accRewardsPerSignalSnapshot
                = rewards.subgraphs[s].accRewardsPerSignalSnapshot
       \/ /\ q.subgraphs[s].accRewardsForSubgraph = Accrued(s)
          /\ q.subgraphs[s].accRewardsPerSignalSnapshot = Earned

WrittenOrLeft(q, s) ==
    \/ curationLedger'.pools[s].tokens = curationLedger.pools[s].tokens
    \/ q.subgraphs[s].accRewardsPerSignalSnapshot = Earned
          /\ q.subgraphs[s].accRewardsForSubgraph = Accrued(s)

LEMMA EarnedIs ==
    ASSUME RewardsInvariant
    PROVE  /\ Earned \in Nat
           /\ \A s \in Subgraphs : Accrued(s) \in Nat
<1>1. TotalSupply(ledger, curationLedger) >= 0 /\ rewards.accRewardsPerSignal \in Nat
  BY NumbersNow
<1>2. Earned \in Int /\ Earned >= rewards.accRewardsPerSignal
  BY <1>1, NumbersNow, NowIs, PerSignalIs DEF Earned
<1>3. \A s \in Subgraphs : Accrued(s) \in Nat
  BY <1>1, NumbersNow, NowIs, AccruedIs DEF Accrued
<1>. QED
  BY <1>1, <1>2, <1>3

LEMMA AccrualTaken ==
    ASSUME RewardsInvariant, block' = block, NEW s \in Subgraphs,
           TakenUp(rewards', s), WrittenOrLeft(rewards', s),
           curationLedger'.pools[s].tokens \in Int
    PROVE  Accrued(s)' = Accrued(s)
<1>. DEFINE b == block
            p == TotalSupply(ledger, curationLedger)
            t == SignalledTokens(curationLedger)
            k == curationLedger.pools[s].tokens
            q == TotalSupply(ledger', curationLedger')
            u == SignalledTokens(curationLedger')
            m == curationLedger'.pools[s].tokens
            r == rewards
            n == rewards'
            a == Earned
            D == TokenDecimals
<1>1. Accrued(s) = ShareAt(r, s, a, k)
  <2>1. Accrued(s) = AccruedAt(b, r, p, t, s, k)
    BY AccruedNow
  <2>2. a = PerSignalAt(b, r, p, t)
    BY AtThisBlock DEF Earned
  <2>. HIDE DEF a, p, t, k
  <2>. QED
    BY <2>1, <2>2 DEF AccruedAt
<1>2. Accrued(s)' = ShareAt(n, s, a, m)
  <2>1. Accrued(s)' = ShareAt(n, s, PerSignalAt(block', n, q, u), m)
    BY AccruedThen DEF AccruedAt
  <2>2. PerSignalAt(block', n, q, u) = n.accRewardsPerSignal + 0
    BY DEF PerSignalAt, NewPerSignalAt, TakenUp
  <2>3. a \in Nat
    BY EarnedIs
  <2>4. n.accRewardsPerSignal = a
    BY DEF TakenUp
  <2>. HIDE DEF q, u, m, a, n
  <2>. QED
    BY <2>1, <2>2, <2>3, <2>4
<1>3. a \in Nat /\ Accrued(s) \in Int
  BY EarnedIs
<1>4. CASE n.subgraphs[s].accRewardsPerSignalSnapshot = a
           /\ n.subgraphs[s].accRewardsForSubgraph = Accrued(s)
  <2>. DEFINE z == a - a
  <2>1. z = 0 /\ m \in Int
    BY <1>3
  <2>. HIDE DEF m
  <2>2. ShareAt(n, s, a, m) = Accrued(s) + (z * m) \div D
    BY <1>4 DEF ShareAt
  <2>. HIDE DEF z
  <2>3. z * m = 0
    BY <2>1
  <2>4. 0 \div D = 0
    BY UnitNat
  <2>. QED
    BY <1>2, <1>3, <2>2, <2>3, <2>4
<1>5. CASE ~(n.subgraphs[s].accRewardsPerSignalSnapshot = a
             /\ n.subgraphs[s].accRewardsForSubgraph = Accrued(s))
  <2>1. /\ m = k
        /\ n.subgraphs[s].accRewardsForSubgraph = r.subgraphs[s].accRewardsForSubgraph
        /\ n.subgraphs[s].accRewardsPerSignalSnapshot
              = r.subgraphs[s].accRewardsPerSignalSnapshot
    BY <1>5 DEF TakenUp, WrittenOrLeft
  <2>. QED
    BY <1>1, <1>2, <2>1 DEF ShareAt
<1>. QED
  BY <1>4, <1>5

LEMMA CheckpointTakesUp ==
    ASSUME RewardsInvariant, NEW s \in Subgraphs
    PROVE  /\ TakenUp(Checkpointed(rewards, ledger, curationLedger), s)
           /\ \A rate \in Nat :
                 TakenUp([Checkpointed(rewards, ledger, curationLedger)
                             EXCEPT !.issuanceRate = rate], s)
<1>. DEFINE q == Checkpointed(rewards, ledger, curationLedger)
<1>1. rewards \in RewardsState
  BY NowIs
<1>2. /\ q.accRewardsPerSignalLastBlockUpdated = block
      /\ q.accRewardsPerSignal = Earned
      /\ q.subgraphs = rewards.subgraphs
  BY <1>1 DEF Checkpointed, Earned, RewardsState
<1>3. \A rate \in Nat :
         LET p == [q EXCEPT !.issuanceRate = rate]
         IN  /\ p.accRewardsPerSignalLastBlockUpdated = block
             /\ p.accRewardsPerSignal = Earned
             /\ p.subgraphs = rewards.subgraphs
  BY <1>1 DEF Checkpointed, Earned, RewardsState
<1>. HIDE DEF q
<1>4. TakenUp(q, s)
  BY <1>2 DEF TakenUp
<1>5. \A rate \in Nat : TakenUp([q EXCEPT !.issuanceRate = rate], s)
  BY <1>3 DEF TakenUp
<1>. QED
  BY <1>4, <1>5 DEF q

LEMMA SignalTakesUp ==
    ASSUME RewardsInvariant, NEW x \in Subgraphs, NEW s \in Subgraphs
    PROVE  LET q == SignalUpdated(rewards, ledger, curationLedger, x)
           IN  /\ TakenUp(q, s)
               /\ s = x => /\ q.subgraphs[s].accRewardsPerSignalSnapshot = Earned
                           /\ q.subgraphs[s].accRewardsForSubgraph = Accrued(s)
<1>. DEFINE now == Checkpointed(rewards, ledger, curationLedger)
            acc == now.accRewardsPerSignal
            sum == AccRewardsForSubgraph(now, ledger, curationLedger, x)
            q == [now EXCEPT !.subgraphs[x].accRewardsForSubgraph = sum,
                             !.subgraphs[x].accRewardsPerSignalSnapshot = acc]
<1>1. SignalUpdated(rewards, ledger, curationLedger, x) = q
  BY DEF SignalUpdated
<1>2. /\ now.accRewardsPerSignalLastBlockUpdated = block
      /\ acc = Earned /\ now.subgraphs = rewards.subgraphs
  BY NowIs DEF Checkpointed, Earned, RewardsState
<1>3. now \in RewardsState
  BY NowIs, CheckpointKeeps DEF RewardsInvariant, RewardsSound
<1>4. sum = Accrued(x)
  <2>. DEFINE p == TotalSupply(ledger, curationLedger)
              t == SignalledTokens(curationLedger)
              k == curationLedger.pools[x].tokens
  <2>1. sum = ShareAt(now, x, PerSignalAt(block, now, p, t), k)
    BY AtThisBlock DEF AccruedAt
  <2>2. PerSignalAt(block, now, p, t) = acc + 0
    BY <1>2 DEF PerSignalAt, NewPerSignalAt
  <2>3. Earned \in Nat
    BY EarnedIs
  <2>4. Accrued(x) = ShareAt(rewards, x, Earned, k)
    BY AccruedNow, AtThisBlock DEF AccruedAt, Earned
  <2>. HIDE DEF sum, acc, now, p, t, k
  <2>5. sum = ShareAt(now, x, Earned, k)
    BY <1>2, <2>1, <2>2, <2>3
  <2>. QED
    BY <1>2, <2>4, <2>5 DEF ShareAt
<1>. HIDE DEF now, sum
<1>5. /\ q.accRewardsPerSignal = acc
      /\ q.accRewardsPerSignalLastBlockUpdated = now.accRewardsPerSignalLastBlockUpdated
      /\ \A y \in Subgraphs \ {x} : q.subgraphs[y] = now.subgraphs[y]
      /\ q.subgraphs[x].accRewardsPerSignalSnapshot = acc
      /\ q.subgraphs[x].accRewardsForSubgraph = sum
  BY <1>3 DEF RewardsState, SubgraphRewards
<1>. HIDE DEF q, acc
<1>6. s = x => /\ q.subgraphs[s].accRewardsPerSignalSnapshot = Earned
               /\ q.subgraphs[s].accRewardsForSubgraph = Accrued(s)
  BY <1>2, <1>4, <1>5
<1>7. TakenUp(q, s)
  BY <1>2, <1>5, <1>6 DEF TakenUp
<1>. QED
  BY <1>1, <1>6, <1>7

LEMMA LeftTransitive ==
    ASSUME NEW r, NEW q, NEW u, SignalLeft(r, q), SignalLeft(q, u)
    PROVE  SignalLeft(r, u)
BY DEF SignalLeft

\* What a hook of the staking contract writes for the deployment s.
HookedOn(r, q, l, s) ==
    /\ SignalLeft(r, q)
    /\ q.subgraphs[s].accRewardsForSubgraphSnapshot
          = AccRewardsForSubgraph(r, l, curationLedger, s)
    /\ \A x \in Subgraphs \ {s} : q.subgraphs[x].accRewardsForSubgraphSnapshot
                                     = r.subgraphs[x].accRewardsForSubgraphSnapshot

LEMMA UpdateHooks ==
    ASSUME NEW r \in RewardsState, NEW l, NEW s \in Subgraphs
    PROVE  HookedOn(r, AllocationUpdated(r, l, curationLedger, s), l, s)
<1>. DEFINE q == AllocationUpdated(r, l, curationLedger, s)
<1>1. /\ q.issuanceRate = r.issuanceRate
      /\ q.accRewardsPerSignal = r.accRewardsPerSignal
      /\ q.accRewardsPerSignalLastBlockUpdated = r.accRewardsPerSignalLastBlockUpdated
      /\ \A x \in Subgraphs \ {s} : q.subgraphs[x] = r.subgraphs[x]
      /\ q.subgraphs[s].accRewardsForSubgraph = r.subgraphs[s].accRewardsForSubgraph
      /\ q.subgraphs[s].accRewardsPerSignalSnapshot
            = r.subgraphs[s].accRewardsPerSignalSnapshot
      /\ q.subgraphs[s].accRewardsForSubgraphSnapshot
            = AccRewardsForSubgraph(r, l, curationLedger, s)
  BY UpdatedIs
<1>. HIDE DEF q
<1>2. SignalLeft(r, q)
  BY <1>1 DEF SignalLeft
<1>3. HookedOn(r, q, l, s)
  BY <1>1, <1>2 DEF HookedOn
<1>. QED
  BY <1>3 DEF q

\* It is the same when the value an allocation is opened at is written too.
LEMMA OpenHooks ==
    ASSUME NEW r, RewardsSound(r), block \in Nat, NEW l, Good(l), AllocationsBooked(l),
           curationLedger \in CurationDraft, Settled(curationLedger), NEW s \in Subgraphs,
           CanOpen(r, l, s), \A x \in Subgraphs : Funded(r, l, x), NEW id \in AllocationIDs
    PROVE  HookedOn(r, Opened(r, l, s, id), l, s)
<1>. DEFINE u   == AllocationUpdated(r, l, curationLedger, s)
            acc == u.subgraphs[s].accRewardsPerAllocatedToken
            q   == [u EXCEPT !.atOpening[id] = acc]
<1>1. Opened(r, l, s, id) = q
  BY DEF Opened
<1>2. RewardsSound(u)
  BY UpdateKeeps DEF CanOpen
<1>3. HookedOn(r, u, l, s)
  BY UpdateHooks DEF RewardsSound
<1>. HIDE DEF u
<1>4. u \in RewardsState /\ acc \in Nat
  BY <1>2, RewardsAreTyped DEF RewardsSound, RewardsTyping
<1>. HIDE DEF acc
<1>5. /\ q.subgraphs = u.subgraphs
      /\ q.issuanceRate = u.issuanceRate
      /\ q.accRewardsPerSignal = u.accRewardsPerSignal
      /\ q.accRewardsPerSignalLastBlockUpdated = u.accRewardsPerSignalLastBlockUpdated
  BY <1>4, WriteIs
<1>. HIDE DEF q
<1>. QED
  BY <1>1, <1>3, <1>5 DEF HookedOn, SignalLeft

\* Or what a deployment paid.
LEMMA TakeHooks ==
    ASSUME NEW r, RewardsSound(r), block \in Nat, NEW l, Good(l), AllocationsBooked(l),
           Deployed(l), curationLedger \in CurationDraft, Settled(curationLedger),
           NEW sender, NEW id \in AllocationIDs, NEW poi,
           CanClose(l, sender, id), CanTake(r, l, sender, id, poi),
           \A x \in Subgraphs : Funded(r, l, x)
    PROVE  /\ DeploymentOf(l, id) \in Subgraphs
           /\ RewardsTaken(r, l, sender, id, poi) \in Nat
           /\ HookedOn(r, Taken(r, l, sender, id, poi), l, DeploymentOf(l, id))
<1>. DEFINE s    == DeploymentOf(l, id)
            u    == AllocationUpdated(r, l, curationLedger, s)
            paid == RewardsTaken(r, l, sender, id, poi)
            total == u.assigned[s] + paid
            q    == [u EXCEPT !.assigned[s] = total]
<1>1. Taken(r, l, sender, id, poi) = q
  BY DEF Taken
<1>2. IsActive(l.allocations[id]) /\ s \in Subgraphs
  BY DEF CanClose, StateOf, AllocationState, IsActive, Deployed
<1>3. RewardsSound(u) /\ paid \in Nat
  BY <1>2, TakenIs
<1>4. HookedOn(r, u, l, s)
  BY <1>2, UpdateHooks DEF RewardsSound
<1>. HIDE DEF u, paid
<1>5. u \in RewardsState /\ u.assigned[s] \in Nat
  BY <1>2, <1>3, RewardsAreTyped DEF RewardsSound, RewardsTyping
<1>6. total \in Nat
  BY <1>3, <1>5
<1>. HIDE DEF total, s
<1>7. /\ q.subgraphs = u.subgraphs
      /\ q.issuanceRate = u.issuanceRate
      /\ q.accRewardsPerSignal = u.accRewardsPerSignal
      /\ q.accRewardsPerSignalLastBlockUpdated = u.accRewardsPerSignalLastBlockUpdated
  BY <1>2, <1>5, <1>6, WriteIs
<1>. HIDE DEF q
<1>8. HookedOn(r, q, l, s)
  BY <1>4, <1>7 DEF HookedOn, SignalLeft
<1>. QED
  BY <1>1, <1>2, <1>3, <1>8 DEF s, paid

-----------------------------------------------------------------------------
(* Nothing accrues within a block *)

\* Named, so that it can be shown of each operation.
NothingAccrues == \A s \in Subgraphs : Accrued(s)' = Accrued(s) \/ Repriced(s)

\* The curation contract is not called, and its hooks write nothing.
LEMMA NothingSignalled ==
    ASSUME RewardsInvariant, block' = block, SignalLeft(rewards, rewards'),
           curationLedger' = curationLedger
    PROVE  NothingAccrues
<1>. SUFFICES ASSUME NEW s \in Subgraphs, ~Repriced(s)
              PROVE  Accrued(s)' = Accrued(s)
  BY DEF NothingAccrues
<1>1. curationLedger.pools[s].tokens \in Int
  BY NumbersNow
<1>. QED
  BY <1>1, AccrualLeft

LEMMA SameSignalLeft ==
    ASSUME NEW r
    PROVE  SignalLeft(r, r)
BY DEF SignalLeft

LEMMA UnrewardedAccrual ==
    ASSUME RewardsInvariant, UnrewardedSteps, block' = block
    PROVE  NothingAccrues
<1>1. rewards' = rewards /\ curationLedger' = curationLedger
  BY DEF UnrewardedSteps, curationVars, rewardsVars
<1>2. SignalLeft(rewards, rewards')
  BY <1>1, SameSignalLeft
<1>. QED
  BY <1>1, <1>2, NothingSignalled

-----------------------------------------------------------------------------
(* The supply grows by what is minted *)

\* The GRT of everyone that the staking ledger knows.
Balances(l)    == SumFunctionOnSet(l.grt, Holders)
HasBalances(l) == IsLedger(l) /\ l.grt \in [Holders -> Int]
SameBalances(l, m) == IsLedger(m) /\ m.grt = l.grt

LEMMA GoodBalances ==
    ASSUME NEW l, Good(l)
    PROVE  HasBalances(l)
BY TypedIsLedger DEF Good, HasBalances, OpenLedger

LEMMA StakedBalances ==
    ASSUME NEW l, HasBalances(l), NEW i, NEW tokens
    PROVE  SameBalances(l, Staked(l, i, tokens))
BY DEF HasBalances, SameBalances, Staked, IsLedger, Parts

LEMMA PartBalances ==
    ASSUME NEW l, IsLedger(l)
    PROVE  /\ \A i, x : SameBalances(l, [l EXCEPT !.stakes[i] = x])
           /\ \A i, x : SameBalances(l, [l EXCEPT !.delegationPools[i] = x])
           /\ \A i, x : SameBalances(l, [l EXCEPT !.allocations[i] = x])
           /\ \A i, x : SameBalances(l, [l EXCEPT !.rebates[i] = x])
           /\ \A i, x : SameBalances(l, [l EXCEPT !.subgraphAllocations[i] = x])
BY DEF SameBalances, IsLedger, Parts

LEMMA MintedBalances ==
    ASSUME NEW l, HasBalances(l), NEW tokens \in Int
    PROVE  /\ HasBalances(Minted(l, tokens))
           /\ Balances(Minted(l, tokens)) = Balances(l) + tokens
           /\ Minted(l, tokens).delegationPools = l.delegationPools
           /\ Minted(l, tokens).stakes = l.stakes
<1>. DEFINE m == Minted(l, tokens)
<1>1. StakingAddress \in Holders
  BY DEF Holders
<1>2. /\ IsLedger(m) /\ m.grt = [l.grt EXCEPT ![StakingAddress] = @ + tokens]
      /\ m.delegationPools = l.delegationPools /\ m.stakes = l.stakes
  BY DEF HasBalances, Minted, IsLedger, Parts
<1>. HIDE DEF m
<1>3. HasBalances(m)
  BY <1>1, <1>2 DEF HasBalances
<1>4. /\ \A h \in Holders : l.grt[h] \in Int /\ m.grt[h] \in Int
      /\ \A h \in Holders \ {StakingAddress} : m.grt[h] = l.grt[h]
      /\ m.grt[StakingAddress] = l.grt[StakingAddress] + tokens
  BY <1>1, <1>2, <1>3 DEF HasBalances
<1>. DEFINE f == l.grt
            g == m.grt
<1>5. SumFunctionOnSet(g, Holders)
         = SumFunctionOnSet(f, Holders) + (g[StakingAddress] - f[StakingAddress])
  <2>1. /\ IsFiniteSet(Holders) /\ StakingAddress \in Holders
        /\ \A h \in Holders : f[h] \in Int /\ g[h] \in Int
        /\ \A h \in Holders \ {StakingAddress} : g[h] = f[h]
    BY <1>1, <1>4, SupplyFinite
  <2>. HIDE DEF f, g
  <2>. QED
    BY <2>1, SumAfterUpdate
<1>6. Balances(l) \in Int /\ l.grt[StakingAddress] \in Int
  BY <1>1, <1>4, SupplyFinite, SumIsInt DEF Balances
<1>. QED
  BY <1>2, <1>3, <1>4, <1>5, <1>6 DEF m, Balances

LEMMA PushBalances ==
    ASSUME NEW l, HasBalances(l), NEW to \in Accounts, NEW tokens \in Int
    PROVE  HasBalances(Push(l, to, tokens)) /\ Balances(Push(l, to, tokens)) = Balances(l)
<1>. DEFINE m == Push(l, to, tokens)
            d == [l.grt EXCEPT ![StakingAddress] = @ - tokens]
            g == [d EXCEPT ![to] = @ + tokens]
<1>1. StakingAddress \in Holders /\ to \in Holders /\ to # StakingAddress
  BY AddressAssumption DEF Holders
<1>2. IsLedger(m) /\ m.grt = g
  BY DEF HasBalances, Push, Transfer, IsLedger, Parts
<1>. HIDE DEF m
<1>3. l.grt \in [Holders -> Int]
  BY DEF HasBalances
<1>4. /\ \A h \in Holders : l.grt[h] \in Int /\ d[h] \in Int /\ g[h] \in Int
      /\ \A h \in Holders \ {StakingAddress} : d[h] = l.grt[h]
      /\ \A h \in Holders \ {to} : g[h] = d[h]
      /\ d[StakingAddress] = l.grt[StakingAddress] - tokens
      /\ g[to] = d[to] + tokens
      /\ g \in [Holders -> Int]
  BY <1>1, <1>3
<1>. HIDE DEF d, g
<1>5. /\ SumFunctionOnSet(d, Holders)
            = SumFunctionOnSet(l.grt, Holders) + (d[StakingAddress] - l.grt[StakingAddress])
      /\ SumFunctionOnSet(g, Holders) = SumFunctionOnSet(d, Holders) + (g[to] - d[to])
      /\ SumFunctionOnSet(l.grt, Holders) \in Int
  <2>. DEFINE f == l.grt
  <2>1. /\ IsFiniteSet(Holders) /\ StakingAddress \in Holders /\ to \in Holders
        /\ \A h \in Holders : f[h] \in Int /\ d[h] \in Int /\ g[h] \in Int
        /\ \A h \in Holders \ {StakingAddress} : d[h] = f[h]
        /\ \A h \in Holders \ {to} : g[h] = d[h]
    BY <1>1, <1>4, SupplyFinite
  <2>. HIDE DEF f
  <2>2. SumFunctionOnSet(d, Holders)
           = SumFunctionOnSet(f, Holders) + (d[StakingAddress] - f[StakingAddress])
    BY <2>1, SumAfterUpdate
  <2>3. SumFunctionOnSet(g, Holders) = SumFunctionOnSet(d, Holders) + (g[to] - d[to])
    BY <2>1, SumAfterUpdate
  <2>4. SumFunctionOnSet(f, Holders) \in Int
    BY <2>1, SumIsInt
  <2>. QED
    BY <2>2, <2>3, <2>4 DEF f
<1>6. l.grt[StakingAddress] \in Int /\ d[to] \in Int
  BY <1>1, <1>4
<1>7. SumFunctionOnSet(g, Holders) = SumFunctionOnSet(l.grt, Holders)
  BY <1>4, <1>5, <1>6
<1>. QED
  BY <1>2, <1>4, <1>7 DEF m, HasBalances, Balances

\* What is distributed of a reward stays among the holders.
LEMMA SplitBalances ==
    ASSUME Context, NEW l, HasBalances(l), NEW i \in Indexers,
           l.delegationPools[i] \in DelegationPool,
           NEW cut \in 0 .. MAX_PPM, NEW tokens \in Nat, NEW restake
    PROVE  /\ HasBalances(RewardsSplit(l, i, cut, tokens, restake))
           /\ Balances(RewardsSplit(l, i, cut, tokens, restake)) = Balances(l)
<1>. DEFINE pool == l.delegationPools[i]
            part == DelegationRewards(pool, cut, tokens)
            p == PoolReward(pool, part)
            n == [l EXCEPT !.delegationPools[i] = p]
            m == RewardsSent(n, tokens - part, i, restake)
            to == IF rewardsDestination[i] = NoAddress THEN i ELSE rewardsDestination[i]
            rest == tokens - part
<1>1. RewardsSplit(l, i, cut, tokens, restake) = m
  BY DEF RewardsSplit
<1>2. rest \in Int
  <2>1. part \in 0 .. tokens
    BY DelegationRewardsBounds
  <2>. QED
    BY <2>1
<1>3. to \in Accounts
  BY AddressAssumption, InputAssumption DEF Context
<1>. HIDE DEF rest
<1>4. SameBalances(l, n)
  <2>. HIDE DEF p
  <2>. QED
    BY PartBalances DEF HasBalances
<1>. HIDE DEF n
<1>5. HasBalances(n) /\ Balances(n) = Balances(l)
  BY <1>4 DEF HasBalances, SameBalances, Balances
<1>6. \/ m = n
      \/ m = Staked(n, i, rest)
      \/ m = Push(n, to, rest)
  BY DEF RewardsSent, rest
<1>. HIDE DEF m, to
<1>7. CASE m = n
  BY <1>1, <1>5, <1>7
<1>8. CASE m = Staked(n, i, rest)
  <2>1. SameBalances(n, m)
    BY <1>5, <1>8, StakedBalances
  <2>. QED
    BY <1>1, <1>5, <2>1 DEF HasBalances, SameBalances, Balances
<1>9. CASE m = Push(n, to, rest)
  BY <1>1, <1>2, <1>3, <1>5, <1>9, PushBalances
<1>. QED
  BY <1>6, <1>7, <1>8, <1>9

\* A close adds its rewards to the supply, and nothing else.
LEMMA ClosedBalances ==
    ASSUME Context, NEW l, Good(l), NEW sender, NEW id \in AllocationIDs,
           CanClose(l, sender, id), NEW rewarded \in Nat
    PROVE  Balances(Closed(l, id, rewarded)) = Balances(l) + rewarded
<1>. DEFINE alloc == l.allocations[id]
            i == alloc.indexer
            s == alloc.subgraphDeploymentID
            epochs == DiffOrZero(epoch, alloc.createdAtEpoch)
            effective == EffectiveAllocation(alloc.tokens, epochs)
            a == [alloc EXCEPT !.closedAtEpoch = epoch, !.effectiveAllocation = effective]
            p == AddToPool(IF PoolExists(l.rebates[epoch]) THEN l.rebates[epoch]
                           ELSE InitPool(l.rebates[epoch], params["alphaNumerator"],
                                                           params["alphaDenominator"]),
                           alloc.collectedFees, effective)
            cut == l.delegationPools[i].indexingRewardCut
            n == [l EXCEPT !.allocations[id] = a]
            o == [n EXCEPT !.rebates[epoch] = p]
            q == Minted(o, rewarded)
            r == RewardsSplit(q, i, cut, rewarded, rewardsDestination[i] = NoAddress)
            t == StakeUnallocate(r.stakes[i], alloc.tokens)
            u == [r EXCEPT !.stakes[i] = t]
            c == u.subgraphAllocations[s] - alloc.tokens
            m == [u EXCEPT !.subgraphAllocations[s] = c]
<1>. HIDE DEF effective, epochs
<1>1. Closed(l, id, rewarded) = m
  <2>1. n.rebates = l.rebates
    BY DEF Good, OpenLedger
  <2>2. o = [l EXCEPT !.allocations[id] = a, !.rebates[epoch] = p]
    BY <2>1
  <2>3. o = [l EXCEPT
               !.allocations[id] = [@ EXCEPT !.closedAtEpoch = epoch,
                                             !.effectiveAllocation = effective],
               !.rebates[epoch] =
                   AddToPool(IF PoolExists(@) THEN @
                             ELSE InitPool(@, params["alphaNumerator"],
                                              params["alphaDenominator"]),
                             alloc.collectedFees, effective)]
    BY <2>2
  <2>4. m = [r EXCEPT
               !.stakes[i] = StakeUnallocate(@, alloc.tokens),
               !.subgraphAllocations[s] = @ - alloc.tokens]
    OBVIOUS
  <2>. HIDE DEF m, a, p
  <2>. QED
    BY <2>3, <2>4, ZenonT(30) DEF Closed, effective, epochs
<1>2. i \in Indexers
  BY DEF CanClose, StateOf, AllocationState, Good, OpenLedger, Allocation
<1>3. /\ HasBalances(l) /\ l.delegationPools[i] \in DelegationPool
      /\ cut \in 0 .. MAX_PPM
  BY <1>2, GoodBalances DEF Good, OpenLedger, DelegationPool
<1>. HIDE DEF a, p, cut
<1>4. SameBalances(l, n) /\ n.delegationPools = l.delegationPools
  BY <1>3, PartBalances DEF HasBalances, IsLedger, Parts
<1>. HIDE DEF n
<1>5. SameBalances(n, o) /\ o.delegationPools = n.delegationPools
  BY <1>4, PartBalances DEF SameBalances, IsLedger, Parts
<1>. HIDE DEF o
<1>6. HasBalances(o) /\ Balances(o) = Balances(l) /\ o.delegationPools = l.delegationPools
  BY <1>3, <1>4, <1>5 DEF HasBalances, SameBalances, Balances
<1>7. /\ HasBalances(q) /\ Balances(q) = Balances(o) + rewarded
      /\ q.delegationPools = l.delegationPools
  BY <1>6, MintedBalances
<1>. HIDE DEF q
<1>8. HasBalances(r) /\ Balances(r) = Balances(q)
  BY <1>2, <1>3, <1>7, SplitBalances
<1>. HIDE DEF r, t
<1>9. SameBalances(r, u)
  BY <1>8, PartBalances DEF HasBalances
<1>. HIDE DEF u, c
<1>10. SameBalances(u, m)
  <2>1. IsLedger(u)
    BY <1>9 DEF SameBalances
  <2>. HIDE DEF s
  <2>. QED
    BY <2>1, PartBalances
<1>. HIDE DEF m
<1>11. Balances(m) = Balances(r)
  BY <1>9, <1>10 DEF SameBalances, Balances
<1>. QED
  BY <1>1, <1>6, <1>7, <1>8, <1>11

-----------------------------------------------------------------------------
(* What the hooks of the staking contract read *)

\* In q the deployment s was last brought up to date by the accumulators of r on a
\* supply that is not above the one with m.
Fresh(r, q, m, s) ==
    \E p \in Nat :
        /\ p <= TotalSupply(m, curationLedger)
        /\ q.subgraphs[s].accRewardsForSubgraphSnapshot
              = AccruedAt(block, r, p, SignalledTokens(curationLedger), s,
                          curationLedger.pools[s].tokens)

\* From r and l, hooks and moves of the staking contract lead to q and m.
Hooked(r, l, q, m) ==
    /\ SignalLeft(r, q)
    /\ TotalSupply(l, curationLedger) \in Nat
    /\ TotalSupply(m, curationLedger) \in Nat
    /\ TotalSupply(l, curationLedger) <= TotalSupply(m, curationLedger)
    /\ \A s \in Subgraphs :
          \/ q.subgraphs[s].accRewardsForSubgraphSnapshot
                = r.subgraphs[s].accRewardsForSubgraphSnapshot
          \/ Fresh(r, q, m, s)
    /\ \A id \in AllocationIDs : IsActive(m.allocations[id]) =>
          /\ DeploymentOf(m, id) \in Subgraphs
          /\ \/ IsActive(l.allocations[id]) /\ DeploymentOf(l, id) = DeploymentOf(m, id)
             \/ Fresh(r, q, m, DeploymentOf(m, id))

LEMMA FreshLater ==
    ASSUME NEW r, NEW q, NEW m, NEW u, NEW n, NEW s \in Subgraphs, Fresh(r, q, m, s),
           u.subgraphs[s].accRewardsForSubgraphSnapshot
              = q.subgraphs[s].accRewardsForSubgraphSnapshot,
           TotalSupply(m, curationLedger) \in Nat, TotalSupply(n, curationLedger) \in Nat,
           TotalSupply(m, curationLedger) <= TotalSupply(n, curationLedger)
    PROVE  Fresh(r, u, n, s)
<1>1. PICK p \in Nat : /\ p <= TotalSupply(m, curationLedger)
                       /\ q.subgraphs[s].accRewardsForSubgraphSnapshot
                            = AccruedAt(block, r, p, SignalledTokens(curationLedger), s,
                                        curationLedger.pools[s].tokens)
  BY DEF Fresh
<1>2. p <= TotalSupply(n, curationLedger)
  BY <1>1
<1>. QED
  BY <1>1, <1>2 DEF Fresh

LEMMA FreshEarlier ==
    ASSUME NEW r, NEW q, NEW u, NEW n, NEW s \in Subgraphs, Fresh(q, u, n, s), SignalLeft(r, q)
    PROVE  Fresh(r, u, n, s)
BY LeftAlike DEF Fresh

\* One call after another.
LEMMA HookedTransitive ==
    ASSUME NEW r, NEW l, NEW q, NEW m, NEW u, NEW n, Hooked(r, l, q, m), Hooked(q, m, u, n)
    PROVE  Hooked(r, l, u, n)
<1>1. /\ SignalLeft(r, u)
      /\ TotalSupply(l, curationLedger) \in Nat
      /\ TotalSupply(m, curationLedger) \in Nat
      /\ TotalSupply(n, curationLedger) \in Nat
      /\ TotalSupply(l, curationLedger) <= TotalSupply(m, curationLedger)
      /\ TotalSupply(m, curationLedger) <= TotalSupply(n, curationLedger)
      /\ SignalLeft(r, q)
  BY LeftTransitive DEF Hooked
<1>2. TotalSupply(l, curationLedger) <= TotalSupply(n, curationLedger)
  <2>. DEFINE x == TotalSupply(l, curationLedger)
              y == TotalSupply(m, curationLedger)
              z == TotalSupply(n, curationLedger)
  <2>1. x \in Nat /\ y \in Nat /\ z \in Nat /\ x <= y /\ y <= z
    BY <1>1
  <2>. HIDE DEF x, y, z
  <2>2. x <= z
    BY <2>1
  <2>. QED
    BY <2>2 DEF x, z
<1>3. \A s \in Subgraphs : Fresh(q, u, n, s) => Fresh(r, u, n, s)
  BY <1>1, FreshEarlier
<1>4. \A s \in Subgraphs :
         /\ Fresh(r, q, m, s)
         /\ u.subgraphs[s].accRewardsForSubgraphSnapshot
               = q.subgraphs[s].accRewardsForSubgraphSnapshot
         => Fresh(r, u, n, s)
  BY <1>1, FreshLater
<1>5. \A s \in Subgraphs :
         \/ u.subgraphs[s].accRewardsForSubgraphSnapshot
               = q.subgraphs[s].accRewardsForSubgraphSnapshot
         \/ Fresh(r, u, n, s)
  BY <1>3 DEF Hooked
<1>6. \A s \in Subgraphs :
         \/ u.subgraphs[s].accRewardsForSubgraphSnapshot
               = r.subgraphs[s].accRewardsForSubgraphSnapshot
         \/ Fresh(r, u, n, s)
  <2>1. \A s \in Subgraphs :
           \/ q.subgraphs[s].accRewardsForSubgraphSnapshot
                 = r.subgraphs[s].accRewardsForSubgraphSnapshot
           \/ Fresh(r, q, m, s)
    BY DEF Hooked
  <2>. QED
    BY <1>4, <1>5, <2>1
<1>7. ASSUME NEW id \in AllocationIDs, IsActive(n.allocations[id])
      PROVE  /\ DeploymentOf(n, id) \in Subgraphs
             /\ \/ IsActive(l.allocations[id]) /\ DeploymentOf(l, id) = DeploymentOf(n, id)
                \/ Fresh(r, u, n, DeploymentOf(n, id))
  <2>1. /\ DeploymentOf(n, id) \in Subgraphs
        /\ \/ IsActive(m.allocations[id]) /\ DeploymentOf(m, id) = DeploymentOf(n, id)
           \/ Fresh(q, u, n, DeploymentOf(n, id))
    BY <1>7 DEF Hooked
  <2>2. CASE Fresh(q, u, n, DeploymentOf(n, id))
    BY <1>3, <2>1, <2>2
  <2>3. CASE IsActive(m.allocations[id]) /\ DeploymentOf(m, id) = DeploymentOf(n, id)
    <3>1. \/ IsActive(l.allocations[id]) /\ DeploymentOf(l, id) = DeploymentOf(m, id)
          \/ Fresh(r, q, m, DeploymentOf(m, id))
      BY <2>3 DEF Hooked
    <3>. QED
      BY <1>4, <1>5, <2>1, <2>3, <3>1
  <2>. QED
    BY <2>1, <2>2, <2>3
<1>. QED
  BY <1>1, <1>2, <1>6, <1>7 DEF Hooked

\* A call that brings s up to date, and opens allocations on s alone.
LEMMA HookedCall ==
    ASSUME NEW r, NEW q, NEW l, NEW m, NEW s \in Subgraphs, HookedOn(r, q, l, s),
           TotalSupply(l, curationLedger) \in Nat, TotalSupply(m, curationLedger) \in Nat,
           TotalSupply(l, curationLedger) <= TotalSupply(m, curationLedger),
           \A id \in AllocationIDs : IsActive(m.allocations[id]) =>
              /\ DeploymentOf(m, id) \in Subgraphs
              /\ \/ IsActive(l.allocations[id]) /\ DeploymentOf(l, id) = DeploymentOf(m, id)
                 \/ DeploymentOf(m, id) = s
    PROVE  Hooked(r, l, q, m)
<1>1. q.subgraphs[s].accRewardsForSubgraphSnapshot
        = AccruedAt(block, r, TotalSupply(l, curationLedger), SignalledTokens(curationLedger),
                    s, curationLedger.pools[s].tokens)
  BY AtThisBlock DEF HookedOn
<1>2. Fresh(r, q, m, s)
  BY <1>1 DEF Fresh
<1>3. \A x \in Subgraphs :
         \/ q.subgraphs[x].accRewardsForSubgraphSnapshot
               = r.subgraphs[x].accRewardsForSubgraphSnapshot
         \/ Fresh(r, q, m, x)
  BY <1>2 DEF HookedOn
<1>4. SignalLeft(r, q)
  BY DEF HookedOn
<1>. QED
  BY <1>2, <1>3, <1>4 DEF Hooked

LEMMA SupplyOfBalances ==
    ASSUME NEW l, Good(l), NEW m, Good(m), curationLedger \in CurationDraft,
           TotalSupply(l, curationLedger) \in Nat, NEW more \in Nat,
           Balances(m) = Balances(l) + more
    PROVE  /\ TotalSupply(m, curationLedger) \in Nat
           /\ TotalSupply(l, curationLedger) <= TotalSupply(m, curationLedger)
<1>. DEFINE k == SumFunctionOnSet(curationLedger.grt, CurationHolders)
            x == Balances(l)
            y == Balances(m)
<1>1. /\ TotalSupply(l, curationLedger) = x + k
      /\ TotalSupply(m, curationLedger) = y + k
  BY SupplyIs DEF Balances
<1>2. x \in Int /\ y \in Int
  BY GoodBalances, SupplyFinite, SumIsInt DEF HasBalances, Balances
<1>3. k \in Int
  BY SupplyFinite, SumIsInt DEF CurationDraft
<1>. HIDE DEF k, x, y
<1>4. y = x + more
  BY DEF x, y
<1>. QED
  BY <1>1, <1>2, <1>3, <1>4

LEMMA OpenHooked ==
    ASSUME NEW r, RewardsSound(r), block \in Nat, NEW l, Good(l), AllocationsBooked(l),
           Deployed(l), TotalSupply(l, curationLedger) \in Nat,
           curationLedger \in CurationDraft, Settled(curationLedger), NEW s \in Subgraphs,
           CanOpen(r, l, s), \A x \in Subgraphs : Funded(r, l, x),
           NEW m, Good(m), NEW i \in Indexers, NEW tokens, NEW id \in AllocationIDs,
           Opens(l, m, i, s, tokens, id), m.grt = l.grt
    PROVE  Hooked(r, l, Opened(r, l, s, id), m)
<1>. DEFINE q == Opened(r, l, s, id)
<1>1. HookedOn(r, q, l, s)
  BY OpenHooks
<1>. HIDE DEF q
<1>2. /\ TotalSupply(m, curationLedger) \in Nat
      /\ TotalSupply(l, curationLedger) <= TotalSupply(m, curationLedger)
  BY DEF TotalSupply
<1>3. l.allocations \in [AllocationIDs -> Allocation]
  BY DEF Good, OpenLedger
<1>4. \A y \in AllocationIDs : IsActive(m.allocations[y]) =>
         /\ DeploymentOf(m, y) \in Subgraphs
         /\ \/ IsActive(l.allocations[y]) /\ DeploymentOf(l, y) = DeploymentOf(m, y)
            \/ DeploymentOf(m, y) = s
  <2>. TAKE y \in AllocationIDs
  <2>1. CASE y = id
    BY <1>3, <2>1 DEF Opens, DeploymentOf
  <2>2. CASE y # id
    <3>1. m.allocations[y] = l.allocations[y]
      BY <1>3, <2>2 DEF Opens
    <3>. QED
      BY <3>1 DEF Deployed, DeploymentOf, IsActive
  <2>. QED
    BY <2>1, <2>2
<1>5. Hooked(r, l, q, m)
  BY <1>1, <1>2, <1>4, HookedCall
<1>. QED
  BY <1>5 DEF q

LEMMA CloseHooked ==
    ASSUME Context, NEW r, RewardsSound(r), block \in Nat, NEW l, Good(l), AllocationsBooked(l),
           Deployed(l), TotalSupply(l, curationLedger) \in Nat,
           curationLedger \in CurationDraft, Settled(curationLedger),
           NEW sender, NEW id \in AllocationIDs, NEW poi,
           CanClose(l, sender, id), CanTake(r, l, sender, id, poi),
           \A x \in Subgraphs : Funded(r, l, x)
    PROVE  Hooked(r, l, Taken(r, l, sender, id, poi),
                  Closed(l, id, RewardsTaken(r, l, sender, id, poi)))
<1>. DEFINE paid == RewardsTaken(r, l, sender, id, poi)
            m == Closed(l, id, paid)
            q == Taken(r, l, sender, id, poi)
            s == DeploymentOf(l, id)
<1>1. s \in Subgraphs /\ paid \in Nat /\ HookedOn(r, q, l, s)
  BY TakeHooks
<1>. HIDE DEF paid, q
<1>2. Good(m) /\ \E effective \in Nat \ {0} : Closes(l, m, id, effective)
  BY <1>1, ClosedGood
<1>3. Balances(m) = Balances(l) + paid
  BY <1>1, ClosedBalances
<1>. HIDE DEF m, s
<1>4. /\ TotalSupply(m, curationLedger) \in Nat
      /\ TotalSupply(l, curationLedger) <= TotalSupply(m, curationLedger)
  BY <1>1, <1>2, <1>3, SupplyOfBalances
<1>5. PICK effective : Closes(l, m, id, effective)
  BY <1>2
<1>6. l.allocations \in [AllocationIDs -> Allocation]
  BY DEF Good, OpenLedger
<1>7. epoch # 0
  <2>1. DiffOrZero(epoch, l.allocations[id].createdAtEpoch) > 0
    BY DEF CanClose
  <2>2. epoch \in Nat /\ l.allocations[id].createdAtEpoch \in Nat
    BY ClockAssumption DEF Good, OpenLedger, Allocation, Epochs, Context, ClockTypeOK
  <2>. QED
    BY <2>1, <2>2 DEF DiffOrZero
<1>8. \A y \in AllocationIDs : IsActive(m.allocations[y]) =>
         /\ DeploymentOf(m, y) \in Subgraphs
         /\ \/ IsActive(l.allocations[y]) /\ DeploymentOf(l, y) = DeploymentOf(m, y)
            \/ DeploymentOf(m, y) = s
  <2>. TAKE y \in AllocationIDs
  <2>1. CASE y = id
    <3>1. m.allocations[id].closedAtEpoch = epoch
      BY <1>5, <1>6 DEF Closes, Allocation
    <3>. QED
      BY <1>7, <2>1, <3>1 DEF IsActive
  <2>2. CASE y # id
    <3>1. m.allocations[y] = l.allocations[y]
      BY <1>5, <1>6, <2>2 DEF Closes
    <3>. QED
      BY <3>1 DEF Deployed, DeploymentOf, IsActive
  <2>. QED
    BY <2>1, <2>2
<1>9. Hooked(r, l, q, m)
  BY <1>1, <1>4, <1>8, HookedCall
<1>. QED
  BY <1>9 DEF q, m, paid

-----------------------------------------------------------------------------
(* The transactions of the staking contract *)

\* A step with hooks of the staking contract.
HookedStep == /\ Hooked(rewards, ledger, rewards', ledger')
              /\ UNCHANGED <<clock, curationVars>>

LEMMA AllocatedBalances ==
    ASSUME NEW l, Good(l), NEW i, NEW s, NEW tokens, NEW id
    PROVE  Allocated(l, i, s, tokens, id).grt = l.grt
BY DEF Allocated, Good, OpenLedger

\* What the lemmas of a call take of the first state.
LEMMA CallsNow ==
    ASSUME RewardsInvariant
    PROVE  /\ IInv /\ Context /\ Good(ledger) /\ AllocationsBooked(ledger) /\ Deployed(ledger)
           /\ block \in Nat /\ curationLedger \in CurationDraft /\ Settled(curationLedger)
           /\ RewardsSound(rewards) /\ \A x \in Subgraphs : Funded(rewards, ledger, x)
           /\ TotalSupply(ledger, curationLedger) \in Nat
BY NowIs, NumbersNow DEF RewardsInvariant

LEMMA AllocateHooked ==
    ASSUME RewardsInvariant, NEW sender, NEW i \in Indexers, NEW s \in Subgraphs,
           NEW tokens \in Nat, NEW id \in AllocationIDs,
           RewardedAllocate(sender, i, s, tokens, id)
    PROVE  HookedStep
<1>. DEFINE m == Allocated(ledger, i, s, tokens, id)
            q == Opened(rewards, ledger, s, id)
<1>1. /\ Context /\ Good(ledger) /\ AllocationsBooked(ledger) /\ Deployed(ledger)
      /\ block \in Nat /\ curationLedger \in CurationDraft /\ Settled(curationLedger)
      /\ RewardsSound(rewards) /\ \A x \in Subgraphs : Funded(rewards, ledger, x)
      /\ TotalSupply(ledger, curationLedger) \in Nat
  BY CallsNow
<1>2. /\ CanOpen(rewards, ledger, s) /\ rewards' = q /\ RewardsUnmoved
      /\ ledger' = m /\ UNCHANGED clock
  BY DEF RewardedAllocate, Allocate, Commit
<1>3. Good(m) /\ Opens(ledger, m, i, s, tokens, id) /\ m.grt = ledger.grt
  BY <1>1, AllocatedGood, AllocatedBalances
<1>. HIDE DEF m
<1>4. Hooked(rewards, ledger, q, m)
  BY <1>1, <1>2, <1>3, OpenHooked
<1>. QED
  BY <1>2, <1>4 DEF HookedStep, RewardsUnmoved

LEMMA RewardedCloseHooked ==
    ASSUME RewardsInvariant, NEW sender, NEW id \in AllocationIDs, NEW poi,
           RewardedClose(sender, id, poi)
    PROVE  HookedStep
<1>. DEFINE m == Closed(ledger, id, RewardsTaken(rewards, ledger, sender, id, poi))
            q == Taken(rewards, ledger, sender, id, poi)
<1>1. /\ Context /\ Good(ledger) /\ AllocationsBooked(ledger) /\ Deployed(ledger)
      /\ block \in Nat /\ curationLedger \in CurationDraft /\ Settled(curationLedger)
      /\ RewardsSound(rewards) /\ \A x \in Subgraphs : Funded(rewards, ledger, x)
      /\ TotalSupply(ledger, curationLedger) \in Nat
  BY CallsNow
<1>2. /\ CanClose(ledger, sender, id) /\ CanTake(rewards, ledger, sender, id, poi)
      /\ rewards' = q /\ RewardsUnmoved /\ ledger' = m /\ UNCHANGED clock
  BY DEF RewardedClose, Commit
<1>3. Hooked(rewards, ledger, q, m)
  BY <1>1, <1>2, CloseHooked
<1>. HIDE DEF m, q
<1>. QED
  BY <1>2, <1>3 DEF HookedStep, RewardsUnmoved

LEMMA RewardedCloseManyHooked ==
    ASSUME RewardsInvariant, NEW sender, NEW id1 \in AllocationIDs, NEW poi1,
           NEW id2 \in AllocationIDs, NEW poi2,
           RewardedCloseMany(sender, id1, poi1, id2, poi2)
    PROVE  HookedStep
<1>. DEFINE l == Closed(ledger, id1, RewardsTaken(rewards, ledger, sender, id1, poi1))
            r == Taken(rewards, ledger, sender, id1, poi1)
            m == Closed(l, id2, RewardsTaken(r, l, sender, id2, poi2))
            q == Taken(r, l, sender, id2, poi2)
<1>1. /\ Context /\ Good(ledger) /\ AllocationsBooked(ledger) /\ Deployed(ledger)
      /\ block \in Nat /\ curationLedger \in CurationDraft /\ Settled(curationLedger)
      /\ RewardsSound(rewards) /\ \A x \in Subgraphs : Funded(rewards, ledger, x)
      /\ TotalSupply(ledger, curationLedger) \in Nat
  BY CallsNow
<1>2. /\ CanClose(ledger, sender, id1) /\ CanTake(rewards, ledger, sender, id1, poi1)
      /\ CanClose(l, sender, id2) /\ CanTake(r, l, sender, id2, poi2)
      /\ rewards' = q /\ RewardsUnmoved /\ ledger' = m /\ UNCHANGED clock
  BY DEF RewardedCloseMany, Commit
<1>3. /\ AllocationCall(ledger, l) /\ AllocationsBooked(l) /\ Deployed(l)
      /\ RewardsSound(r) /\ \A x \in Subgraphs : Funded(r, l, x)
  BY <1>1, <1>2, CloseCall
<1>4. Hooked(rewards, ledger, r, l)
  BY <1>1, <1>2, CloseHooked
<1>. HIDE DEF l, r
<1>5. Good(l) /\ TotalSupply(l, curationLedger) \in Nat
  BY <1>3, <1>4 DEF AllocationCall, Hooked
<1>6. Hooked(r, l, q, m)
  BY <1>1, <1>2, <1>3, <1>5, CloseHooked
<1>. HIDE DEF m, q
<1>7. Hooked(rewards, ledger, q, m)
  BY <1>4, <1>6, HookedTransitive
<1>. QED
  BY <1>2, <1>7 DEF HookedStep, RewardsUnmoved

LEMMA CloseAndAllocateHooked ==
    ASSUME RewardsInvariant, NEW sender, NEW closing \in AllocationIDs, NEW poi,
           NEW i \in Indexers, NEW s \in Subgraphs, NEW tokens \in Nat,
           NEW id \in AllocationIDs,
           RewardedCloseAndAllocate(sender, closing, poi, i, s, tokens, id)
    PROVE  HookedStep
<1>. DEFINE l == Closed(ledger, closing, RewardsTaken(rewards, ledger, sender, closing, poi))
            r == Taken(rewards, ledger, sender, closing, poi)
            m == Allocated(l, i, s, tokens, id)
            q == Opened(r, l, s, id)
<1>1. /\ Context /\ Good(ledger) /\ AllocationsBooked(ledger) /\ Deployed(ledger)
      /\ block \in Nat /\ curationLedger \in CurationDraft /\ Settled(curationLedger)
      /\ RewardsSound(rewards) /\ \A x \in Subgraphs : Funded(rewards, ledger, x)
      /\ TotalSupply(ledger, curationLedger) \in Nat
  BY CallsNow
<1>2. /\ CanClose(ledger, sender, closing) /\ CanTake(rewards, ledger, sender, closing, poi)
      /\ CanAllocate(l, sender, i, tokens, id) /\ CanOpen(r, l, s)
      /\ rewards' = q /\ RewardsUnmoved /\ ledger' = m /\ UNCHANGED clock
  BY DEF RewardedCloseAndAllocate, Commit
<1>3. /\ AllocationCall(ledger, l) /\ AllocationsBooked(l) /\ Deployed(l)
      /\ RewardsSound(r) /\ \A x \in Subgraphs : Funded(r, l, x)
  BY <1>1, <1>2, CloseCall
<1>4. Hooked(rewards, ledger, r, l)
  BY <1>1, <1>2, CloseHooked
<1>. HIDE DEF l, r
<1>5. Good(l) /\ TotalSupply(l, curationLedger) \in Nat
  BY <1>3, <1>4 DEF AllocationCall, Hooked
<1>6. Good(m) /\ Opens(l, m, i, s, tokens, id) /\ m.grt = l.grt
  BY <1>1, <1>5, AllocatedGood, AllocatedBalances
<1>. HIDE DEF m
<1>7. Hooked(r, l, q, m)
  BY <1>1, <1>2, <1>3, <1>5, <1>6, OpenHooked
<1>. HIDE DEF q
<1>8. Hooked(rewards, ledger, q, m)
  BY <1>4, <1>7, HookedTransitive
<1>. QED
  BY <1>2, <1>8 DEF HookedStep, RewardsUnmoved

\* onSubgraphAllocationUpdate is such a step too.
LEMMA AllocationUpdateHooked ==
    ASSUME RewardsInvariant, NEW s \in Subgraphs, OnSubgraphAllocationUpdate(s)
    PROVE  HookedStep
<1>. DEFINE q == AllocationUpdated(rewards, ledger, curationLedger, s)
<1>1. /\ Deployed(ledger) /\ RewardsSound(rewards)
      /\ TotalSupply(ledger, curationLedger) \in Nat
  BY CallsNow
<1>2. rewards' = q /\ UNCHANGED <<vars, curationVars>>
  BY DEF OnSubgraphAllocationUpdate, Update
<1>3. HookedOn(rewards, q, ledger, s)
  BY <1>1, UpdateHooks DEF RewardsSound
<1>. HIDE DEF q
<1>4. \A y \in AllocationIDs : IsActive(ledger.allocations[y]) =>
         DeploymentOf(ledger, y) \in Subgraphs
  BY <1>1 DEF Deployed, IsActive
<1>5. Hooked(rewards, ledger, q, ledger)
  BY <1>1, <1>3, <1>4, HookedCall
<1>6. ledger' = ledger /\ UNCHANGED clock
  BY <1>2 DEF vars
<1>. QED
  BY <1>2, <1>5, <1>6 DEF HookedStep

-----------------------------------------------------------------------------
(* Steps in which nothing accrues *)

\* A step in a block that opens and closes nothing.
QuietStep ==
    /\ block' = block
    /\ NothingAccrues
    /\ OpenStay(ledger, ledger')
    /\ \A s \in Subgraphs : rewards'.subgraphs[s].accRewardsForSubgraphSnapshot
                               = rewards.subgraphs[s].accRewardsForSubgraphSnapshot

\* Or a new block.
BlockStep == NextBlock /\ UNCHANGED <<curationVars, rewardsVars>>

\* The payer of fees is left with less.
LEMMA CollectMoves ==
    ASSUME IInv, NEW holder \in Accounts, NEW tokens \in Nat, NEW id \in AllocationIDs,
           NEW curated, Collect(holder, tokens, id, curated)
    PROVE  ledger' # ledger
<1>. DEFINE gone == ProtocolTax(tokens, id) + CurationFees(tokens, id, curated)
            fees == tokens - ProtocolTax(tokens, id) - CurationFees(tokens, id, curated)
            l == Pull(ledger, holder, tokens)
            n == Gone(l, gone)
            o == [n EXCEPT !.allocations[id].collectedFees = @ + fees]
<1>1. /\ IsLedger(ledger) /\ ledger.grt \in [Holders -> Int]
      /\ holder \in Holders /\ StakingAddress \in Holders /\ holder # StakingAddress
  BY TypedIsLedger, AddressAssumption DEF IInv, Good, OpenLedger, Holders
<1>2. IsLedger(l) /\ l.grt = [[ledger.grt EXCEPT ![holder] = @ - tokens]
                                 EXCEPT ![StakingAddress] = @ + tokens]
  BY <1>1 DEF IsLedger, Parts, Pull, Transfer
<1>. HIDE DEF l
<1>3. IsLedger(n) /\ n.grt = [l.grt EXCEPT ![StakingAddress] = @ - gone]
  BY <1>2 DEF IsLedger, Parts, Gone
<1>. HIDE DEF gone
<1>4. n.grt[holder] = ledger.grt[holder] - tokens
  BY <1>1, <1>2, <1>3
<1>5. /\ \/ ledger' = o
         \/ ledger' = [o EXCEPT !.rebates[ledger.allocations[id].closedAtEpoch].fees = @ + fees]
      /\ tokens > 0
  BY DEF Collect, Commit, gone, l
<1>. HIDE DEF n, fees
<1>6. IsLedger(o) /\ o.grt = n.grt
  BY <1>3 DEF IsLedger, Parts
<1>. HIDE DEF o
<1>7. ledger'.grt = n.grt
  BY <1>5, <1>6 DEF IsLedger, Parts
<1>8. ledger.grt[holder] \in Int
  BY <1>1
<1>. QED
  BY <1>4, <1>5, <1>7, <1>8

\* The curators' part of the fees enters one pool.
LEMMA CollectQuiet ==
    ASSUME RewardsInvariant, NEW holder \in Accounts, NEW tokens \in Nat,
           NEW id \in AllocationIDs, CuratedCollect(holder, tokens, id)
    PROVE  QuietStep
<1>. DEFINE s == DeploymentOf(ledger, id)
            fees == CurationFees(tokens, id, IsCurated(s))
            c == FeesCollected(s, fees)
<1>1. /\ IInv /\ Deployed(ledger) /\ CurationInvariant /\ DraftSound(curationLedger)
  BY NowIs DEF RewardsInvariant, CurationInvariant
<1>2. /\ StateOf(ledger, id) # "Null" /\ Collect(holder, tokens, id, IsCurated(s))
      /\ CommitCuration(IF fees > 0 THEN c ELSE curationLedger)
      /\ rewards' = rewards
  BY DEF CuratedCollect, rewardsVars
<1>3. s \in Subgraphs
  BY <1>1, <1>2 DEF StateOf, AllocationState, Deployed
<1>4. IsCurated(s) \in BOOLEAN
  BY DEF IsCurated
<1>5. OpenStay(ledger, ledger') /\ ledger' # ledger
  BY <1>1, <1>2, CollectStays, CollectMoves
<1>6. block' = block
  BY <1>2 DEF Collect, Commit, clock
<1>7. fees \in Nat /\ (fees > 0 => IsCurated(s))
  BY <1>1, <1>4, CurationFeesNat
<1>8. SignalLeft(rewards, rewards')
  BY <1>2, SameSignalLeft
<1>9. fees > 0 => SoundStep(curationLedger, c, s)
  BY <1>1, <1>3, <1>7, FeesSound
<1>10. /\ curationLedger \in CurationDraft
       /\ curationLedger' = IF fees > 0 THEN c ELSE curationLedger
  BY <1>1, <1>2 DEF CommitCuration, DraftSound
<1>11. c.pools[s].tokens = curationLedger.pools[s].tokens + fees
  BY <1>3, <1>10 DEF FeesCollected, CurationDraft, CurationPool
<1>. HIDE DEF c, fees, s
<1>12. NothingAccrues
  <2>1. CASE fees > 0
    <3>1. SUFFICES ASSUME NEW x \in Subgraphs, ~Repriced(x)
                   PROVE  Accrued(x)' = Accrued(x)
      BY DEF NothingAccrues
    <3>2. curationLedger' = c /\ c \in CurationDraft
      BY <1>9, <1>10, <2>1 DEF SoundStep
    <3>3. c.pools[x].tokens \in Int
      BY <3>2 DEF CurationDraft, CurationPool
    <3>4. \/ c.pools[x].tokens = curationLedger.pools[x].tokens
          \/ SignalledTokens(c) # SignalledTokens(curationLedger)
      <4>1. CASE x = s
        <5>1. /\ c.grt[CurationAddress] - curationLedger.grt[CurationAddress]
                    = c.pools[s].tokens - curationLedger.pools[s].tokens
          BY <1>9, <2>1 DEF SoundStep
        <5>2. /\ c.grt[CurationAddress] \in Int /\ curationLedger.grt[CurationAddress] \in Int
              /\ curationLedger.pools[s].tokens \in Int
          BY <1>3, <1>10, <3>2 DEF CurationDraft, CurationPool, CurationHolders
        <5>. QED
          BY <1>7, <1>11, <2>1, <5>1, <5>2 DEF SignalledTokens
      <4>2. CASE x # s
        BY <1>9, <2>1, <4>2 DEF SoundStep
      <4>. QED
        BY <4>1, <4>2
    <3>. QED
      BY <1>5, <1>6, <1>8, <3>1, <3>2, <3>3, <3>4, AccrualLeft
  <2>2. CASE ~(fees > 0)
    BY <1>6, <1>8, <1>10, <2>2, NothingSignalled
  <2>. QED
    BY <2>1, <2>2
<1>. QED
  BY <1>2, <1>5, <1>6, <1>12 DEF QuietStep

\* The steps of the staking contract without hooks.
LEMMA UnrewardedQuiet ==
    ASSUME RewardsInvariant, UnrewardedSteps
    PROVE  QuietStep \/ BlockStep
<1>1. CASE NextBlock
  BY <1>1 DEF UnrewardedSteps, BlockStep
<1>2. CASE ~NextBlock
  <2>1. IInv /\ block \in Nat
    BY NowIs
  <2>2. block' = block
    BY <1>2, <2>1, UnrewardedInBlock
  <2>3. OpenStay(ledger, ledger') /\ NothingAccrues /\ rewards' = rewards
    BY <2>1, <2>2, UnrewardedStays, UnrewardedAccrual DEF UnrewardedSteps, rewardsVars
  <2>. QED
    BY <2>2, <2>3 DEF QuietStep
<1>. QED
  BY <1>1, <1>2

\* A hook of the curation contract before the signal of a deployment changes.
LEMMA SignalTaken ==
    ASSUME RewardsInvariant, RewardsInvariant', UNCHANGED vars, NEW x \in Subgraphs,
           rewards' = SignalUpdated(rewards, ledger, curationLedger, x),
           \A s \in Subgraphs \ {x} :
              curationLedger'.pools[s].tokens = curationLedger.pools[s].tokens
    PROVE  QuietStep
<1>1. /\ RewardsSound(rewards) /\ block \in Blocks /\ Good(ledger) /\ ledger \in Ledger
      /\ curationLedger \in CurationDraft /\ Settled(curationLedger)
  BY NowIs DEF RewardsInvariant
<1>2. block' = block /\ ledger' = ledger
  BY DEF vars, clock
<1>3. LeavesFunds(rewards, rewards')
  BY <1>1, SignalKeeps
<1>4. curationLedger' \in CurationDraft
  BY DEF RewardsInvariant, CurationInvariant, DraftSound
<1>5. NothingAccrues
  <2>. SUFFICES ASSUME NEW s \in Subgraphs
                PROVE  Accrued(s)' = Accrued(s)
    BY DEF NothingAccrues
  <2>1. TakenUp(rewards', s) /\ WrittenOrLeft(rewards', s)
    BY SignalTakesUp DEF WrittenOrLeft
  <2>2. curationLedger'.pools[s].tokens \in Int
    BY <1>4 DEF CurationDraft, CurationPool
  <2>. QED
    BY <1>2, <2>1, <2>2, AccrualTaken
<1>. QED
  BY <1>2, <1>3, <1>5, SameOpenStay DEF QuietStep, LeavesFunds

\* Mint and burn move tokens in one pool.
LEMMA MintPools ==
    ASSUME RewardsInvariant, NEW curator \in Curators, NEW x \in Subgraphs,
           NEW t \in SignalDeposits, NEW m, Mint(curator, x, t, m)
    PROVE  \A s \in Subgraphs \ {x} : curationLedger'.pools[s] = curationLedger.pools[s]
<1>1. PICK out \in SignalsMinted(x, t) :
         curationLedger' = Signalled(curationLedger, curator, x, t, out)
  BY DEF Mint, CommitCuration
<1>2. /\ DraftSound(curationLedger) /\ curationParams \in CurationParams /\ t \in Nat
      /\ curationLedger \in CurationDraft
  BY NowIs, CurationAssumption DEF RewardsInvariant, CurationInvariant
<1>3. SoundStep(curationLedger, Signalled(curationLedger, curator, x, t, out), x)
  BY <1>2, MintSound
<1>. QED
  BY <1>1, <1>3 DEF SoundStep

LEMMA BurnPools ==
    ASSUME RewardsInvariant, NEW curator \in Curators, NEW x \in Subgraphs,
           NEW n \in SignalAmounts, NEW m, Burn(curator, x, n, m)
    PROVE  \A s \in Subgraphs \ {x} : curationLedger'.pools[s] = curationLedger.pools[s]
<1>1. PICK out \in TokensReturned(curator, x, n) :
         curationLedger' = Unsignalled(curator, x, n, out)
  BY DEF Burn, CommitCuration
<1>2. DraftSound(curationLedger) /\ n \in Nat
  BY CurationAssumption DEF RewardsInvariant, CurationInvariant
<1>3. SoundStep(curationLedger, Unsignalled(curator, x, n, out), x)
  BY <1>2, BurnSound
<1>. QED
  BY <1>1, <1>3 DEF SoundStep

\* A transfer of signal moves none, and neither does a parameter.
LEMMA TransferAccrual ==
    ASSUME RewardsInvariant, UNCHANGED <<vars, rewardsVars>>,
           curationLedger'.pools = curationLedger.pools, curationLedger'.grt = curationLedger.grt
    PROVE  QuietStep
<1>1. block' = block /\ ledger' = ledger /\ rewards' = rewards
  BY DEF vars, clock, rewardsVars
<1>2. SignalLeft(rewards, rewards')
  BY <1>1, SameSignalLeft
<1>3. NothingAccrues
  <2>. SUFFICES ASSUME NEW s \in Subgraphs, ~Repriced(s)
                PROVE  Accrued(s)' = Accrued(s)
    BY DEF NothingAccrues
  <2>1. curationLedger.pools[s].tokens \in Int
    BY NumbersNow
  <2>. QED
    BY <1>1, <1>2, <2>1, AccrualLeft
<1>. QED
  BY <1>1, <1>3, SameOpenStay DEF QuietStep

LEMMA SignalsQuiet ==
    ASSUME RewardsInvariant, RewardsInvariant', SignalSteps
    PROVE  QuietStep
<1>1. ASSUME NEW c \in Curators, NEW x \in Subgraphs, NEW m \in SlippageBounds,
             NEW t \in SignalDeposits, SignalMint(c, x, t, m)
      PROVE  QuietStep
  <2>1. Mint(c, x, t, m) /\ UNCHANGED vars
        /\ rewards' = SignalUpdated(rewards, ledger, curationLedger, x)
    BY <1>1 DEF SignalMint
  <2>. QED
    BY <2>1, MintPools, SignalTaken
<1>2. ASSUME NEW c \in Curators, NEW x \in Subgraphs, NEW m \in SlippageBounds,
             NEW n \in SignalAmounts, SignalBurn(c, x, n, m)
      PROVE  QuietStep
  <2>1. Burn(c, x, n, m) /\ UNCHANGED vars
        /\ rewards' = SignalUpdated(rewards, ledger, curationLedger, x)
    BY <1>2 DEF SignalBurn
  <2>. QED
    BY <2>1, BurnPools, SignalTaken
<1>3. ASSUME TransferSteps \/ SettingSteps, UNCHANGED <<vars, rewardsVars>>
      PROVE  QuietStep
  <2>1. /\ curationLedger'.pools = curationLedger.pools
        /\ curationLedger'.grt = curationLedger.grt
    <3>1. curationLedger \in CurationDraft
      BY NowIs
    <3>2. CASE TransferSteps
      BY <3>1, <3>2 DEF TransferSteps, TransferSignal, CommitCuration, CurationDraft
    <3>3. CASE SettingSteps
      BY <3>3 DEF SettingSteps, SetCurationParameter
    <3>. QED
      BY <1>3, <3>2, <3>3
  <2>. QED
    BY <1>3, <2>1, TransferAccrual
<1>. QED
  BY <1>1, <1>2, <1>3 DEF SignalSteps

LEMMA HooksQuiet ==
    ASSUME RewardsInvariant, RewardsInvariant', HookSteps \/ RewardsGovernorSteps
    PROVE  QuietStep \/ HookedStep
<1>1. CASE \E s \in Subgraphs : OnSubgraphAllocationUpdate(s)
  BY <1>1, AllocationUpdateHooked
<1>2. CASE ~\E s \in Subgraphs : OnSubgraphAllocationUpdate(s)
  <2>1. UNCHANGED vars /\ UNCHANGED curationVars
    BY DEF HookSteps, RewardsGovernorSteps, UpdateAccRewardsPerSignal, OnSubgraphSignalUpdate,
           OnSubgraphAllocationUpdate, SetIssuanceRate, SetSubgraphAvailabilityOracle,
           SetDenied, SetDeniedMany, Update
  <2>2. \/ rewards' = rewards
        \/ rewards' = Checkpointed(rewards, ledger, curationLedger)
        \/ \E s \in Subgraphs : rewards' = SignalUpdated(rewards, ledger, curationLedger, s)
        \/ \E rate \in IssuanceRates :
              /\ rate >= TokenDecimals
              /\ rewards' = [Checkpointed(rewards, ledger, curationLedger)
                                EXCEPT !.issuanceRate = rate]
    <3>1. CASE HookSteps
      BY <1>2, <3>1 DEF HookSteps, UpdateAccRewardsPerSignal, OnSubgraphSignalUpdate, Update
    <3>2. CASE RewardsGovernorSteps
      BY <3>2 DEF RewardsGovernorSteps, SetIssuanceRate, SetSubgraphAvailabilityOracle,
                  SetDenied, SetDeniedMany, Update
    <3>. QED
      BY <3>1, <3>2
  <2>3. curationLedger' = curationLedger /\ ledger' = ledger /\ block' = block
    BY <2>1 DEF curationVars, vars, clock
  <2>4. CASE rewards' = rewards
    <3>1. NothingAccrues
      BY <2>3, <2>4, SameSignalLeft, NothingSignalled
    <3>. QED
      BY <2>3, <2>4, <3>1, SameOpenStay DEF QuietStep
  <2>5. CASE \E s \in Subgraphs : rewards' = SignalUpdated(rewards, ledger, curationLedger, s)
    BY <2>1, <2>3, <2>5, SignalTaken
  <2>6. CASE \/ rewards' = Checkpointed(rewards, ledger, curationLedger)
             \/ \E rate \in IssuanceRates :
                   /\ rate >= TokenDecimals
                   /\ rewards' = [Checkpointed(rewards, ledger, curationLedger)
                                     EXCEPT !.issuanceRate = rate]
    <3>1. /\ RewardsSound(rewards) /\ block \in Blocks /\ Good(ledger) /\ ledger \in Ledger
          /\ curationLedger \in CurationDraft /\ Settled(curationLedger)
      BY NowIs DEF RewardsInvariant
    <3>2. IssuanceRates \subseteq Nat
      BY RewardsAssumption
    <3>3. LeavesFunds(rewards, rewards')
      BY <2>6, <3>1, <3>2, CheckpointKeeps
    <3>4. NothingAccrues
      <4>. SUFFICES ASSUME NEW s \in Subgraphs
                    PROVE  Accrued(s)' = Accrued(s)
        BY DEF NothingAccrues
      <4>1. TakenUp(rewards', s)
        BY <2>6, <3>2, CheckpointTakesUp
      <4>2. WrittenOrLeft(rewards', s)
        BY <2>3 DEF WrittenOrLeft
      <4>3. curationLedger'.pools[s].tokens \in Int
        BY <2>3, NumbersNow
      <4>. QED
        BY <2>3, <4>1, <4>2, <4>3, AccrualTaken
    <3>. QED
      BY <2>3, <3>3, <3>4, SameOpenStay DEF QuietStep, LeavesFunds
  <2>. QED
    BY <2>2, <2>4, <2>5, <2>6
<1>. QED
  BY <1>1, <1>2

LEMMA StutterQuiet ==
    ASSUME RewardsInvariant, UNCHANGED protocolVars
    PROVE  QuietStep
<1>1. UNCHANGED <<vars, rewardsVars>> /\ curationLedger' = curationLedger
  BY DEF protocolVars, curationVars
<1>. QED
  BY <1>1, TransferAccrual

\* Every step is a transaction with hooks of the staking contract, or opens and
\* closes nothing, or is a new block.
LEMMA EveryStep ==
    ASSUME RewardsInvariant, RewardsInvariant', [RewardsNext]_protocolVars
    PROVE  HookedStep \/ QuietStep \/ BlockStep
<1>1. CASE UnrewardedSteps
  BY <1>1, UnrewardedQuiet
<1>2. CASE RewardedSteps
  <2>1. AllocateAmounts \subseteq Nat /\ FeeAmounts \subseteq Nat
    BY InputAssumption
  <2>2. PICK sender \in Accounts, id \in AllocationIDs :
        \/ \E i \in Indexers, s \in Subgraphs, tokens \in AllocateAmounts :
               RewardedAllocate(sender, i, s, tokens, id)
        \/ \E poi \in BOOLEAN : RewardedClose(sender, id, poi)
        \/ \E poi1, poi2 \in BOOLEAN, id2 \in AllocationIDs :
               RewardedCloseMany(sender, id, poi1, id2, poi2)
        \/ \E poi \in BOOLEAN, i \in Indexers, s \in Subgraphs, tokens \in AllocateAmounts,
              id2 \in AllocationIDs : RewardedCloseAndAllocate(sender, id, poi, i, s, tokens, id2)
        \/ \E tokens \in FeeAmounts : CuratedCollect(sender, tokens, id)
    BY <1>2 DEF RewardedSteps
  <2>3. CASE \E i \in Indexers, s \in Subgraphs, tokens \in AllocateAmounts :
                RewardedAllocate(sender, i, s, tokens, id)
    BY <2>1, <2>3, AllocateHooked
  <2>4. CASE \E poi \in BOOLEAN : RewardedClose(sender, id, poi)
    BY <2>4, RewardedCloseHooked
  <2>5. CASE \E poi1, poi2 \in BOOLEAN, id2 \in AllocationIDs :
                RewardedCloseMany(sender, id, poi1, id2, poi2)
    BY <2>5, RewardedCloseManyHooked
  <2>6. CASE \E poi \in BOOLEAN, i \in Indexers, s \in Subgraphs, tokens \in AllocateAmounts,
               id2 \in AllocationIDs : RewardedCloseAndAllocate(sender, id, poi, i, s, tokens, id2)
    BY <2>1, <2>6, CloseAndAllocateHooked
  <2>7. CASE \E tokens \in FeeAmounts : CuratedCollect(sender, tokens, id)
    BY <2>1, <2>7, CollectQuiet
  <2>. QED
    BY <2>2, <2>3, <2>4, <2>5, <2>6, <2>7
<1>3. CASE SignalSteps
  BY <1>3, SignalsQuiet
<1>4. CASE HookSteps \/ RewardsGovernorSteps
  BY <1>4, HooksQuiet
<1>5. CASE UNCHANGED protocolVars
  BY <1>5, StutterQuiet
<1>. QED
  BY <1>1, <1>2, <1>3, <1>4, <1>5 DEF RewardsNext

LEMMA AccrualWaits ==
    ASSUME RewardsInvariant, RewardsInvariant', [RewardsNext]_protocolVars, block' = block
    PROVE  NothingAccrues
<1>1. CASE HookedStep
  <2>1. SignalLeft(rewards, rewards') /\ curationLedger' = curationLedger
    BY <1>1 DEF HookedStep, Hooked, curationVars
  <2>. QED
    BY <2>1, NothingSignalled
<1>2. CASE QuietStep
  BY <1>2 DEF QuietStep
<1>3. CASE BlockStep
  <2>1. block \in Nat
    BY NowIs
  <2>. QED
    BY <1>3, <2>1 DEF BlockStep, NextBlock, Tick
<1>. QED
  BY <1>1, <1>2, <1>3, EveryStep

\* Within a block no deployment gains or loses rewards, unless the staking contract
\* reprices it (RewardsManager.sol:135-260).
THEOREM AccrualTakesTime == RewardsSpec => AccrualNeedsTime
<1>1. RewardsInvariant /\ RewardsInvariant' /\ [RewardsNext]_protocolVars
         => [block' = block => \A s \in Subgraphs : Accrued(s)' = Accrued(s) \/ Repriced(s)
            ]_protocolVars
  BY AccrualWaits DEF NothingAccrues
<1>. QED
  BY <1>1, RewardsAreFunded, PTL DEF RewardsSpec, AccrualNeedsTime

-----------------------------------------------------------------------------
(* What a block gives *)

\* What is given in proportion to k adds up to what there is for all of k, and a
\* unit for each.
LEMMA SharesBounded ==
    ASSUME NEW S, IsFiniteSet(S), NEW u \in Nat \ {0}, NEW g \in Nat, NEW d, NEW k,
           \A x \in S : d[x] \in Int /\ k[x] \in Int /\ u * d[x] <= g * k[x] + u
    PROVE  /\ SumFunctionOnSet(d, S) \in Int /\ SumFunctionOnSet(k, S) \in Int
           /\ u * SumFunctionOnSet(d, S) <= g * SumFunctionOnSet(k, S) + u * Cardinality(S)
<1>. DEFINE zeros == [x \in S |-> 0]
            ones  == [x \in S |-> 1]
            given == [x \in S |-> zeros[x] + u * d[x]]
            units == [x \in S |-> zeros[x] + u * ones[x]]
            most  == [x \in S |-> units[x] + g * k[x]]
<1>1. \A x \in S : /\ d[x] \in Int /\ k[x] \in Int
                   /\ zeros[x] = 0 /\ ones[x] = 1
                   /\ given[x] = zeros[x] + u * d[x]
                   /\ units[x] = zeros[x] + u * ones[x]
                   /\ most[x] = units[x] + g * k[x]
  OBVIOUS
<1>2. \A x \in S : given[x] \in Int /\ most[x] \in Int /\ given[x] <= most[x]
  <2>. TAKE x \in S
  <2>. DEFINE e == d[x]
              h == k[x]
  <2>1. e \in Int /\ h \in Int /\ u * e <= g * h + u
    OBVIOUS
  <2>2. given[x] = 0 + u * e /\ most[x] = (0 + u * 1) + g * h
    BY <1>1
  <2>. HIDE DEF given, most, e, h
  <2>. QED
    BY <2>1, <2>2
<1>3. \A x \in S : units[x] \in Int
  BY <1>1
<1>. HIDE DEF zeros, ones, given, units, most
<1>4. /\ SumFunctionOnSet(d, S) \in Int /\ SumFunctionOnSet(k, S) \in Int
      /\ SumFunctionOnSet(ones, S) \in Int
  <2>1. /\ \A x \in S : d[x] \in Int
        /\ \A x \in S : k[x] \in Int
        /\ \A x \in S : ones[x] \in Int
    BY <1>1
  <2>. QED
    BY <2>1, SumIsInt
<1>5. SumFunctionOnSet(zeros, S) = 0
  BY <1>1, SumOfZeros
<1>6. SumFunctionOnSet(ones, S) <= Cardinality(S) /\ Cardinality(S) \in Nat
  <2>1. /\ S \in SUBSET S
        /\ \A x \in S : zeros[x] \in Int /\ ones[x] \in Int
        /\ \A x \in S : ones[x] <= zeros[x] + 1
        /\ \A x \in S \ S : ones[x] <= zeros[x]
    BY <1>1
  <2>2. SumFunctionOnSet(ones, S) <= SumFunctionOnSet(zeros, S) + Cardinality(S)
    BY <2>1, SumRaisedOnPart
  <2>3. Cardinality(S) \in Nat
    BY FS_CardinalityType
  <2>. QED
    BY <1>4, <1>5, <2>2, <2>3
<1>7. SumFunctionOnSet(given, S) = SumFunctionOnSet(zeros, S) + u * SumFunctionOnSet(d, S)
  <2>1. \A x \in S : zeros[x] \in Int /\ d[x] \in Int /\ given[x] = zeros[x] + u * d[x]
    BY <1>1
  <2>. QED
    BY <2>1, SumOfScaled
<1>8. SumFunctionOnSet(units, S) = SumFunctionOnSet(zeros, S) + u * SumFunctionOnSet(ones, S)
  <2>1. \A x \in S : zeros[x] \in Int /\ ones[x] \in Int /\ units[x] = zeros[x] + u * ones[x]
    BY <1>1
  <2>. QED
    BY <2>1, SumOfScaled
<1>9. SumFunctionOnSet(most, S) = SumFunctionOnSet(units, S) + g * SumFunctionOnSet(k, S)
  <2>1. \A x \in S : units[x] \in Int /\ k[x] \in Int /\ most[x] = units[x] + g * k[x]
    BY <1>1, <1>3
  <2>. QED
    BY <2>1, SumOfScaled
<1>10. SumFunctionOnSet(given, S) <= SumFunctionOnSet(most, S)
  BY <1>2, SumIsMonotonic
<1>11. u * SumFunctionOnSet(ones, S) <= u * Cardinality(S)
  BY <1>4, <1>6
<1>. QED
  BY <1>4, <1>5, <1>6, <1>7, <1>8, <1>9, <1>10, <1>11

\* The share of a deployment grows by no more than what its tokens earn, rounded up.
LEMMA ShareStep ==
    ASSUME NEW r, RewardsSound(r), NEW s \in Subgraphs, NEW x \in Int, NEW y \in Int,
           x <= y, NEW k \in Nat
    PROVE  /\ ShareAt(r, s, y, k) - ShareAt(r, s, x, k) \in Int
           /\ TokenDecimals * (ShareAt(r, s, y, k) - ShareAt(r, s, x, k))
                 <= (y - x) * k + TokenDecimals
<1>. DEFINE o == r.subgraphs[s].accRewardsPerSignalSnapshot
            a == r.subgraphs[s].accRewardsForSubgraph
            D == TokenDecimals
            p == (y - o) * k
            q == (x - o) * k
            v == p \div D
            w == q \div D
<1>1. o \in Nat /\ a \in Nat
  BY RewardsAreTyped DEF RewardsSound, RewardsTyping
<1>2. D \in Nat \ {0}
  BY UnitNat
<1>3. p \in Int /\ q \in Int /\ p - q = (y - x) * k
  <2>1. y - o \in Int /\ x - o \in Int /\ (y - o) - (x - o) = y - x
    BY <1>1
  <2>. DEFINE h == y - o
              i == x - o
  <2>2. h * k \in Int /\ i * k \in Int /\ h * k - i * k = (h - i) * k
    <3>1. h \in Int /\ i \in Int
      BY <2>1
    <3>. HIDE DEF h, i
    <3>. QED
      BY <3>1
  <2>. QED
    BY <2>1, <2>2
<1>4. ShareAt(r, s, y, k) = a + v /\ ShareAt(r, s, x, k) = a + w
  BY DEF ShareAt
<1>. HIDE DEF p, q, D
<1>5. v \in Int /\ w \in Int /\ v * D <= p /\ q < w * D + D
  BY <1>2, <1>3, IntDivBounds
<1>. HIDE DEF v, w, a, o
<1>6. ShareAt(r, s, y, k) - ShareAt(r, s, x, k) = v - w
  BY <1>1, <1>4, <1>5
<1>7. D * (v - w) = v * D - w * D
  BY <1>2, <1>5
<1>8. v * D - w * D <= (p - q) + D
  BY <1>2, <1>3, <1>5
<1>9. D * (v - w) <= (y - x) * k + D
  BY <1>3, <1>7, <1>8
<1>. QED
  BY <1>5, <1>6, <1>9 DEF D

\* All signalled tokens together earn no more than what is issued, but for a unit each.
LEMMA PerSignalStep ==
    ASSUME NEW r, RewardsSound(r), NEW b \in Nat, r.accRewardsPerSignalLastBlockUpdated <= b,
           NEW p \in Nat, NEW t \in Nat
    PROVE  LET g == PerSignalAt(b + 1, r, p, t) - PerSignalAt(b, r, p, t)
           IN  /\ g \in Nat
               /\ g * t <= (IssuedAt(b + 1, r, p) - IssuedAt(b, r, p)) * TokenDecimals + t
<1>. DEFINE i == IssuedAt(b, r, p)
            j == IssuedAt(b + 1, r, p)
            D == TokenDecimals
            m == NewPerSignalAt(b, r, p, t)
            n == NewPerSignalAt(b + 1, r, p, t)
            acc == r.accRewardsPerSignal
            last == r.accRewardsPerSignalLastBlockUpdated
<1>1. /\ r.issuanceRate \in Nat /\ r.issuanceRate >= D /\ last \in Nat /\ acc \in Nat
  BY RewardsAreTyped DEF RewardsSound, RewardsTyping
<1>2. i \in Nat /\ j \in Nat /\ i <= j /\ (b = last => i = 0)
  <2>1. b + 1 \in Nat /\ p <= p
    OBVIOUS
  <2>. QED
    BY <1>1, <2>1, IssuedGrows
<1>3. D \in Nat \ {0}
  BY UnitNat
<1>4. /\ m = IF b = last \/ r.issuanceRate <= D \/ t = 0 THEN 0 ELSE (i * D) \div t
      /\ n = IF b + 1 = last \/ r.issuanceRate <= D \/ t = 0 THEN 0 ELSE (j * D) \div t
  BY DEF NewPerSignalAt
<1>5. m \in Nat /\ n \in Nat /\ m <= n
  <2>1. b + 1 \in Nat /\ p <= p
    OBVIOUS
  <2>. QED
    BY <2>1, PerSignalGrows
<1>6. PerSignalAt(b + 1, r, p, t) = acc + n /\ PerSignalAt(b, r, p, t) = acc + m
  BY DEF PerSignalAt
<1>. HIDE DEF m, n, i, j, D, acc
<1>7. n * t - m * t <= (j - i) * D + t
  <2>1. i * D \in Nat /\ j * D \in Nat /\ (j - i) * D = j * D - i * D /\ i * D <= j * D
    BY <1>2, <1>3
  <2>2. CASE r.issuanceRate <= D \/ t = 0
    <3>1. n = 0 /\ m = 0
      BY <1>4, <2>2
    <3>. QED
      BY <2>1, <3>1
  <2>3. CASE ~(r.issuanceRate <= D \/ t = 0)
    <3>1. t \in Nat \ {0} /\ b + 1 # last
      BY <2>3
    <3>2. n = (j * D) \div t
      BY <1>4, <2>3, <3>1
    <3>3. n * t <= j * D
      BY <2>1, <3>1, <3>2, DivBounds
    <3>4. i * D - t <= m * t
      <4>1. CASE b = last
        <5>1. i * D = 0 /\ m = 0
          BY <1>2, <1>3, <1>4, <4>1
        <5>. QED
          BY <5>1
      <4>2. CASE b # last
        <5>1. m = (i * D) \div t
          BY <1>4, <2>3, <4>2
        <5>2. i * D < m * t + t
          BY <2>1, <3>1, <5>1, DivBounds
        <5>3. m * t \in Nat
          BY <1>5
        <5>. QED
          BY <2>1, <5>2, <5>3
      <4>. QED
        BY <4>1, <4>2
    <3>5. n * t \in Nat /\ m * t \in Nat
      BY <1>5
    <3>. QED
      BY <2>1, <3>3, <3>4, <3>5
  <2>. QED
    BY <2>2, <2>3
<1>8. (n - m) * t = n * t - m * t /\ n - m \in Nat
  BY <1>5
<1>9. PerSignalAt(b + 1, r, p, t) - PerSignalAt(b, r, p, t) = n - m
  BY <1>1, <1>5, <1>6
<1>. QED
  BY <1>7, <1>8, <1>9 DEF D, i, j

\* The inequality in tokens: what all deployments are given, of what is issued.
LEMMA CatchUpBound ==
    ASSUME NEW u \in Nat \ {0}, NEW given \in Int, NEW issued \in Int, NEW n \in Nat,
           NEW t \in Nat, u * given <= issued * u + t + u * n
    PROVE  given <= issued + (n + t \div u)
<1>. DEFINE q == t \div u
            x == given - issued - n
<1>1. q \in Nat /\ t < q * u + u
  BY DivBounds
<1>2. x \in Int /\ x * u = u * given - issued * u - u * n
  OBVIOUS
<1>. HIDE DEF q
<1>3. x * u <= t
  <2>1. u * given \in Int /\ issued * u \in Int /\ u * n \in Int
    OBVIOUS
  <2>. HIDE DEF x
  <2>. QED
    BY <1>2, <2>1
<1>. HIDE DEF x
<1>4. x * u < (q + 1) * u
  BY <1>1, <1>2, <1>3
<1>5. \A y, z \in Int : y * u < z * u => y < z
  OBVIOUS
<1>6. x < q + 1
  BY <1>1, <1>2, <1>4, <1>5
<1>7. x <= q
  BY <1>1, <1>2, <1>6
<1>. QED
  BY <1>1, <1>7 DEF x, q

LEMMA BlockIssues ==
    ASSUME RewardsInvariant, BlockStep
    PROVE  SumFunction([s \in Subgraphs |-> Accrued(s)' - Accrued(s)])
             <= Issued(rewards, ledger, curationLedger)' - Issued(rewards, ledger, curationLedger)
                + CaughtUp
<1>. DEFINE b == block
            r == rewards
            p == TotalSupply(ledger, curationLedger)
            t == SignalledTokens(curationLedger)
            k == [s \in Subgraphs |-> curationLedger.pools[s].tokens]
            d == [s \in Subgraphs |-> Accrued(s)' - Accrued(s)]
            x == PerSignalAt(b, r, p, t)
            y == PerSignalAt(b + 1, r, p, t)
            i == IssuedAt(b, r, p)
            j == IssuedAt(b + 1, r, p)
            g == y - x
            D == TokenDecimals
            n == Cardinality(Subgraphs)
            given == SumFunctionOnSet(d, Subgraphs)
<1>1. /\ RewardsSound(r) /\ p \in Nat /\ t \in Nat /\ b \in Nat
      /\ r.accRewardsPerSignalLastBlockUpdated <= b
      /\ r.accRewardsPerSignalLastBlockUpdated \in Nat
      /\ r.issuanceRate \in Nat /\ r.issuanceRate >= D
      /\ \A s \in Subgraphs : k[s] \in Nat
  BY NumbersNow
<1>2. /\ block' = b + 1 /\ rewards' = r /\ ledger' = ledger /\ curationLedger' = curationLedger
  BY DEF BlockStep, NextBlock, Tick, curationVars, rewardsVars
<1>3. Issued(rewards, ledger, curationLedger) = i
  BY AtThisBlock
<1>4. Issued(rewards, ledger, curationLedger)' = j
  <2>1. TotalSupply(ledger', curationLedger') = p
    BY <1>2
  <2>2. Issued(rewards, ledger, curationLedger)'
           = (TotalSupply(ledger', curationLedger')
                * Pow(rewards'.issuanceRate,
                      block' - rewards'.accRewardsPerSignalLastBlockUpdated))
                \div TokenDecimals - TotalSupply(ledger', curationLedger')
    BY DEF Issued, TotalSupply
  <2>. QED
    BY <1>2, <2>1, <2>2 DEF IssuedAt
<1>5. \A s \in Subgraphs : Accrued(s) = ShareAt(r, s, x, k[s])
  BY AccruedNow DEF AccruedAt
<1>6. \A s \in Subgraphs : Accrued(s)' = ShareAt(r, s, y, k[s])
  <2>. TAKE s \in Subgraphs
  <2>1. Accrued(s)' = AccruedAt(block', rewards', TotalSupply(ledger', curationLedger'),
                                SignalledTokens(curationLedger'), s,
                                curationLedger'.pools[s].tokens)
    BY AccruedThen
  <2>2. Accrued(s)' = AccruedAt(b + 1, r, p, t, s, k[s])
    <3>1. k[s] = curationLedger.pools[s].tokens
      OBVIOUS
    <3>. HIDE DEF k
    <3>. QED
      BY <1>2, <2>1, <3>1
  <2>. QED
    BY <2>2 DEF AccruedAt
<1>7. x \in Nat /\ y \in Nat /\ x <= y
  <2>1. b + 1 \in Nat /\ p <= p
    BY <1>1
  <2>. QED
    BY <1>1, <2>1, PerSignalGrows
<1>8. i \in Nat /\ j \in Nat
  <2>1. b + 1 \in Nat /\ p <= p
    BY <1>1
  <2>. QED
    BY <1>1, <2>1, IssuedGrows
<1>9. g \in Nat /\ g * t <= (j - i) * D + t
  BY <1>1, PerSignalStep
<1>10. D \in Nat \ {0} /\ n \in Nat /\ IsFiniteSet(Subgraphs)
  BY UnitNat, FiniteCurationAssumption, FS_CardinalityType
<1>. HIDE DEF x, y, i, j
<1>11. \A s \in Subgraphs : d[s] \in Int /\ k[s] \in Int /\ D * d[s] <= g * k[s] + D
  <2>. TAKE s \in Subgraphs
  <2>1. d[s] = ShareAt(r, s, y, k[s]) - ShareAt(r, s, x, k[s])
    BY <1>5, <1>6
  <2>2. k[s] \in Nat /\ x \in Int /\ y \in Int
    BY <1>1, <1>7
  <2>. DEFINE h == k[s]
  <2>. HIDE DEF d, k
  <2>3. h \in Nat
    BY <2>2
  <2>. HIDE DEF h
  <2>4. /\ ShareAt(r, s, y, h) - ShareAt(r, s, x, h) \in Int
        /\ D * (ShareAt(r, s, y, h) - ShareAt(r, s, x, h)) <= g * h + D
    BY <1>1, <1>7, <2>2, <2>3, ShareStep
  <2>. QED
    BY <2>1, <2>3, <2>4 DEF h
<1>12. SumFunctionOnSet(k, Subgraphs) = t
  BY NowIs DEF RewardsInvariant, CurationInvariant, DraftSound, SignalledTokens, SumFunction
<1>. HIDE DEF d, k, g, D, n, p, t
<1>13. given \in Int /\ D * given <= g * t + D * n
  BY <1>9, <1>10, <1>11, <1>12, SharesBounded DEF n
<1>14. D * given <= (j - i) * D + t + D * n
  <2>1. g * t \in Int /\ (j - i) * D \in Int /\ D * n \in Int /\ D * given \in Int
    BY <1>1, <1>8, <1>9, <1>10, <1>13
  <2>. QED
    BY <1>1, <1>9, <1>13, <2>1
<1>. HIDE DEF given
<1>15. given <= (j - i) + (n + t \div D)
  <2>1. j - i \in Int
    BY <1>8
  <2>. QED
    BY <1>1, <1>10, <1>13, <1>14, <2>1, CatchUpBound
<1>16. SumFunction(d) = given
  BY DEF SumFunction, given, d
<1>17. CaughtUp = n + t \div D
  BY DEF CaughtUp, n, t, D
<1>. QED
  BY <1>3, <1>4, <1>15, <1>16, <1>17 DEF d

LEMMA AccrualBounded ==
    ASSUME RewardsInvariant, RewardsInvariant', [RewardsNext]_protocolVars, block' # block
    PROVE  SumFunction([s \in Subgraphs |-> Accrued(s)' - Accrued(s)])
             <= Issued(rewards, ledger, curationLedger)' - Issued(rewards, ledger, curationLedger)
                + CaughtUp
<1>1. BlockStep
  BY EveryStep DEF HookedStep, QuietStep, clock
<1>. QED
  BY <1>1, BlockIssues

\* What a deployment accrued grows with the blocks, by what they issue, and by
\* nothing else, but for what is repriced or caught up on (RewardsManager.sol:135-260).
THEOREM AccrualIsSound == RewardsSpec => AccrualSound
<1>1. RewardsInvariant /\ RewardsInvariant' /\ [RewardsNext]_protocolVars
         => [block' # block =>
               SumFunction([s \in Subgraphs |-> Accrued(s)' - Accrued(s)])
                  <= Issued(rewards, ledger, curationLedger)'
                        - Issued(rewards, ledger, curationLedger) + CaughtUp]_protocolVars
  BY AccrualBounded
<1>2. RewardsSpec => AccrualWithinIssuance
  BY <1>1, RewardsAreFunded, PTL DEF RewardsSpec, AccrualWithinIssuance
<1>. QED
  BY <1>2, AccrualTakesTime, PTL DEF AccrualSound

-----------------------------------------------------------------------------
(* Closes with rewards stay possible *)

\* Whether an open allocation can be rewarded depends on its deployment alone: what
\* that accrued must not be below what its allocations were last brought up to.
RewardableInv ==
    \A id \in AllocationIDs, s \in Subgraphs :
       IsOn(ledger, id, s) =>
          (Rewardable(id) <=> Accrued(s) >= rewards.subgraphs[s].accRewardsForSubgraphSnapshot)

LEMMA RewardableIs ==
    ASSUME RewardsInvariant
    PROVE  RewardableInv
<1>. SUFFICES ASSUME NEW id \in AllocationIDs, NEW s \in Subgraphs, IsOn(ledger, id, s)
              PROVE  Rewardable(id) <=>
                        Accrued(s) >= rewards.subgraphs[s].accRewardsForSubgraphSnapshot
  BY DEF RewardableInv
<1>. DEFINE q == AllocationUpdated(rewards, ledger, curationLedger, s)
            snap == rewards.subgraphs[s].accRewardsForSubgraphSnapshot
            acc == AccRewardsPerAllocatedToken(rewards, ledger, curationLedger, s)
            old == rewards.atOpening[id]
<1>1. DeploymentOf(ledger, id) = s
  BY DEF IsOn, DeploymentOf
<1>2. snap \in Nat /\ Accrued(s) \in Nat
  BY NumbersNow, EarnedIs
<1>3. CanUpdateAllocation(rewards, ledger, curationLedger, s) <=> Accrued(s) >= snap
  <2>1. CanUpdateAllocation(rewards, ledger, curationLedger, s) <=> Accrued(s) - snap >= 0
    BY DEF CanUpdateAllocation, NewRewardsForSubgraph, Accrued
  <2>. HIDE DEF snap
  <2>. QED
    BY <1>2, <2>1
<1>4. ASSUME CanUpdateAllocation(rewards, ledger, curationLedger, s)
      PROVE  acc - old >= 0
  <2>1. /\ Good(ledger) /\ AllocationsBooked(ledger) /\ block \in Nat
        /\ curationLedger \in CurationDraft /\ Settled(curationLedger)
        /\ RewardsSound(rewards) /\ \A x \in Subgraphs : Funded(rewards, ledger, x)
    BY CallsNow
  <2>2. RewardsSound(q) /\ Funded(q, ledger, s)
    BY <1>4, <2>1, UpdateKeeps
  <2>3. q.subgraphs[s].accRewardsPerAllocatedToken = acc /\ q.atOpening = rewards.atOpening
    BY NowIs, UpdatedIs
  <2>4. q.atOpening[id] <= q.subgraphs[s].accRewardsPerAllocatedToken
    BY <2>2 DEF Funded
  <2>5. acc \in Nat /\ old \in Nat
    BY <2>2, <2>3, RewardsAreTyped DEF RewardsSound, RewardsTyping
  <2>. HIDE DEF acc, q
  <2>. QED
    BY <2>3, <2>4, <2>5
<1>5. NewAccrued(rewards, ledger, id) = acc - old
  BY <1>1 DEF NewAccrued
<1>. HIDE DEF acc, old, snap
<1>. QED
  BY <1>1, <1>3, <1>4, <1>5 DEF Rewardable, snap

AccrualNat == \A s \in Subgraphs : Accrued(s) \in Nat

\* What accrued does not shrink when the supply grows, in a block or into the next.
LEMMA AccrualGrows ==
    ASSUME RewardsInvariant, SignalLeft(rewards, rewards'), curationLedger' = curationLedger,
           block' = block \/ block' = block + 1,
           TotalSupply(ledger', curationLedger) \in Nat,
           NEW p \in Nat, p <= TotalSupply(ledger', curationLedger), NEW s \in Subgraphs
    PROVE  Accrued(s)' >= AccruedAt(block, rewards, p, SignalledTokens(curationLedger), s,
                                    curationLedger.pools[s].tokens)
<1>. DEFINE b == block
            r == rewards
            t == SignalledTokens(curationLedger)
            k == curationLedger.pools[s].tokens
            q == TotalSupply(ledger', curationLedger)
            x == PerSignalAt(b, r, p, t)
            y == PerSignalAt(block', r, q, t)
<1>1. /\ RewardsSound(r) /\ b \in Nat /\ r.accRewardsPerSignalLastBlockUpdated <= b
      /\ t \in Nat /\ k \in Nat
  BY NumbersNow
<1>2. Accrued(s)' = AccruedAt(block', r, q, t, s, k)
  <2>1. Accrued(s)' = AccruedAt(block', rewards', TotalSupply(ledger', curationLedger'),
                                SignalledTokens(curationLedger'), s,
                                curationLedger'.pools[s].tokens)
    BY AccruedThen
  <2>2. Accrued(s)' = AccruedAt(block', rewards', q, t, s, k)
    BY <2>1
  <2>. HIDE DEF q, t, k
  <2>. QED
    BY <2>2, LeftAlike
<1>3. x \in Nat /\ y \in Nat /\ x <= y
  <2>. DEFINE c == block'
  <2>1. c \in Nat /\ (c = b \/ c = b + 1)
    BY <1>1
  <2>. HIDE DEF c
  <2>2. /\ PerSignalAt(b, r, p, t) \in Nat /\ PerSignalAt(c, r, q, t) \in Nat
        /\ PerSignalAt(b, r, p, t) <= PerSignalAt(c, r, q, t)
    BY <1>1, <2>1, PerSignalGrows
  <2>. QED
    BY <2>2 DEF c
<1>. HIDE DEF x, y, k
<1>4. /\ ShareAt(r, s, x, k) \in Int /\ ShareAt(r, s, y, k) \in Int
      /\ ShareAt(r, s, x, k) <= ShareAt(r, s, y, k)
  <2>1. x \in Int /\ y \in Int
    BY <1>3
  <2>. QED
    BY <1>1, <1>3, <2>1, ShareGrows
<1>. QED
  BY <1>2, <1>4 DEF AccruedAt, x, y, k

LEMMA StaysRewardable ==
    ASSUME RewardsInvariant, RewardsInvariant', RewardableInv, RewardableInv', AccrualNat',
           [RewardsNext]_protocolVars, NEW id \in Active(ledger'),
           id \in Active(ledger) => Rewardable(id), ~Repriced(DeploymentOf(ledger', id))
    PROVE  Rewardable(id)'
<1>. DEFINE deployment == DeploymentOf(ledger', id)
<1>1. /\ id \in AllocationIDs
      /\ IsActive(ledger'.allocations[id])
      /\ IsActive(ledger.allocations[id]) => id \in Active(ledger)
  <2>1. id \in AllocationIDs /\ StateOf(ledger', id) = "Active"
    BY DEF Active
  <2>2. Good(ledger) /\ Good(ledger')
    BY NowIs DEF RewardsInvariant, Books, IInv
  <2>3. /\ ledger.allocations[id] \in Allocation /\ ledger'.allocations[id] \in Allocation
    BY <2>1, <2>2 DEF Good, OpenLedger
  <2>. QED
    BY <2>1, <2>3 DEF Active, StateOf, AllocationState, IsActive
<1>2. deployment \in Subgraphs
  <2>1. Deployed(ledger')
    BY DEF RewardsInvariant
  <2>. QED
    BY <1>1, <2>1 DEF Deployed, DeploymentOf, IsActive
<1>. PICK s \in Subgraphs : s = deployment
  BY <1>2
<1>3. s = DeploymentOf(ledger', id) /\ IsOn(ledger', id, s)
  BY <1>1 DEF IsOn, DeploymentOf
<1>. HIDE DEF deployment
<1>. DEFINE before == rewards.subgraphs[s].accRewardsForSubgraphSnapshot
            after == rewards'.subgraphs[s].accRewardsForSubgraphSnapshot
            t == SignalledTokens(curationLedger)
            k == curationLedger.pools[s].tokens
            p == TotalSupply(ledger, curationLedger)
<1>4. Rewardable(id)' <=> Accrued(s)' >= after
  BY <1>1, <1>3 DEF RewardableInv, IsOn
<1>5. ASSUME IsActive(ledger.allocations[id]), DeploymentOf(ledger, id) = s
      PROVE  Accrued(s) >= before
  <2>1. IsOn(ledger, id, s)
    BY <1>5 DEF IsOn, DeploymentOf
  <2>. QED
    BY <1>1, <1>5, <2>1 DEF RewardableInv
<1>6. Accrued(s) = AccruedAt(block, rewards, p, t, s, k)
  BY AccruedNow
<1>7. /\ Accrued(s) \in Nat /\ Accrued(s)' \in Nat /\ before \in Nat /\ after \in Nat
      /\ p \in Nat /\ block \in Nat
  <2>1. /\ Accrued(s) \in Nat /\ before \in Nat /\ p \in Nat /\ block \in Nat
    BY NumbersNow, EarnedIs
  <2>2. after \in Nat
    <3>1. rewards' \in RewardsState
      BY DEF RewardsInvariant, RewardsSound
    <3>. QED
      BY <3>1, RewardsAreTyped DEF RewardsTyping
  <2>3. Accrued(s)' \in Nat
    BY DEF AccrualNat
  <2>. QED
    BY <2>1, <2>2, <2>3
<1>. HIDE DEF before, after
<1>8. CASE HookedStep
  <2>1. /\ Hooked(rewards, ledger, rewards', ledger')
        /\ block' = block /\ curationLedger' = curationLedger
    BY <1>8 DEF HookedStep, clock, curationVars
  <2>2. /\ SignalLeft(rewards, rewards')
        /\ TotalSupply(ledger', curationLedger) \in Nat
        /\ p <= TotalSupply(ledger', curationLedger)
        /\ after = before \/ Fresh(rewards, rewards', ledger', s)
        /\ \/ IsActive(ledger.allocations[id]) /\ DeploymentOf(ledger, id) = s
           \/ Fresh(rewards, rewards', ledger', s)
    BY <1>1, <1>3, <2>1 DEF Hooked, before, after
  <2>3. CASE Fresh(rewards, rewards', ledger', s)
    <3>1. PICK o \in Nat : /\ o <= TotalSupply(ledger', curationLedger)
                           /\ after = AccruedAt(block, rewards, o, t, s, k)
      BY <2>3 DEF Fresh, after
    <3>2. Accrued(s)' >= AccruedAt(block, rewards, o, t, s, k)
      BY <2>1, <2>2, <3>1, AccrualGrows
    <3>. QED
      BY <1>4, <3>1, <3>2
  <2>4. CASE ~Fresh(rewards, rewards', ledger', s)
    <3>1. after = before /\ Accrued(s) >= before
      BY <1>5, <2>2, <2>4
    <3>2. Accrued(s)' >= AccruedAt(block, rewards, p, t, s, k)
      BY <1>7, <2>1, <2>2, AccrualGrows
    <3>. QED
      BY <1>4, <1>6, <1>7, <3>1, <3>2
  <2>. QED
    BY <2>3, <2>4
<1>9. CASE QuietStep
  <2>1. IsActive(ledger.allocations[id]) /\ DeploymentOf(ledger, id) = s
    BY <1>1, <1>3, <1>9 DEF QuietStep, OpenStay, DeploymentOf
  <2>2. Accrued(s)' = Accrued(s)
    BY <1>3, <1>9 DEF QuietStep, NothingAccrues
  <2>3. after = before
    BY <1>9 DEF QuietStep, before, after
  <2>. QED
    BY <1>4, <1>5, <2>1, <2>2, <2>3
<1>10. CASE BlockStep
  <2>1. /\ block' = block + 1 /\ rewards' = rewards /\ ledger' = ledger
        /\ curationLedger' = curationLedger
    BY <1>10 DEF BlockStep, NextBlock, Tick, curationVars, rewardsVars
  <2>2. IsActive(ledger.allocations[id]) /\ DeploymentOf(ledger, id) = s /\ after = before
    BY <1>1, <1>3, <2>1 DEF before, after
  <2>3. SignalLeft(rewards, rewards') /\ TotalSupply(ledger', curationLedger) = p /\ p <= p
    BY <1>7, <2>1, SameSignalLeft
  <2>4. Accrued(s)' >= AccruedAt(block, rewards, p, t, s, k)
    BY <1>7, <2>1, <2>3, AccrualGrows
  <2>. QED
    BY <1>4, <1>5, <1>6, <1>7, <2>2, <2>4
<1>. QED
  BY <1>8, <1>9, <1>10, EveryStep

\* A close with a proof of indexing that could be paid goes on being possible: neither
\* checked subtraction comes to fail, unless its deployment is repriced
\* (RewardsManager.sol:289-394).
THEOREM StaysRewardableWhileActive == RewardsSpec => RewardableWhileActive
<1>1. RewardsInvariant => RewardableInv /\ AccrualNat
  BY RewardableIs, EarnedIs DEF AccrualNat
<1>2. RewardsInvariant /\ RewardsInvariant' /\ RewardableInv /\ RewardableInv' /\ AccrualNat'
         /\ [RewardsNext]_protocolVars
         => [\A id \in Active(ledger') :
                (id \in Active(ledger) => Rewardable(id))
                   => Rewardable(id)' \/ Repriced(DeploymentOf(ledger', id))]_protocolVars
  BY StaysRewardable
<1>. QED
  BY <1>1, <1>2, RewardsAreFunded, PTL DEF RewardsSpec, RewardableWhileActive
=============================================================================
