------------------------------ MODULE SumProofs ------------------------------
(***************************************************************************)
(* The arithmetic that the other proofs share: truncating division, shares *)
(* in parts per million, and sums over finite sets, as SumFunctionOnSet of *)
(* the community modules computes them, by a choice of one element after   *)
(* the other.  The running totals of the contracts are compared with such  *)
(* sums.                                                                   *)
(*                                                                         *)
(* What is computed element by element calls for induction over the set.   *)
(* It is done here by a minimal counterexample: strict inclusion among the *)
(* subsets of a finite set is well-founded, so that of the sets that break *)
(* a formula one has no smaller one that does.                             *)
(***************************************************************************)
EXTENDS TokenMath, FiniteSets, Functions, FiniteSetTheorems, WellFoundedInduction, TLAPS

-----------------------------------------------------------------------------
(* Arithmetic *)

\* Truncating division, by its defining inequalities.
LEMMA DivBounds ==
    ASSUME NEW a \in Nat, NEW b \in Nat \ {0}
    PROVE  /\ a \div b \in Nat
           /\ (a \div b) * b <= a
           /\ a < (a \div b) * b + b
OBVIOUS

\* All that the proofs need to know about 100%.
LEMMA MaxPPM == MAX_PPM \in Nat \ {0}
BY SMT DEF MAX_PPM

\* A share of some tokens is part of them.
LEMMA PortionBounds ==
    ASSUME NEW percentage \in 0 .. MAX_PPM, NEW tokens \in Nat
    PROVE  Portion(percentage, tokens) \in 0 .. tokens
<1>. DEFINE q == (percentage * tokens) \div MAX_PPM
<1>1. q \in Nat /\ q * MAX_PPM <= percentage * tokens
  BY MaxPPM, DivBounds
<1>2. percentage * tokens <= MAX_PPM * tokens
  BY MaxPPM
<1>3. q <= tokens
  BY <1>1, <1>2, MaxPPM
<1>. QED
  BY <1>1, <1>3 DEF Portion

-----------------------------------------------------------------------------
(* Least elements *)

\* A set of subsets of a finite set has one of which no other is a part.
LEMMA MinimalSubset ==
    ASSUME NEW S, IsFiniteSet(S), NEW B \in SUBSET SUBSET S, B # {}
    PROVE  \E T \in B : \A U \in SUBSET T : U \in B => U = T
<1>1. IsWellFoundedOn(StrictSubsetOrdering(S), FiniteSubsetsOf(S))
  BY FS_StrictSubsetOrderingWellFounded
<1>2. FiniteSubsetsOf(S) = SUBSET S
  BY FS_FiniteSubsetsOfFinite
<1>3. PICK T \in B : \A U \in B : ~(<<U, T>> \in StrictSubsetOrdering(S))
  BY <1>1, <1>2, WFMin
<1>4. ASSUME NEW U \in SUBSET T, U \in B, U # T PROVE FALSE
  <2>1. U \in SUBSET S /\ T \in SUBSET S
    OBVIOUS
  <2>2. <<U, T>> \in StrictSubsetOrdering(S)
    BY <1>4, <2>1 DEF StrictSubsetOrdering
  <2>. QED
    BY <1>3, <1>4, <2>2
<1>. QED
  BY <1>4

\* A set of natural numbers has a least one.
LEMMA LeastNumber ==
    ASSUME NEW Q \in SUBSET Nat, Q # {}
    PROVE  \E m \in Q : \A n \in Q : m <= n
<1>1. PICK n \in Q : TRUE
  OBVIOUS
<1>. DEFINE B == {0 .. m : m \in {k \in Q : k <= n}}
            I == 0 .. n
<1>2. IsFiniteSet(I)
  BY FS_Interval
<1>3. B \in SUBSET SUBSET I /\ B # {}
  OBVIOUS
<1>. HIDE DEF B, I
<1>4. PICK T \in B : \A U \in SUBSET T : U \in B => U = T
  BY <1>2, <1>3, MinimalSubset
<1>. USE DEF B, I
<1>5. PICK m \in Q : T = 0 .. m /\ m <= n
  OBVIOUS
<1>6. ASSUME NEW k \in Q, k < m PROVE FALSE
  <2>1. (0 .. k) \in B /\ (0 .. k) \in SUBSET T
    BY <1>5, <1>6
  <2>2. m \in T /\ m \notin 0 .. k
    BY <1>5, <1>6
  <2>. QED
    BY <1>4, <2>1, <2>2
<1>. QED
  BY <1>6

\* The sum over T, if g holds the sums over smaller sets.
Entry(f, g, T) == IF T = {} THEN 0
                  ELSE f[CHOOSE x \in T : TRUE] + g[T \ {CHOOSE x \in T : TRUE}]

\* g holds the sum of f over each subset of S.
IsTable(g, f, S) == g = [T \in SUBSET S |-> Entry(f, g, T)]

\* There is a table of the sums over all subsets, although each entry needs others.
LEMMA SumExists ==
    ASSUME NEW S, IsFiniteSet(S), NEW f, \A x \in S : f[x] \in Int
    PROVE  \E g \in [SUBSET S -> Int] : IsTable(g, f, S)
<1>. DEFINE P(n) == \E g \in [SUBSET S -> Int] :
                      \A T \in SUBSET S : Cardinality(T) <= n => g[T] = Entry(f, g, T)
            Q == {n \in Nat : ~P(n)}
<1>a. \A T \in SUBSET S : IsFiniteSet(T) /\ Cardinality(T) \in Nat
  BY FS_Subset, FS_CardinalityType
<1>b. ASSUME NEW T \in SUBSET S, T # {}
      PROVE  /\ (CHOOSE x \in T : TRUE) \in T
             /\ T \ {CHOOSE x \in T : TRUE} \in SUBSET S
             /\ Cardinality(T \ {CHOOSE x \in T : TRUE}) = Cardinality(T) - 1
  <2>. DEFINE c == CHOOSE x \in T : TRUE
  <2>1. c \in T
    BY <1>b
  <2>. HIDE DEF c
  <2>2. Cardinality(T \ {c}) = Cardinality(T) - 1
    BY <1>a, <2>1, FS_RemoveElement
  <2>. QED
    BY <2>1, <2>2 DEF c
<1>1. P(0)
  <2>. DEFINE g == [T \in SUBSET S |-> 0]
  <2>1. ASSUME NEW T \in SUBSET S, Cardinality(T) <= 0 PROVE g[T] = Entry(f, g, T)
    <3>1. T = {}
      BY <1>a, <2>1, FS_EmptySet
    <3>. QED
      BY <3>1 DEF Entry
  <2>2. g \in [SUBSET S -> Int]
    OBVIOUS
  <2>. QED
    BY <2>1, <2>2
<1>2. ASSUME NEW n \in Nat, P(n) PROVE P(n + 1)
  <2>1. PICK g \in [SUBSET S -> Int] :
          \A T \in SUBSET S : Cardinality(T) <= n => g[T] = Entry(f, g, T)
    BY <1>2
  <2>. DEFINE h == [T \in SUBSET S |-> Entry(f, g, T)]
  <2>2. h \in [SUBSET S -> Int]
    BY <1>b DEF Entry
  <2>3. ASSUME NEW T \in SUBSET S, Cardinality(T) <= n + 1 PROVE h[T] = Entry(f, h, T)
    <3>1. CASE T = {}
      BY <3>1 DEF Entry
    <3>2. CASE T # {}
      <4>. DEFINE U == T \ {CHOOSE x \in T : TRUE}
      <4>1. U \in SUBSET S /\ Cardinality(U) <= n
        BY <1>a, <1>b, <2>3, <3>2
      <4>2. h[U] = g[U]
        BY <2>1, <4>1
      <4>. QED
        BY <3>2, <4>2 DEF Entry
    <3>. QED
      BY <3>1, <3>2
  <2>. QED
    BY <2>2, <2>3
<1>. HIDE DEF P
<1>3. \A n \in Nat : P(n)
  <2>. SUFFICES ASSUME Q # {} PROVE FALSE
    OBVIOUS
  <2>1. PICK m \in Q : \A n \in Q : m <= n
    BY LeastNumber
  <2>2. m # 0 /\ m \in Nat
    BY <1>1
  <2>3. m - 1 \in Nat /\ P(m - 1)
    BY <2>1, <2>2
  <2>4. P((m - 1) + 1)
    BY <1>2, <2>3
  <2>. QED
    BY <2>2, <2>4
<1>4. PICK g \in [SUBSET S -> Int] :
        \A T \in SUBSET S : Cardinality(T) <= Cardinality(S) => g[T] = Entry(f, g, T)
  BY <1>3, <1>a DEF P
<1>5. \A T \in SUBSET S : Cardinality(T) <= Cardinality(S)
  BY FS_Subset
<1>6. \A T \in SUBSET S : g[T] = Entry(f, g, T)
  BY <1>4, <1>5
<1>. QED
  BY <1>6 DEF IsTable

\* What the sum over S is computed with.
Table(f, S) == CHOOSE g : IsTable(g, f, S)

\* The operator of the community modules looks the sum up in such a table.
LEMMA SumIsTabled ==
    ASSUME NEW S, NEW f
    PROVE  SumFunctionOnSet(f, S) = Table(f, S)[S]
BY DEF SumFunctionOnSet, FoldFunctionOnSet, MapThenFoldSet, Table, IsTable, Entry

\* What it chooses is a table.
LEMMA TableIsOne ==
    ASSUME NEW S, IsFiniteSet(S), NEW f, \A x \in S : f[x] \in Int
    PROVE  IsTable(Table(f, S), f, S)
BY SumExists DEF Table

\* A table, read at one of the sets.
LEMMA TableEntry ==
    ASSUME NEW S, NEW f, NEW g, IsTable(g, f, S), NEW T \in SUBSET S
    PROVE  g[T] = Entry(f, g, T)
<1>1. g = [X \in SUBSET S |-> Entry(f, g, X)]
  BY DEF IsTable
<1>. QED
  BY <1>1

\* Two tables agree on the sets that are in both, if their functions agree there.
LEMMA TablesAgree ==
    ASSUME NEW S, NEW R, IsFiniteSet(S), NEW f, NEW h,
           NEW g, IsTable(g, f, S), NEW k, IsTable(k, h, R),
           NEW A \in SUBSET S, A \in SUBSET R, \A x \in A : f[x] = h[x]
    PROVE  g[A] = k[A]
<1>. DEFINE B == {T \in SUBSET A : g[T] # k[T]}
<1>. SUFFICES ASSUME B # {} PROVE FALSE
  OBVIOUS
<1>1. IsFiniteSet(A) /\ B \in SUBSET SUBSET A
  BY FS_Subset
<1>2. PICK T \in B : \A U \in SUBSET T : U \in B => U = T
  <2>. HIDE DEF B
  <2>. QED
    BY <1>1, MinimalSubset
<1>3. T \in SUBSET A /\ T \in SUBSET S /\ T \in SUBSET R /\ g[T] # k[T]
  OBVIOUS
<1>4. g[T] = Entry(f, g, T)
  BY <1>3, TableEntry
<1>5. k[T] = Entry(h, k, T)
  BY <1>3, TableEntry
<1>6. T # {}
  BY <1>3, <1>4, <1>5 DEF Entry
<1>. DEFINE c == CHOOSE x \in T : TRUE
<1>7. c \in T
  BY <1>6
<1>8. g[T] = f[c] + g[T \ {c}] /\ k[T] = h[c] + k[T \ {c}]
  BY <1>4, <1>5, <1>6 DEF Entry
<1>. HIDE DEF c
<1>9. T \ {c} \in SUBSET A /\ T \ {c} \in SUBSET T /\ T \ {c} # T
  BY <1>3, <1>7
<1>10. T \ {c} \notin B
  BY <1>2, <1>9
<1>11. g[T \ {c}] = k[T \ {c}]
  BY <1>9, <1>10
<1>12. f[c] = h[c]
  BY <1>3, <1>7
<1>. QED
  BY <1>3, <1>8, <1>11, <1>12

\* The table of S holds the sum over each of its subsets.
LEMMA TableOfSums ==
    ASSUME NEW S, IsFiniteSet(S), NEW f, \A x \in S : f[x] \in Int, NEW T \in SUBSET S
    PROVE  Table(f, S)[T] = SumFunctionOnSet(f, T)
<1>1. IsFiniteSet(T) /\ \A x \in T : f[x] \in Int
  BY FS_Subset
<1>2. IsTable(Table(f, S), f, S) /\ IsTable(Table(f, T), f, T)
  BY <1>1, TableIsOne
<1>3. Table(f, S)[T] = Table(f, T)[T]
  BY <1>2, TablesAgree
<1>. QED
  BY <1>3, SumIsTabled

\* Nothing adds up to zero.
LEMMA SumOfNothing ==
    ASSUME NEW f
    PROVE  SumFunctionOnSet(f, {}) = 0
<1>1. IsFiniteSet({}) /\ \A x \in {} : f[x] \in Int
  BY FS_EmptySet
<1>2. Table(f, {})[{}] = Entry(f, Table(f, {}), {})
  BY <1>1, TableIsOne, TableEntry
<1>. QED
  BY <1>2, SumIsTabled DEF Entry

\* The element that the definition chooses can be taken out of a sum.
LEMMA SumTakesChosenOut ==
    ASSUME NEW S, IsFiniteSet(S), NEW f, \A x \in S : f[x] \in Int, S # {}
    PROVE  LET c == CHOOSE x \in S : TRUE
           IN  SumFunctionOnSet(f, S) = f[c] + SumFunctionOnSet(f, S \ {c})
<1>. DEFINE c == CHOOSE x \in S : TRUE
            g == Table(f, S)
<1>1. c \in S
  OBVIOUS
<1>3. g[S] = Entry(f, g, S)
  BY TableIsOne, TableEntry
<1>4. g[S] = f[c] + g[S \ {c}]
  BY <1>3 DEF Entry
<1>5. g[S] = SumFunctionOnSet(f, S)
  BY SumIsTabled
<1>6. g[S \ {c}] = SumFunctionOnSet(f, S \ {c})
  <2>. HIDE DEF c
  <2>. QED
    BY TableOfSums
<1>. QED
  BY <1>4, <1>5, <1>6

\* The sum of integers is one.
LEMMA SumIsInt ==
    ASSUME NEW S, IsFiniteSet(S), NEW f, \A x \in S : f[x] \in Int
    PROVE  SumFunctionOnSet(f, S) \in Int
<1>1. PICK k \in [SUBSET S -> Int] : IsTable(k, f, S)
  BY SumExists
<1>2. IsTable(Table(f, S), f, S)
  BY TableIsOne
<1>3. Table(f, S)[S] = k[S]
  BY <1>1, <1>2, TablesAgree
<1>. QED
  BY <1>1, <1>3, SumIsTabled

\* Any element can be taken out of a sum.
THEOREM SumTakesOut ==
    ASSUME NEW S, IsFiniteSet(S), NEW f, \A x \in S : f[x] \in Int, NEW y \in S
    PROVE  SumFunctionOnSet(f, S) = f[y] + SumFunctionOnSet(f, S \ {y})
<1>. DEFINE Sum(T) == SumFunctionOnSet(f, T)
            B == {T \in SUBSET S : \E x \in T : Sum(T) # f[x] + Sum(T \ {x})}
<1>a. \A T \in SUBSET S : IsFiniteSet(T) /\ Sum(T) \in Int
  BY FS_Subset, SumIsInt
<1>b. ASSUME NEW T \in SUBSET S, T # {}
      PROVE  LET c == CHOOSE x \in T : TRUE IN Sum(T) = f[c] + Sum(T \ {c})
  BY <1>a, <1>b, SumTakesChosenOut
<1>. HIDE DEF Sum
<1>1. SUFFICES ASSUME B # {} PROVE FALSE
  <2>1. S \notin B
    BY <1>1
  <2>2. Sum(S) = f[y] + Sum(S \ {y})
    BY <2>1
  <2>. QED
    BY <2>2 DEF Sum
<1>2. B \in SUBSET SUBSET S
  OBVIOUS
<1>3. PICK T \in B : \A U \in SUBSET T : U \in B => U = T
  <2>. HIDE DEF B
  <2>. QED
    BY <1>1, <1>2, MinimalSubset
<1>4. T \in SUBSET S
  OBVIOUS
<1>5. PICK x \in T : Sum(T) # f[x] + Sum(T \ {x})
  OBVIOUS
<1>. DEFINE c == CHOOSE z \in T : TRUE
<1>6. c \in T
  BY <1>5
<1>7. Sum(T) = f[c] + Sum(T \ {c})
  BY <1>b, <1>4, <1>5
<1>. HIDE DEF c
<1>8. x # c
  BY <1>5, <1>7
<1>9. ASSUME NEW z \in T, NEW w \in T \ {z}
      PROVE  Sum(T \ {z}) = f[w] + Sum((T \ {z}) \ {w})
  <2>1. T \ {z} \in SUBSET T /\ T \ {z} \in SUBSET S /\ T \ {z} # T
    BY <1>4
  <2>2. T \ {z} \notin B
    <3>. HIDE DEF B
    <3>. QED
      BY <1>3, <2>1
  <2>. QED
    BY <2>1, <2>2
<1>10. Sum(T \ {c}) = f[x] + Sum((T \ {c}) \ {x})
  BY <1>6, <1>8, <1>9
<1>11. Sum(T \ {x}) = f[c] + Sum((T \ {x}) \ {c})
  BY <1>6, <1>8, <1>9
<1>12. (T \ {c}) \ {x} = (T \ {x}) \ {c}
  OBVIOUS
<1>. DEFINE fc == f[c]
            fx == f[x]
            rest == Sum((T \ {x}) \ {c})
<1>13. fc \in Int /\ fx \in Int /\ rest \in Int
  BY <1>4, <1>6, <1>a
<1>14. Sum(T) = fc + (fx + rest) /\ Sum(T \ {x}) = fc + rest /\ Sum(T) # fx + Sum(T \ {x})
  BY <1>5, <1>7, <1>10, <1>11, <1>12
<1>. HIDE DEF B, fc, fx, rest
<1>. QED
  BY <1>13, <1>14

\* Any new one can be put into it.
COROLLARY SumTakesIn ==
    ASSUME NEW S, IsFiniteSet(S), NEW f, NEW y, y \notin S,
           f[y] \in Int, \A x \in S : f[x] \in Int
    PROVE  SumFunctionOnSet(f, S \cup {y}) = SumFunctionOnSet(f, S) + f[y]
<1>1. IsFiniteSet(S \cup {y}) /\ \A x \in S \cup {y} : f[x] \in Int
  BY FS_AddElement
<1>2. SumFunctionOnSet(f, S \cup {y})
        = f[y] + SumFunctionOnSet(f, (S \cup {y}) \ {y})
  BY <1>1, SumTakesOut
<1>3. (S \cup {y}) \ {y} = S
  OBVIOUS
<1>4. SumFunctionOnSet(f, S) \in Int
  BY SumIsInt
<1>5. SumFunctionOnSet(f, (S \cup {y}) \ {y}) = SumFunctionOnSet(f, S)
  BY <1>3
<1>. DEFINE before == SumFunctionOnSet(f, S)
            fy == f[y]
<1>. HIDE DEF before, fy
<1>6. SumFunctionOnSet(f, S \cup {y}) = fy + before /\ fy \in Int /\ before \in Int
  BY <1>2, <1>4, <1>5 DEF before, fy
<1>7. fy + before = before + fy
  BY <1>6
<1>. QED
  BY <1>6, <1>7 DEF before, fy

\* Only the values over the set matter.
THEOREM SumsOfEquals ==
    ASSUME NEW S, IsFiniteSet(S), NEW f, NEW h, \A x \in S : f[x] \in Int /\ h[x] = f[x]
    PROVE  SumFunctionOnSet(f, S) = SumFunctionOnSet(h, S)
<1>1. IsTable(Table(f, S), f, S) /\ IsTable(Table(h, S), h, S)
  <2>1. (\A x \in S : f[x] \in Int) /\ (\A x \in S : h[x] \in Int)
    OBVIOUS
  <2>. QED
    BY <2>1, TableIsOne
<1>2. Table(f, S)[S] = Table(h, S)[S]
  <2>1. S \in SUBSET S /\ \A x \in S : f[x] = h[x]
    OBVIOUS
  <2>. QED
    BY <1>1, <2>1, TablesAgree
<1>. QED
  BY <1>2, SumIsTabled

\* Where one value changes, the sum changes by as much.
THEOREM SumAfterUpdate ==
    ASSUME NEW S, IsFiniteSet(S), NEW f, NEW h, NEW y \in S,
           \A x \in S : f[x] \in Int /\ h[x] \in Int,
           \A x \in S \ {y} : h[x] = f[x]
    PROVE  SumFunctionOnSet(h, S) = SumFunctionOnSet(f, S) + (h[y] - f[y])
<1>1. IsFiniteSet(S \ {y}) /\ \A x \in S \ {y} : f[x] \in Int
  BY FS_RemoveElement
<1>2. SumFunctionOnSet(f, S \ {y}) = SumFunctionOnSet(h, S \ {y})
  BY <1>1, SumsOfEquals
<1>3. SumFunctionOnSet(f, S) = f[y] + SumFunctionOnSet(f, S \ {y})
  BY SumTakesOut
<1>4. SumFunctionOnSet(h, S) = h[y] + SumFunctionOnSet(h, S \ {y})
  BY SumTakesOut
<1>5. SumFunctionOnSet(f, S \ {y}) \in Int /\ f[y] \in Int /\ h[y] \in Int
  BY <1>1, SumIsInt
<1>. QED
  BY <1>2, <1>3, <1>4, <1>5

\* A sum of larger values is larger.
THEOREM SumIsMonotonic ==
    ASSUME NEW S, IsFiniteSet(S), NEW f, NEW h,
           \A x \in S : f[x] \in Int /\ h[x] \in Int /\ f[x] <= h[x]
    PROVE  SumFunctionOnSet(f, S) <= SumFunctionOnSet(h, S)
<1>. DEFINE B == {T \in SUBSET S : ~(SumFunctionOnSet(f, T) <= SumFunctionOnSet(h, T))}
<1>1. SUFFICES ASSUME B # {} PROVE FALSE
  OBVIOUS
<1>2. B \in SUBSET SUBSET S
  OBVIOUS
<1>3. PICK T \in B : \A U \in SUBSET T : U \in B => U = T
  <2>. HIDE DEF B
  <2>. QED
    BY <1>1, <1>2, MinimalSubset
<1>4. /\ T \in SUBSET S /\ ~(SumFunctionOnSet(f, T) <= SumFunctionOnSet(h, T))
      /\ IsFiniteSet(T)
  BY FS_Subset
<1>5. T # {}
  BY <1>4, SumOfNothing
<1>6. PICK y \in T : TRUE
  BY <1>5
<1>7. T \ {y} \in SUBSET T /\ T \ {y} # T /\ T \ {y} \in SUBSET S /\ IsFiniteSet(T \ {y})
  BY <1>4, FS_RemoveElement
<1>8. SumFunctionOnSet(f, T \ {y}) <= SumFunctionOnSet(h, T \ {y})
  <2>1. T \ {y} \notin B
    <3>. HIDE DEF B
    <3>. QED
      BY <1>3, <1>7
  <2>. QED
    BY <1>7, <2>1
<1>9. /\ SumFunctionOnSet(f, T) = f[y] + SumFunctionOnSet(f, T \ {y})
      /\ SumFunctionOnSet(h, T) = h[y] + SumFunctionOnSet(h, T \ {y})
  BY <1>4, SumTakesOut
<1>10. SumFunctionOnSet(f, T \ {y}) \in Int /\ SumFunctionOnSet(h, T \ {y}) \in Int
  BY <1>4, <1>7, SumIsInt
<1>11. f[y] \in Int /\ h[y] \in Int /\ f[y] <= h[y]
  BY <1>4
<1>. HIDE DEF B
<1>. QED
  BY <1>4, <1>8, <1>9, <1>10, <1>11

\* Zeros add up to zero.
THEOREM SumOfZeros ==
    ASSUME NEW S, IsFiniteSet(S), NEW f, \A x \in S : f[x] = 0
    PROVE  SumFunctionOnSet(f, S) = 0
<1>. DEFINE B == {T \in SUBSET S : SumFunctionOnSet(f, T) # 0}
<1>1. SUFFICES ASSUME B # {} PROVE FALSE
  OBVIOUS
<1>2. B \in SUBSET SUBSET S
  OBVIOUS
<1>3. PICK T \in B : \A U \in SUBSET T : U \in B => U = T
  <2>. HIDE DEF B
  <2>. QED
    BY <1>1, <1>2, MinimalSubset
<1>4. T \in SUBSET S /\ SumFunctionOnSet(f, T) # 0 /\ IsFiniteSet(T)
  BY FS_Subset
<1>5. PICK y \in T : TRUE
  BY <1>4, SumOfNothing
<1>7. T \ {y} \in SUBSET T /\ T \ {y} # T /\ T \ {y} \in SUBSET S
  BY <1>4
<1>8. SumFunctionOnSet(f, T \ {y}) = 0
  <2>1. T \ {y} \notin B
    <3>. HIDE DEF B
    <3>. QED
      BY <1>3, <1>7
  <2>. QED
    BY <1>7, <2>1
<1>9. SumFunctionOnSet(f, T) = f[y] + SumFunctionOnSet(f, T \ {y})
  BY <1>4, SumTakesOut
<1>10. f[y] = 0
  BY <1>4
<1>. HIDE DEF B
<1>. QED
  BY <1>4, <1>8, <1>9, <1>10

\* Natural numbers add up to one.
COROLLARY SumIsNat ==
    ASSUME NEW S, IsFiniteSet(S), NEW f, \A x \in S : f[x] \in Nat
    PROVE  SumFunctionOnSet(f, S) \in Nat
<1>. DEFINE zero == [x \in S |-> 0]
<1>1. SumFunctionOnSet(f, S) \in Int
  BY SumIsInt
<1>2. SumFunctionOnSet(zero, S) = 0
  BY SumOfZeros
<1>3. SumFunctionOnSet(zero, S) <= SumFunctionOnSet(f, S)
  BY SumIsMonotonic
<1>. QED
  BY <1>1, <1>2, <1>3

\* They add up to no less than each of them.
COROLLARY SumCoversEach ==
    ASSUME NEW S, IsFiniteSet(S), NEW f, \A x \in S : f[x] \in Nat, NEW y \in S
    PROVE  f[y] <= SumFunctionOnSet(f, S)
<1>1. SumFunctionOnSet(f, S) = f[y] + SumFunctionOnSet(f, S \ {y})
  BY SumTakesOut
<1>2. SumFunctionOnSet(f, S \ {y}) \in Nat
  BY FS_RemoveElement, SumIsNat
<1>. QED
  BY <1>1, <1>2

\* A sum over a part is one over the whole, of zeros outside the part.
THEOREM SumOverPart ==
    ASSUME NEW S, IsFiniteSet(S), NEW R \in SUBSET S, NEW f, \A x \in R : f[x] \in Int,
           NEW h, \A x \in S : h[x] = IF x \in R THEN f[x] ELSE 0
    PROVE  SumFunctionOnSet(f, R) = SumFunctionOnSet(h, S)
<1>. DEFINE B == {T \in SUBSET S : SumFunctionOnSet(f, R \cap T) # SumFunctionOnSet(h, T)}
<1>h. \A x \in S : h[x] = IF x \in R THEN f[x] ELSE 0
  OBVIOUS
<1>1. SUFFICES ASSUME B # {} PROVE FALSE
  <2>1. S \notin B
    BY <1>1
  <2>2. R \cap S = R
    OBVIOUS
  <2>3. SumFunctionOnSet(f, R \cap S) = SumFunctionOnSet(h, S)
    BY <2>1
  <2>. QED
    BY <2>2, <2>3
<1>2. B \in SUBSET SUBSET S
  OBVIOUS
<1>3. PICK T \in B : \A U \in SUBSET T : U \in B => U = T
  <2>. HIDE DEF B
  <2>. QED
    BY <1>1, <1>2, MinimalSubset
<1>4. /\ T \in SUBSET S /\ SumFunctionOnSet(f, R \cap T) # SumFunctionOnSet(h, T)
      /\ IsFiniteSet(T) /\ IsFiniteSet(R \cap T)
  BY FS_Subset
<1>5. T # {}
  <2>. SUFFICES ASSUME T = {} PROVE FALSE
    OBVIOUS
  <2>1. R \cap T = {}
    OBVIOUS
  <2>. QED
    BY <1>4, <2>1, SumOfNothing
<1>6. PICK y \in T : TRUE
  BY <1>5
<1>. DEFINE U == T \ {y}
<1>7. U \in SUBSET T /\ U # T /\ U \in SUBSET S /\ IsFiniteSet(U)
  BY <1>4, FS_RemoveElement
<1>8. SumFunctionOnSet(f, R \cap U) = SumFunctionOnSet(h, U)
  <2>1. U \notin B
    <3>. HIDE DEF B, U
    <3>. QED
      BY <1>3, <1>7
  <2>. QED
    BY <1>7, <2>1
<1>9. SumFunctionOnSet(h, T) = h[y] + SumFunctionOnSet(h, U)
  BY <1>4, <1>h, SumTakesOut
<1>10. SumFunctionOnSet(h, U) \in Int
  BY <1>4, <1>h, <1>7, SumIsInt
<1>11. CASE y \in R
  <2>1. SumFunctionOnSet(f, R \cap T) = f[y] + SumFunctionOnSet(f, (R \cap T) \ {y})
    BY <1>4, <1>11, SumTakesOut
  <2>2. (R \cap T) \ {y} = R \cap U
    OBVIOUS
  <2>3. SumFunctionOnSet(f, (R \cap T) \ {y}) = SumFunctionOnSet(f, R \cap U)
    BY <2>2
  <2>4. h[y] = f[y]
    BY <1>4, <1>h, <1>11
  <2>. QED
    BY <1>4, <1>8, <1>9, <2>1, <2>3, <2>4
<1>12. CASE y \notin R
  <2>1. R \cap T = R \cap U
    BY <1>12
  <2>2. SumFunctionOnSet(f, R \cap T) = SumFunctionOnSet(f, R \cap U)
    BY <2>1
  <2>3. h[y] = 0
    BY <1>4, <1>h, <1>12
  <2>. HIDE DEF U, B
  <2>. QED
    BY <1>4, <1>8, <1>9, <1>10, <2>2, <2>3
<1>. QED
  BY <1>11, <1>12
\* Where values rise by at most one, the sum rises by at most their number.
THEOREM SumRaisedOnPart ==
    ASSUME NEW S, IsFiniteSet(S), NEW R \in SUBSET S, NEW f, NEW h,
           \A x \in S : f[x] \in Int /\ h[x] \in Int,
           \A x \in R : h[x] <= f[x] + 1, \A x \in S \ R : h[x] <= f[x]
    PROVE  SumFunctionOnSet(h, S) <= SumFunctionOnSet(f, S) + Cardinality(R)
<1>. DEFINE F(T) == SumFunctionOnSet(f, T)
            H(T) == SumFunctionOnSet(h, T)
            B == {T \in SUBSET S : ~(H(T) <= F(T) + Cardinality(R \cap T))}
<1>a. ASSUME NEW T \in SUBSET S
      PROVE  /\ IsFiniteSet(T) /\ IsFiniteSet(R \cap T)
             /\ F(T) \in Int /\ H(T) \in Int /\ Cardinality(R \cap T) \in Nat
  <2>1. IsFiniteSet(T) /\ R \cap T \in SUBSET S
    BY FS_Subset
  <2>2. IsFiniteSet(R \cap T)
    BY <2>1, FS_Subset
  <2>3. \A x \in T : f[x] \in Int /\ h[x] \in Int
    OBVIOUS
  <2>4. F(T) \in Int /\ H(T) \in Int
    BY <2>1, <2>3, SumIsInt
  <2>. HIDE DEF F, H
  <2>. QED
    BY <2>1, <2>2, <2>4, FS_CardinalityType
<1>b. ASSUME NEW T \in SUBSET S, NEW y \in T
      PROVE  F(T) = f[y] + F(T \ {y}) /\ H(T) = h[y] + H(T \ {y})
  BY <1>a, SumTakesOut
<1>c. F({}) = 0 /\ H({}) = 0
  BY SumOfNothing
<1>. HIDE DEF F, H
<1>1. SUFFICES ASSUME B # {} PROVE FALSE
  <2>1. S \notin B /\ R \cap S = R
    BY <1>1
  <2>2. H(S) <= F(S) + Cardinality(R \cap S)
    BY <2>1
  <2>. QED
    BY <2>1, <2>2 DEF F, H
<1>2. B \in SUBSET SUBSET S
  OBVIOUS
<1>3. PICK T \in B : \A U \in SUBSET T : U \in B => U = T
  <2>. HIDE DEF B
  <2>. QED
    BY <1>1, <1>2, MinimalSubset
<1>4. T \in SUBSET S /\ ~(H(T) <= F(T) + Cardinality(R \cap T))
  OBVIOUS
<1>5. T # {}
  <2>. SUFFICES ASSUME T = {} PROVE FALSE
    OBVIOUS
  <2>1. R \cap T = {}
    OBVIOUS
  <2>. QED
    BY <1>4, <1>c, <2>1, FS_EmptySet
<1>6. PICK y \in T : TRUE
  BY <1>5
<1>. DEFINE U == T \ {y}
<1>7. U \in SUBSET T /\ U # T /\ U \in SUBSET S
  BY <1>4
<1>8. H(U) <= F(U) + Cardinality(R \cap U)
  <2>1. U \notin B
    <3>. HIDE DEF B, U
    <3>. QED
      BY <1>3, <1>7
  <2>. QED
    BY <1>7, <2>1
<1>9. F(T) = f[y] + F(U) /\ H(T) = h[y] + H(U)
  BY <1>4, <1>b
<1>10. /\ f[y] \in Int /\ h[y] \in Int /\ F(U) \in Int /\ H(U) \in Int
       /\ Cardinality(R \cap U) \in Nat /\ IsFiniteSet(R \cap T)
  BY <1>4, <1>7, <1>a
<1>11. CASE y \in R
  <2>1. (R \cap T) \ {y} = R \cap U /\ y \in R \cap T
    BY <1>11
  <2>2. Cardinality((R \cap T) \ {y}) = Cardinality(R \cap T) - 1
    BY <1>10, <2>1, FS_RemoveElement
  <2>3. Cardinality(R \cap T) \in Nat
    BY <1>4, <1>a
  <2>4. Cardinality(R \cap T) = Cardinality(R \cap U) + 1
    <3>1. Cardinality(R \cap U) = Cardinality(R \cap T) - 1
      BY <2>1, <2>2
    <3>. HIDE DEF U
    <3>. QED
      BY <2>3, <3>1
  <2>5. h[y] <= f[y] + 1
    BY <1>11
  <2>. HIDE DEF U, B
  <2>. QED
    BY <1>4, <1>8, <1>9, <1>10, <2>4, <2>5
<1>12. CASE y \notin R
  <2>1. R \cap T = R \cap U
    BY <1>12
  <2>2. h[y] <= f[y]
    BY <1>4, <1>12
  <2>3. Cardinality(R \cap T) = Cardinality(R \cap U)
    BY <2>1
  <2>. HIDE DEF U, B
  <2>. QED
    BY <1>4, <1>8, <1>9, <1>10, <2>2, <2>3
<1>. QED
  BY <1>11, <1>12

\* Sets of at most n elements have at most n times their number in all.
THEOREM UnionBound ==
    ASSUME NEW S, IsFiniteSet(S), NEW n \in Nat, NEW f,
           \A x \in S : IsFiniteSet(f[x]) /\ Cardinality(f[x]) <= n
    PROVE  LET all == UNION {f[x] : x \in S}
           IN  IsFiniteSet(all) /\ Cardinality(all) <= n * Cardinality(S)
<1>. DEFINE All(T) == UNION {f[x] : x \in T}
            Small(T) == /\ IsFiniteSet(All(T))
                        /\ Cardinality(All(T)) <= n * Cardinality(T)
            B == {T \in SUBSET S : ~Small(T)}
<1>1. SUFFICES ASSUME B # {} PROVE FALSE
  <2>1. S \notin B
    BY <1>1
  <2>. QED
    BY <2>1
<1>2. B \in SUBSET SUBSET S
  OBVIOUS
<1>3. PICK T \in B : \A U \in SUBSET T : U \in B => U = T
  <2>. HIDE DEF B
  <2>. QED
    BY <1>1, <1>2, MinimalSubset
<1>4. T \in SUBSET S /\ ~Small(T) /\ IsFiniteSet(T)
  BY FS_Subset
<1>5. T # {}
  <2>. SUFFICES ASSUME T = {} PROVE FALSE
    OBVIOUS
  <2>1. All(T) = {}
    OBVIOUS
  <2>2. Cardinality(T) = 0
    BY FS_EmptySet
  <2>3. n * Cardinality(T) = 0
    BY <2>2
  <2>. QED
    BY <1>4, <2>1, <2>3, FS_EmptySet
<1>6. PICK y \in T : TRUE
  BY <1>5
<1>. DEFINE U == T \ {y}
<1>7. U \in SUBSET T /\ U # T /\ U \in SUBSET S
  BY <1>4
<1>8. Small(U)
  <2>1. U \notin B
    <3>. HIDE DEF B, U
    <3>. QED
      BY <1>3, <1>7
  <2>. QED
    BY <1>7, <2>1
<1>9. All(T) = All(U) \cup f[y]
  OBVIOUS
<1>10. y \in S /\ IsFiniteSet(f[y]) /\ Cardinality(f[y]) <= n
  BY <1>4
<1>11. Cardinality(T) = Cardinality(U) + 1 /\ Cardinality(U) \in Nat
  <2>1. Cardinality(U) = Cardinality(T) - 1 /\ IsFiniteSet(U)
    BY <1>4, FS_RemoveElement
  <2>. HIDE DEF U
  <2>2. Cardinality(T) \in Nat /\ Cardinality(U) \in Nat
    BY <1>4, <2>1, FS_CardinalityType
  <2>. QED
    BY <2>1, <2>2
<1>. HIDE DEF All, B, U
<1>12. /\ IsFiniteSet(All(U) \cup f[y])
       /\ Cardinality(All(U) \cup f[y])
            = Cardinality(All(U)) + Cardinality(f[y]) - Cardinality(All(U) \cap f[y])
  BY <1>8, <1>10, FS_Union
<1>13. /\ Cardinality(All(U)) \in Nat /\ Cardinality(f[y]) \in Nat
       /\ Cardinality(All(U) \cap f[y]) \in Nat
  BY <1>8, <1>10, FS_CardinalityType, FS_Intersection
<1>14. n * (Cardinality(U) + 1) = n * Cardinality(U) + n
  BY <1>11
<1>15. Cardinality(All(T)) <= n * Cardinality(T)
  <2>. DEFINE m == n * Cardinality(U)
  <2>1. m \in Int /\ n * Cardinality(T) = m + n /\ Cardinality(All(U)) <= m
    BY <1>8, <1>11, <1>14
  <2>. HIDE DEF m
  <2>. QED
    BY <1>9, <1>10, <1>12, <1>13, <2>1
<1>. QED
  BY <1>4, <1>9, <1>12, <1>15

\* A multiple of the values, added to others, adds the multiple of their sum.
THEOREM SumOfScaled ==
    ASSUME NEW S, IsFiniteSet(S), NEW f, NEW g, NEW h, NEW k \in Int,
           \A x \in S : f[x] \in Int /\ g[x] \in Int /\ h[x] = f[x] + k * g[x]
    PROVE  SumFunctionOnSet(h, S) = SumFunctionOnSet(f, S) + k * SumFunctionOnSet(g, S)
<1>. DEFINE Wrong(T) == SumFunctionOnSet(h, T)
                           # SumFunctionOnSet(f, T) + k * SumFunctionOnSet(g, T)
            B == {T \in SUBSET S : Wrong(T)}
<1>1. SUFFICES ASSUME B # {} PROVE FALSE
  OBVIOUS
<1>2. B \in SUBSET SUBSET S
  OBVIOUS
<1>3. PICK T \in B : \A U \in SUBSET T : U \in B => U = T
  <2>. HIDE DEF B
  <2>. QED
    BY <1>1, <1>2, MinimalSubset
<1>4. T \in SUBSET S /\ Wrong(T) /\ IsFiniteSet(T)
  BY FS_Subset
<1>5. T # {}
  BY <1>4, SumOfNothing
<1>6. PICK y \in T : TRUE
  BY <1>5
<1>7. T \ {y} \in SUBSET T /\ T \ {y} # T /\ T \ {y} \in SUBSET S /\ IsFiniteSet(T \ {y})
  BY <1>4, FS_RemoveElement
<1>. DEFINE F == SumFunctionOnSet(f, T \ {y})
            G == SumFunctionOnSet(g, T \ {y})
            H == SumFunctionOnSet(h, T \ {y})
<1>8. H = F + k * G
  <2>1. T \ {y} \notin B
    <3>. HIDE DEF B
    <3>. QED
      BY <1>3, <1>7
  <2>. QED
    BY <1>7, <2>1
<1>9. \A x \in S : h[x] \in Int
  OBVIOUS
<1>10. /\ SumFunctionOnSet(f, T) = f[y] + F
       /\ SumFunctionOnSet(g, T) = g[y] + G
       /\ SumFunctionOnSet(h, T) = h[y] + H
  BY <1>4, <1>9, SumTakesOut
<1>11. F \in Int /\ G \in Int /\ H \in Int
  BY <1>4, <1>7, <1>9, SumIsInt
<1>12. f[y] \in Int /\ g[y] \in Int /\ h[y] = f[y] + k * g[y]
  BY <1>4
<1>. HIDE DEF B, F, G, H
<1>13. k * (g[y] + G) = k * g[y] + k * G
  BY <1>11, <1>12
<1>. QED
  BY <1>4, <1>8, <1>10, <1>11, <1>12, <1>13

\* A part is not more than the whole.
THEOREM PartOfSum ==
    ASSUME NEW S, IsFiniteSet(S), NEW f, \A x \in S : f[x] \in Nat, NEW y \in S
    PROVE  f[y] <= SumFunctionOnSet(f, S) /\ SumFunctionOnSet(f, S) \in Nat
<1>. DEFINE z == [x \in S \ {y} |-> 0]
            rest == SumFunctionOnSet(f, S \ {y})
<1>1. IsFiniteSet(S \ {y})
  BY FS_RemoveElement
<1>2. SumFunctionOnSet(z, S \ {y}) = 0
  BY <1>1, SumOfZeros
<1>3. \A x \in S \ {y} : z[x] \in Int /\ f[x] \in Int /\ z[x] <= f[x]
  OBVIOUS
<1>. HIDE DEF z
<1>4. SumFunctionOnSet(z, S \ {y}) <= rest /\ rest \in Int
  BY <1>1, <1>3, SumIsMonotonic, SumIsInt
<1>5. SumFunctionOnSet(f, S) = f[y] + rest
  BY SumTakesOut
<1>. HIDE DEF rest
<1>. QED
  BY <1>2, <1>4, <1>5

=============================================================================
