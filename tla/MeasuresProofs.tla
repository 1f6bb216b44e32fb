--------------------------- MODULE MeasuresProofs ----------------------------
(***************************************************************************)
(* Of every value of the constants: the verdicts of Measures on a run of   *)
(* S3, on a dark hop and on two protocols.  The first half is about the    *)
(* operators the module is built from (LatestOf, InOrder, MedianTwice);    *)
(* the theorems come last, and need of a state only its types.             *)
(***************************************************************************)
EXTENDS Measures, FiniteSetTheorems, TLAPS

-----------------------------------------------------------------------------
(* Naturals, and induction by the least counterexample *)

\* The least-number principle: the well-founded order of Nat in a form that needs no operator
\* as a parameter.  The least counterexample stands in for induction below.
LEMMA LeastNat ==
  ASSUME NEW T, T \subseteq Nat, T # {}
  PROVE  \E n \in T : \A m \in T : n <= m
<1>1. IsWellFoundedOn({p \in Nat \X Nat : p[1] < p[2]}, Nat)
  BY NatLessThanWellFounded DEF OpToRel
<1>2. PICK n \in T : \A m \in T : ~(<<m, n>> \in {p \in Nat \X Nat : p[1] < p[2]})
  BY <1>1, WFMin
<1>3. ASSUME NEW m \in T PROVE n <= m
  <2>1. ~(<<m, n>> \in {p \in Nat \X Nat : p[1] < p[2]})
    BY <1>2
  <2>2. m \in Nat /\ n \in Nat
    OBVIOUS
  <2> QED
    BY <2>1, <2>2
<1> QED
  BY <1>3

\* A bounded set of naturals has a greatest element.
LEMMA GreatestBelow ==
  ASSUME NEW T, NEW n \in Nat, T \subseteq 0..n, T # {}
  PROVE  \E g \in T : \A m \in T : m <= g
<1> DEFINE U == {n - t : t \in T}
<1>1. U \subseteq Nat /\ U # {}
  OBVIOUS
<1>2. PICK u \in U : \A v \in U : u <= v
  BY <1>1, LeastNat
<1>3. PICK g \in T : u = n - g
  OBVIOUS
<1>4. ASSUME NEW m \in T PROVE m <= g
  <2>1. u <= n - m
    BY <1>2
  <2> QED
    BY <2>1, <1>3
<1> QED
  BY <1>4

\* Max of a bounded set of naturals is its greatest element.
LEMMA MaxBelow ==
  ASSUME NEW T, NEW n \in Nat, T \subseteq 0..n, T # {}
  PROVE  Max(T) \in T /\ \A m \in T : m <= Max(T)
<1>1. PICK g \in T : \A m \in T : m <= g
  BY GreatestBelow
<1>2. \E x \in T : \A y \in T : x >= y
  BY <1>1
<1> DEFINE P(x) == x \in T /\ \A y \in T : x >= y
<1>3. P(CHOOSE x : P(x))
  <2>1. \E x : P(x)
    BY <1>2
  <2> QED
    BY <2>1
<1>4. Max(T) = CHOOSE x : P(x)
  BY DEF Max
<1>5. Max(T) \in T /\ \A y \in T : Max(T) >= y
  BY <1>3, <1>4
<1> QED
  BY <1>5

\* Min of a set of naturals is its least element.
LEMMA MinNat ==
  ASSUME NEW T, T \subseteq Nat, T # {}
  PROVE  Min(T) \in T /\ \A m \in T : Min(T) <= m
<1>1. \E x \in T : \A y \in T : x <= y
  BY LeastNat
<1> QED
  BY <1>1 DEF Min

-----------------------------------------------------------------------------
(* Sorting: InOrder, for any strict total order *)

\* R: pairs, of which the first comes before the second.
StrictTotal(S, R) ==
  /\ \A i \in S : <<i, i>> \notin R
  /\ \A i, j, k \in S : <<i, j>> \in R /\ <<j, k>> \in R => <<i, k>> \in R
  /\ \A i, j \in S : i # j => <<i, j>> \in R \/ <<j, i>> \in R

Below(S, R, i) == {j \in S : <<j, i>> \in R}

\* The rank of a row in a strict order of S is one of 0..Cardinality(S) - 1.
LEMMA RankBelow ==
  ASSUME NEW S, IsFiniteSet(S), NEW R, StrictTotal(S, R), NEW i \in S
  PROVE  /\ IsFiniteSet(Below(S, R, i))
         /\ Cardinality(Below(S, R, i)) \in 0..Cardinality(S) - 1
<1> DEFINE B == Below(S, R, i)
<1>1. B \in SUBSET S /\ i \notin B
  BY DEF Below, StrictTotal
<1>2. IsFiniteSet(B) /\ Cardinality(B) <= Cardinality(S) /\ Cardinality(B) # Cardinality(S)
  BY <1>1, FS_Subset
<1>3. Cardinality(B) \in Nat /\ Cardinality(S) \in Nat
  BY <1>2, FS_CardinalityType
<1> QED
  BY <1>2, <1>3

\* A row that comes before another has the smaller rank.
LEMMA RankGrows ==
  ASSUME NEW S, IsFiniteSet(S), NEW R, StrictTotal(S, R), NEW i \in S, NEW j \in S,
         <<i, j>> \in R
  PROVE  Cardinality(Below(S, R, i)) < Cardinality(Below(S, R, j))
<1> DEFINE A == Below(S, R, i)
           B == Below(S, R, j)
<1>1. A \in SUBSET B
  BY DEF Below, StrictTotal
<1>2. i \in B /\ i \notin A
  BY DEF Below, StrictTotal
<1>3. IsFiniteSet(B) /\ Cardinality(B) \in Nat
  BY RankBelow
<1>4. Cardinality(A) \in Nat
  BY RankBelow
<1>5. Cardinality(A) <= Cardinality(B) /\ Cardinality(B) # Cardinality(A)
  BY <1>1, <1>2, <1>3, FS_Subset
<1> QED
  BY <1>3, <1>4, <1>5

\* Every rank is taken: by the pigeonhole principle, as no two rows share one.
LEMMA RankTaken ==
  ASSUME NEW S, IsFiniteSet(S), NEW R, StrictTotal(S, R), NEW k \in 1..Cardinality(S)
  PROVE  \E i \in S : Cardinality(Below(S, R, i)) = k - 1
<1> DEFINE n == Cardinality(S)
           rank == [i \in S |-> Cardinality(Below(S, R, i))]
<1>1. n \in Nat
  BY FS_CardinalityType
<1>2. rank \in [S -> 0..n - 1]
  BY RankBelow
<1>3. ASSUME NEW i \in S, NEW j \in S, rank[i] = rank[j] PROVE i = j
  <2> SUFFICES ASSUME i # j PROVE FALSE
    OBVIOUS
  <2>1. <<i, j>> \in R \/ <<j, i>> \in R
    BY DEF StrictTotal
  <2>2. rank[i] < rank[j] \/ rank[j] < rank[i]
    BY <2>1, RankGrows
  <2> QED
    BY <2>2, <1>2, <1>3
<1>4. rank \in Injection(S, 0..n - 1)
  BY <1>2, <1>3 DEF Injection, IsInjective
<1>5. IsFiniteSet(0..n - 1) /\ Cardinality(0..n - 1) = n
  <2> HIDE DEF n
  <2>1. 0 \in Int /\ n - 1 \in Int
    BY <1>1
  <2>2. IsFiniteSet(0..n - 1)
        /\ Cardinality(0..n - 1) = IF 0 > n - 1 THEN 0 ELSE (n - 1) - 0 + 1
    BY <2>1, FS_Interval
  <2> QED
    BY <2>2, <1>1
<1>6. rank \in Surjection(S, 0..n - 1)
  BY <1>4, <1>5, FS_Injection
<1>7. k - 1 \in 0..n - 1
  BY <1>1
<1>8. PICK i \in S : rank[i] = k - 1
  BY <1>6, <1>7 DEF Surjection
<1> QED
  BY <1>8

\* The k-th row of InOrder is the one with k - 1 rows before it.
LEMMA InOrderRanks ==
  ASSUME NEW S, IsFiniteSet(S), NEW R, StrictTotal(S, R)
  PROVE  \A k \in 1..Cardinality(S) :
           InOrder(S, R)[k] \in S /\ Cardinality(Below(S, R, InOrder(S, R)[k])) = k - 1
<1> SUFFICES ASSUME NEW k \in 1..Cardinality(S)
             PROVE  InOrder(S, R)[k] \in S /\ Cardinality(Below(S, R, InOrder(S, R)[k])) = k - 1
  OBVIOUS
<1>1. \E i \in S : Cardinality({j \in S : <<j, i>> \in R}) = k - 1
  BY RankTaken DEF Below
<1>2. InOrder(S, R)[k] = CHOOSE i \in S : Cardinality({j \in S : <<j, i>> \in R}) = k - 1
  BY DEF InOrder
<1> QED
  BY <1>1, <1>2 DEF Below

\* InOrder lists every row of S once, and as the order says: what sorted() promises.
LEMMA InOrderBijection ==
  ASSUME NEW S, IsFiniteSet(S), NEW R, StrictTotal(S, R)
  PROVE  /\ Cardinality(S) \in Nat
         /\ InOrder(S, R) \in [1..Cardinality(S) -> S]
         /\ \A i \in S : \E k \in 1..Cardinality(S) : InOrder(S, R)[k] = i
         /\ \A a, b \in 1..Cardinality(S) :
              <<InOrder(S, R)[a], InOrder(S, R)[b]>> \in R <=> a < b
<1> DEFINE n == Cardinality(S)
           order == InOrder(S, R)
           rank(i) == Cardinality(Below(S, R, i))
<1>1. n \in Nat
  BY FS_CardinalityType
<1>2. \A k \in 1..n : order[k] \in S /\ rank(order[k]) = k - 1
  BY InOrderRanks
<1>3. order \in [1..n -> S]
  <2> DEFINE pick(k) == CHOOSE i \in S : Cardinality({j \in S : <<j, i>> \in R}) = k - 1
  <2>1. order = [k \in 1..n |-> pick(k)]
    BY DEF InOrder
  <2> HIDE DEF order, pick
  <2> QED
    BY <1>2, <2>1
<1>4. ASSUME NEW i \in S, NEW j \in S PROVE <<i, j>> \in R <=> rank(i) < rank(j)
  <2>1. rank(i) \in Nat /\ rank(j) \in Nat
    BY RankBelow, <1>1
  <2>2. <<i, j>> \in R => rank(i) < rank(j)
    BY RankGrows
  <2>3. <<j, i>> \in R => rank(j) < rank(i)
    BY RankGrows
  <2>4. i = j \/ <<i, j>> \in R \/ <<j, i>> \in R
    BY DEF StrictTotal
  <2> QED
    BY <2>1, <2>2, <2>3, <2>4
<1>5. ASSUME NEW a \in 1..n, NEW b \in 1..n PROVE <<order[a], order[b]>> \in R <=> a < b
  <2>1. <<order[a], order[b]>> \in R <=> rank(order[a]) < rank(order[b])
    BY <1>2, <1>4
  <2>2. rank(order[a]) = a - 1 /\ rank(order[b]) = b - 1
    BY <1>2
  <2> QED
    BY <2>1, <2>2, <1>1
<1>6. ASSUME NEW i \in S PROVE \E k \in 1..n : order[k] = i
  <2>1. rank(i) \in 0..n - 1
    BY RankBelow
  <2> DEFINE k == rank(i) + 1
  <2>2. k \in 1..n /\ k - 1 = rank(i)
    BY <2>1, <1>1
  <2>3. order[k] \in S /\ rank(order[k]) = rank(i)
    BY <2>2, <1>2
  <2>4. ~(<<i, order[k]>> \in R) /\ ~(<<order[k], i>> \in R)
    <3>1. ~(rank(i) < rank(order[k])) /\ ~(rank(order[k]) < rank(i))
      BY <2>1, <2>3, <1>1
    <3> QED
      BY <3>1, <2>3, <1>4
  <2>5. order[k] = i
    BY <2>3, <2>4 DEF StrictTotal
  <2> QED
    BY <2>2, <2>5
<1> QED
  BY <1>1, <1>3, <1>5, <1>6

-----------------------------------------------------------------------------
(* The median *)

\* Values, then row numbers, order the rows of a series strictly.
LEMMA ByValueTotal ==
  ASSUME NEW values, DOMAIN values \subseteq Int, \A i \in DOMAIN values : values[i] \in Int
  PROVE  StrictTotal(DOMAIN values, ByValue(values))
<1> DEFINE S == DOMAIN values
<1>1. ASSUME NEW i \in S, NEW j \in S
      PROVE  <<i, j>> \in ByValue(values)
               <=> values[i] < values[j] \/ (values[i] = values[j] /\ i < j)
  BY DEF ByValue
<1>2. \A i \in S : i \in Int /\ values[i] \in Int
  OBVIOUS
<1>3. \A i \in S : <<i, i>> \notin ByValue(values)
  BY <1>1, <1>2
<1>4. \A i, j \in S : i # j => <<i, j>> \in ByValue(values) \/ <<j, i>> \in ByValue(values)
  BY <1>1, <1>2
<1>5. ASSUME NEW i \in S, NEW j \in S, NEW k \in S,
             <<i, j>> \in ByValue(values), <<j, k>> \in ByValue(values)
      PROVE  <<i, k>> \in ByValue(values)
  BY <1>1, <1>2, <1>5
<1> QED
  BY <1>3, <1>4, <1>5 DEF StrictTotal

\* The rows whose value is at most x.
UpTo(values, x) == {i \in DOMAIN values : values[i] <= x}

\* The k-th value of the sorted series is at most x when at least k values are.
LEMMA NthBound ==
  ASSUME NEW values, DOMAIN values \subseteq Int, \A i \in DOMAIN values : values[i] \in Int,
         IsFiniteSet(DOMAIN values),
         NEW k \in 1..Cardinality(DOMAIN values), NEW x \in Int
  PROVE  values[InOrder(DOMAIN values, ByValue(values))[k]] <= x
           <=> Cardinality(UpTo(values, x)) >= k
<1> DEFINE S == DOMAIN values
           R == ByValue(values)
           i == InOrder(S, R)[k]
           L == UpTo(values, x)
           B == Below(S, R, i)
<1>1. StrictTotal(S, R)
  BY ByValueTotal
<1>2. i \in S /\ Cardinality(B) = k - 1
  BY <1>1, InOrderRanks
<1>3. IsFiniteSet(B) /\ i \notin B /\ IsFiniteSet(L) /\ L \in SUBSET S
  <2>1. L \in SUBSET S
    BY DEF UpTo
  <2>2. i \notin B
    BY <1>1, <1>2 DEF Below, StrictTotal
  <2> QED
    BY <1>1, <1>2, <2>1, <2>2, RankBelow, FS_Subset
<1>4. Cardinality(L) \in Nat /\ k \in Nat
  BY <1>3, FS_CardinalityType
<1>5. \A j \in S : j \in B <=> values[j] < values[i] \/ (values[j] = values[i] /\ j < i)
  BY <1>2 DEF Below, ByValue
<1>6. CASE values[i] <= x
  <2>1. B \cup {i} \in SUBSET L
    <3>1. ASSUME NEW j \in B PROVE j \in L
      <4>1. j \in S
        BY DEF Below
      <4>2. values[j] <= values[i]
        BY <4>1, <1>2, <1>5
      <4> QED
        BY <4>1, <4>2, <1>2, <1>6 DEF UpTo
    <3> QED
      BY <3>1, <1>2, <1>6 DEF UpTo
  <2>2. IsFiniteSet(B \cup {i}) /\ Cardinality(B \cup {i}) = Cardinality(B) + 1
    <3> HIDE DEF B, i
    <3> QED
      BY <1>3, FS_AddElement
  <2>3. Cardinality(B \cup {i}) <= Cardinality(L)
    BY <2>1, <1>3, FS_Subset
  <2> QED
    BY <2>2, <2>3, <1>2, <1>4, <1>6
<1>7. CASE ~(values[i] <= x)
  <2>1. L \in SUBSET B
    BY <1>2, <1>5, <1>7 DEF UpTo
  <2>2. Cardinality(L) <= k - 1
    BY <2>1, <1>2, <1>3, FS_Subset
  <2> QED
    BY <2>2, <1>4, <1>7
<1> QED
  BY <1>6, <1>7

\* lo and hi are the two values whose sum is twice the median.
Middle(values, lo, hi) ==
  LET n == Cardinality(DOMAIN values)
  IN  /\ MedianTwice(values) = lo + hi
      /\ lo \in Int /\ hi \in Int /\ lo <= hi
      /\ \E i \in DOMAIN values : lo = values[i]
      /\ \E i \in DOMAIN values : hi = values[i]
      /\ \A x \in Int : lo <= x <=> Cardinality(UpTo(values, x)) >= (n + 1) \div 2
      /\ \A x \in Int : hi <= x <=> Cardinality(UpTo(values, x)) >= n \div 2 + 1

\* median(): the two middle values of a series that is not empty.
LEMMA MedianMiddle ==
  ASSUME NEW values, DOMAIN values \subseteq Int, \A i \in DOMAIN values : values[i] \in Int,
         IsFiniteSet(DOMAIN values), DOMAIN values # {}
  PROVE  \E lo, hi : Middle(values, lo, hi)
<1> DEFINE S == DOMAIN values
           n == Cardinality(S)
           v == InOrder(S, ByValue(values))
           lo == values[v[(n + 1) \div 2]]
           hi == values[v[n \div 2 + 1]]
<1>1. n \in Nat /\ n # 0
  BY FS_CardinalityType, FS_EmptySet
<1>2. (n + 1) \div 2 \in 1..n /\ n \div 2 + 1 \in 1..n /\ (n + 1) \div 2 <= n \div 2 + 1
  BY <1>1
<1>3. v \in [1..n -> S]
  BY ByValueTotal, InOrderBijection
<1>4. v[(n + 1) \div 2] \in S /\ v[n \div 2 + 1] \in S
  BY <1>2, <1>3
<1>5. \A x \in Int : lo <= x <=> Cardinality(UpTo(values, x)) >= (n + 1) \div 2
  BY <1>2, NthBound
<1>6. \A x \in Int : hi <= x <=> Cardinality(UpTo(values, x)) >= n \div 2 + 1
  BY <1>2, NthBound
<1>7. lo \in Int /\ hi \in Int
  BY <1>4
<1>8. lo <= hi
  <2>1. Cardinality(UpTo(values, hi)) >= n \div 2 + 1
    BY <1>6, <1>7
  <2>2. Cardinality(UpTo(values, hi)) \in Nat
    <3>1. UpTo(values, hi) \in SUBSET S
      BY DEF UpTo
    <3> QED
      BY <3>1, FS_Subset, FS_CardinalityType
  <2>3. Cardinality(UpTo(values, hi)) >= (n + 1) \div 2
    BY <2>1, <2>2, <1>1, <1>2
  <2> QED
    BY <2>3, <1>5, <1>7
<1>9. MedianTwice(values) = lo + hi
  BY DEF MedianTwice
<1> QED
  BY <1>4, <1>5, <1>6, <1>7, <1>8, <1>9 DEF Middle

-----------------------------------------------------------------------------
(* The rows of a baseline *)

\* LIMIT n: rows of the table, and all of them when there are no more than n.
LEMMA LatestSubset ==
  ASSUME NEW S, IsFiniteSet(S), S \subseteq Nat, NEW n \in Nat
  PROVE  /\ LatestOf(S, n) \subseteq S /\ IsFiniteSet(LatestOf(S, n))
         /\ Cardinality(S) \in Nat
         /\ Cardinality(S) <= n => LatestOf(S, n) = S
<1>1. LatestOf(S, n) \in SUBSET S
  BY DEF LatestOf
<1>2. IsFiniteSet(LatestOf(S, n)) /\ Cardinality(S) \in Nat
  BY <1>1, FS_Subset, FS_CardinalityType
<1>3. ASSUME Cardinality(S) <= n, NEW i \in S
      PROVE  Cardinality({j \in S : j > i}) < n
  <2> DEFINE A == {j \in S : j > i}
  <2>1. A \in SUBSET S /\ i \notin A
    OBVIOUS
  <2>2. IsFiniteSet(A) /\ Cardinality(A) <= Cardinality(S) /\ Cardinality(A) # Cardinality(S)
    <3> HIDE DEF A
    <3> QED
      BY <2>1, FS_Subset
  <2>3. Cardinality(A) \in Nat
    BY <2>2, FS_CardinalityType
  <2> QED
    BY <2>2, <2>3, <1>2, <1>3
<1>4. Cardinality(S) <= n => LatestOf(S, n) = S
  BY <1>3 DEF LatestOf
<1> QED
  BY <1>1, <1>2, <1>4

\* A newer row takes one place of the LIMIT and leaves n - 1 to the rows before it.
LEMMA LatestAppended ==
  ASSUME NEW S, IsFiniteSet(S), S \subseteq Nat, NEW c \in Nat, \A i \in S : i < c,
         NEW n \in Nat \ {0}
  PROVE  LatestOf(S \cup {c}, n) = LatestOf(S, n - 1) \cup {c}
<1>1. ASSUME NEW i \in S
      PROVE  Cardinality({j \in S \cup {c} : j > i}) < n
               <=> Cardinality({j \in S : j > i}) < n - 1
  <2> DEFINE A == {j \in S : j > i}
  <2>1. {j \in S \cup {c} : j > i} = A \cup {c}
    OBVIOUS
  <2>2. A \in SUBSET S /\ c \notin A
    OBVIOUS
  <2> HIDE DEF A
  <2>3. IsFiniteSet(A) /\ Cardinality(A) \in Nat
    BY <2>2, FS_Subset, FS_CardinalityType
  <2>4. Cardinality(A \cup {c}) = Cardinality(A) + 1
    BY <2>2, <2>3, FS_AddElement
  <2>5. Cardinality(A \cup {c}) < n <=> Cardinality(A) < n - 1
    BY <2>3, <2>4
  <2> QED
    BY <2>1, <2>5 DEF A
<1>2. {j \in S \cup {c} : j > c} = {}
  <2>1. ASSUME NEW j \in S \cup {c} PROVE ~(j > c)
    <3>1. j \in Nat /\ (j = c \/ j < c)
      OBVIOUS
    <3> QED
      BY <3>1
  <2> QED
    BY <2>1
<1>3. Cardinality({j \in S \cup {c} : j > c}) < n
  BY <1>2, FS_EmptySet
<1>4. ASSUME NEW i \in S \cup {c}
      PROVE  i \in LatestOf(S \cup {c}, n) <=> i \in LatestOf(S, n - 1) \cup {c}
  <2>1. CASE i = c
    BY <1>3, <2>1 DEF LatestOf
  <2>2. CASE i \in S
    <3>1. i # c
      BY <2>2
    <3>2. i \in LatestOf(S \cup {c}, n) <=> Cardinality({j \in S \cup {c} : j > i}) < n
      BY <2>2 DEF LatestOf
    <3>3. i \in LatestOf(S, n - 1) <=> Cardinality({j \in S : j > i}) < n - 1
      BY <2>2 DEF LatestOf
    <3> QED
      BY <1>1, <2>2, <3>1, <3>2, <3>3
  <2> QED
    BY <2>1, <2>2
<1>5. LatestOf(S \cup {c}, n) \subseteq S \cup {c} /\ LatestOf(S, n - 1) \cup {c} \subseteq S \cup {c}
  BY DEF LatestOf
<1> DEFINE T == LatestOf(S \cup {c}, n)
           U == LatestOf(S, n - 1) \cup {c}
<1>6. \A i \in S \cup {c} : i \in T <=> i \in U
  BY <1>4
<1>7. T \subseteq S \cup {c} /\ U \subseteq S \cup {c}
  BY <1>5
<1> HIDE DEF T, U
<1>8. T = U
  BY <1>6, <1>7
<1> QED
  BY <1>8 DEF T, U

\* What a verdict other than ok means for a run that is part of its own baseline: it is slower
\* than the lower middle value, which more than half of the other runs do not exceed.
LEMMA JudgedSlower ==
  ASSUME NEW values, DOMAIN values \subseteq Int, \A i \in DOMAIN values : values[i] \in Nat \ {0},
         IsFiniteSet(DOMAIN values), NEW c \in DOMAIN values,
         NEW others, others = [i \in DOMAIN values \ {c} |-> values[i]],
         Severity(values[c], MedianTwice(values)) # "ok"
  PROVE  \E lo, hi \in Int :
           /\ MedianTwice(values) = lo + hi /\ lo <= hi
           /\ lo < values[c] /\ 3 * (lo + hi) <= 4 * values[c]
           /\ Cardinality(UpTo(others, lo)) >= Cardinality(DOMAIN others) \div 2 + 1
<1> DEFINE S == DOMAIN values
           D == DOMAIN others
           ms == values[c]
<1>1. PICK lo, hi : Middle(values, lo, hi)
  BY MedianMiddle
<1>2. MedianTwice(values) = lo + hi /\ lo \in Int /\ hi \in Int /\ lo <= hi
  BY <1>1 DEF Middle
<1>3. ms \in Nat \ {0} /\ MinDelta \in Nat
  BY MeasuresAssumption
<1>4. 3 * (lo + hi) <= 4 * ms
  <2>1. 2 * ms >= 3 * (lo + hi) \/ 4 * ms >= 3 * (lo + hi)
    BY <1>2 DEF Severity
  <2> HIDE DEF ms
  <2> QED
    BY <2>1, <1>2, <1>3
<1>5. lo < ms
  <2> HIDE DEF ms
  <2> QED
    BY <1>2, <1>3, <1>4
<1>6. D = S \ {c} /\ IsFiniteSet(D) /\ Cardinality(D) \in Nat /\ Cardinality(S) = Cardinality(D) + 1
  <2>1. D = S \ {c}
    OBVIOUS
  <2>2. Cardinality(S) \in Nat
    BY FS_CardinalityType
  <2>3. IsFiniteSet(D) /\ Cardinality(D) = Cardinality(S) - 1
    BY <2>1, FS_RemoveElement
  <2>4. Cardinality(D) \in Nat
    BY <2>3, FS_CardinalityType
  <2> QED
    BY <2>1, <2>2, <2>3, <2>4
<1>7. UpTo(others, lo) = UpTo(values, lo)
  <2>1. c \notin UpTo(values, lo)
    BY <1>2, <1>3, <1>5 DEF UpTo
  <2>2. \A i \in D : others[i] = values[i]
    OBVIOUS
  <2> QED
    BY <1>6, <2>1, <2>2 DEF UpTo
<1>8. Cardinality(UpTo(values, lo)) >= (Cardinality(S) + 1) \div 2
  BY <1>1, <1>2 DEF Middle
<1>9. Cardinality(UpTo(others, lo)) >= Cardinality(D) \div 2 + 1
  <2>1. (Cardinality(D) + 1 + 1) \div 2 = Cardinality(D) \div 2 + 1
    BY <1>6
  <2> QED
    BY <1>6, <1>7, <1>8, <2>1
<1> QED
  BY <1>2, <1>4, <1>5, <1>9

-----------------------------------------------------------------------------
(* S3 *)

\* The cardinality of 1..n.
LEMMA CardinalityTo ==
  ASSUME NEW n \in Nat
  PROVE  IsFiniteSet(1..n) /\ Cardinality(1..n) = n
<1>1. 1 \in Int /\ n \in Int
  OBVIOUS
<1>2. IsFiniteSet(1..n) /\ Cardinality(1..n) = IF 1 > n THEN 0 ELSE n - 1 + 1
  BY <1>1, FS_Interval
<1> QED
  BY <1>2

\* The inductive invariant of the two tables.
TypeOK == s3 \in Seq(S3Run) /\ mtr \in Seq(MtrRun)

InSequence == \A i, j \in DOMAIN s3 : i <= j => s3[i].at <= s3[j].at

SeriesInv == TypeOK /\ InSequence

\* The rows of s3_runs, and the sets of row numbers the definitions are about.
LEMMA S3Rows ==
  ASSUME TypeOK
  PROVE  /\ Len(s3) \in Nat /\ DOMAIN s3 = 1..Len(s3)
         /\ \A i \in DOMAIN s3 : s3[i].at \in Nat /\ s3[i].ms \in Times \cup {None}
         /\ \A S : S \subseteq DOMAIN s3 => IsFiniteSet(S) /\ Cardinality(S) \in 0..Len(s3)
         /\ \A i \in Successful : s3[i].ms \in Nat \ {0}
<1>1. Len(s3) \in Nat /\ DOMAIN s3 = 1..Len(s3)
  BY DEF TypeOK
<1>2. \A i \in DOMAIN s3 : s3[i].at \in Nat /\ s3[i].ms \in Times \cup {None}
  <2>1. \A i \in DOMAIN s3 : s3[i] \in S3Run
    BY DEF TypeOK
  <2> QED
    BY <2>1 DEF S3Run
<1>3. ASSUME NEW S, S \subseteq DOMAIN s3
      PROVE  IsFiniteSet(S) /\ Cardinality(S) \in 0..Len(s3)
  <2>1. IsFiniteSet(1..Len(s3)) /\ Cardinality(1..Len(s3)) = Len(s3)
    BY <1>1, CardinalityTo
  <2>2. S \in SUBSET (1..Len(s3))
    BY <1>1, <1>3
  <2>3. IsFiniteSet(S) /\ Cardinality(S) <= Len(s3)
    BY <2>1, <2>2, FS_Subset
  <2> QED
    BY <2>3, <1>1, FS_CardinalityType
<1>4. \A i \in Successful : s3[i].ms \in Nat \ {0}
  BY <1>2, MeasuresAssumption DEF Successful, Ok
<1> QED
  BY <1>1, <1>2, <1>3, <1>4

\* _http_degradation is the milder the slower the baseline.
LEMMA SeverityMilder ==
  ASSUME NEW ms \in Int, NEW a \in Int, NEW b \in Int, a <= b
  PROVE  Louder[Severity(ms, b)] <= Louder[Severity(ms, a)]
<1>1. MinDelta \in Nat
  BY MeasuresAssumption
<1>2. CASE 2 * ms - b < 2 * MinDelta
  <2>1. Severity(ms, b) = "ok"
    BY <1>2 DEF Severity
  <2>2. Severity(ms, a) \in {"ok", "warning", "critical"}
    BY DEF Severity
  <2> QED
    BY <2>1, <2>2 DEF Louder
<1>3. CASE ~(2 * ms - b < 2 * MinDelta)
  <2>1. ~(2 * ms - a < 2 * MinDelta)
    BY <1>1, <1>3
  <2>2. (2 * ms >= 3 * b => 2 * ms >= 3 * a) /\ (4 * ms >= 3 * b => 4 * ms >= 3 * a)
    OBVIOUS
  <2> QED
    BY <1>3, <2>1, <2>2 DEF Severity, Louder
<1> QED
  BY <1>2, <1>3

\* The verdicts of SpikesJudged, of any typed table.
LEMMA SpikesJudgedOfTypes ==
  ASSUME TypeOK
  PROVE  SpikesJudged
<1> SUFFICES ASSUME s3 # <<>>, Ok(Current)
             PROVE  LET others == LatestOf(Earlier, BaselineN - 1)
                        slower == {i \in others : 2 * Current.ms >= 3 * s3[i].ms}
                    IN  /\ others # {} =>
                             Louder[S3Verdict] <= Louder[Severity(Current.ms, MsTwice(others))]
                        /\ Cardinality(Earlier) < BaselineN => Louder[S3Verdict] <= Louder[DaemonVerdict]
                        /\ (/\ Cardinality(others) >= 2
                            /\ \A i \in others : Current.ms >= 3 * s3[i].ms
                                                   /\ Current.ms - s3[i].ms >= MinDelta)
                             => S3Verdict = "critical"
                        /\ S3Verdict # "ok" => 2 * Cardinality(slower) >= Cardinality(others)
  BY DEF SpikesJudged
<1> DEFINE c == Len(s3)
           ms == Current.ms
           O == LatestOf(Earlier, BaselineN - 1)
           S == LatestOf(Successful, BaselineN)
           slower == {i \in O : 2 * ms >= 3 * s3[i].ms}
           values == [i \in S |-> s3[i].ms]
           others == [i \in O |-> s3[i].ms]
<1>1. c \in Nat /\ c \in DOMAIN s3 /\ DOMAIN s3 = 1..c /\ Current = s3[c]
  BY S3Rows DEF Current, TypeOK
<1>2. Successful \subseteq 1..c /\ c \in Successful /\ Successful = Earlier \cup {c}
  BY <1>1 DEF Successful, Earlier
<1>3. Earlier \subseteq 1..c /\ IsFiniteSet(Earlier) /\ (\A i \in Earlier : i < c)
  <2>1. Earlier \subseteq 1..c /\ c \notin Earlier
    BY <1>2 DEF Earlier
  <2>2. IsFiniteSet(Earlier)
    BY <1>1, <2>1, S3Rows
  <2> QED
    BY <2>1, <2>2, <1>1
<1>4. BaselineN \in Nat \ {0} /\ BaselineN - 1 \in Nat /\ MinDelta \in Nat
  BY MeasuresAssumption
<1>5. S = O \cup {c} /\ O \subseteq Earlier /\ IsFiniteSet(O) /\ IsFiniteSet(S)
  <2>1. Earlier \subseteq Nat
    BY <1>1, <1>3
  <2>2. LatestOf(Earlier \cup {c}, BaselineN) = O \cup {c}
    BY <1>1, <1>3, <1>4, <2>1, LatestAppended
  <2>3. O \subseteq Earlier /\ IsFiniteSet(O)
    BY <1>3, <1>4, <2>1, LatestSubset
  <2>4. IsFiniteSet(O \cup {c})
    <3> HIDE DEF O, c
    <3> QED
      BY <2>3, FS_AddElement
  <2> QED
    BY <1>2, <2>2, <2>3, <2>4
<1>6. \A i \in S : s3[i].ms \in Nat \ {0}
  BY <1>2, <1>3, <1>5, S3Rows
<1>7. S3Verdict = Severity(ms, MedianTwice(values)) /\ ms = values[c] /\ ms \in Nat \ {0}
  BY <1>1, <1>5, <1>6 DEF S3Verdict, BaselineTwice, MsTwice
<1>8. /\ DOMAIN values \subseteq Int /\ IsFiniteSet(DOMAIN values) /\ c \in DOMAIN values
      /\ \A i \in DOMAIN values : values[i] \in Nat \ {0}
      /\ others = [i \in DOMAIN values \ {c} |-> values[i]]
  <2>1. S \subseteq Int /\ O = S \ {c}
    <3>1. c \notin O
      BY <1>1, <1>3, <1>5
    <3>2. c \in Int /\ Earlier \subseteq Int
      BY <1>1, <1>3
    <3>3. O \subseteq Int
      BY <3>2, <1>5
    <3> HIDE DEF O, S, c
    <3> QED
      BY <3>1, <3>2, <3>3, <1>5
  <2> QED
    BY <1>5, <1>6, <2>1
<1>9. /\ DOMAIN others = O /\ DOMAIN others \subseteq Int /\ IsFiniteSet(DOMAIN others)
      /\ \A i \in DOMAIN others : others[i] \in Nat \ {0}
      /\ Cardinality(O) \in Nat
  BY <1>5, <1>6, <1>8, FS_CardinalityType
<1>a. ASSUME S3Verdict # "ok"
      PROVE  \E lo, hi \in Int :
               /\ MedianTwice(values) = lo + hi /\ lo <= hi
               /\ lo < ms /\ 3 * (lo + hi) <= 4 * ms
               /\ Cardinality(UpTo(others, lo)) >= Cardinality(O) \div 2 + 1
  <2> HIDE DEF values, others, S, O, ms
  <2> QED
    BY <1>7, <1>8, <1>9, <1>a, JudgedSlower
<1>b. S3Verdict # "ok" => 2 * Cardinality(slower) >= Cardinality(O)
  <2> SUFFICES ASSUME S3Verdict # "ok" PROVE 2 * Cardinality(slower) >= Cardinality(O)
    OBVIOUS
  <2>1. PICK lo, hi \in Int : /\ lo <= hi /\ 3 * (lo + hi) <= 4 * ms
                              /\ Cardinality(UpTo(others, lo)) >= Cardinality(O) \div 2 + 1
    BY <1>a
  <2>2. UpTo(others, lo) \in SUBSET slower
    <3>1. ASSUME NEW i \in UpTo(others, lo) PROVE i \in slower
      <4>1. i \in O /\ s3[i].ms <= lo /\ s3[i].ms \in Nat
        BY <1>5, <1>6 DEF UpTo
      <4>2. 2 * ms >= 3 * s3[i].ms
        <5> HIDE DEF ms
        <5> QED
          BY <4>1, <2>1, <1>7
      <4> QED
        BY <4>1, <4>2
    <3> QED
      BY <3>1
  <2>3. slower \in SUBSET O
    OBVIOUS
  <2> HIDE DEF slower, O, others
  <2>4. IsFiniteSet(slower) /\ Cardinality(slower) \in Nat
    BY <2>3, <1>5, FS_Subset, FS_CardinalityType
  <2>5. IsFiniteSet(UpTo(others, lo)) /\ Cardinality(UpTo(others, lo)) <= Cardinality(slower)
    BY <2>2, <2>4, FS_Subset
  <2>6. Cardinality(UpTo(others, lo)) \in Nat
    BY <2>5, FS_CardinalityType
  <2> QED
    BY <2>1, <2>4, <2>5, <2>6, <1>9
<1>c. ASSUME Cardinality(O) >= 2,
             \A i \in O : ms >= 3 * s3[i].ms /\ ms - s3[i].ms >= MinDelta
      PROVE  S3Verdict = "critical"
  <2>1. PICK lo, hi : Middle(values, lo, hi)
    <3> HIDE DEF values
    <3> QED
      BY <1>8, MedianMiddle
  <2>2. UpTo(values, ms - 1) = O
    <3>1. c \notin UpTo(values, ms - 1)
      BY <1>7 DEF UpTo
    <3>2. ASSUME NEW i \in O PROVE values[i] <= ms - 1
      <4>1. values[i] = s3[i].ms /\ s3[i].ms \in Nat \ {0} /\ ms >= 3 * s3[i].ms
        BY <1>5, <1>6, <1>c
      <4> HIDE DEF ms
      <4> QED
        BY <4>1, <1>7
    <3> QED
      BY <3>1, <3>2, <1>5 DEF UpTo
  <2>3. Cardinality(DOMAIN values) = Cardinality(O) + 1
    <3>1. DOMAIN values = O \cup {c} /\ c \notin O
      BY <1>3, <1>5
    <3> HIDE DEF values, O, c
    <3> QED
      BY <3>1, <1>5, FS_AddElement
  <2>4. Cardinality(O) >= (Cardinality(O) + 1) \div 2 + 1
    BY <1>9, <1>c
  <2>5. lo \in Int /\ hi \in Int /\ lo <= hi /\ MedianTwice(values) = lo + hi
    BY <2>1 DEF Middle
  <2>6. hi <= ms - 1
    BY <2>1, <2>2, <2>3, <2>4, <1>7 DEF Middle
  <2>7. (\E i \in S : lo = s3[i].ms) /\ (\E i \in S : hi = s3[i].ms)
    BY <2>1 DEF Middle
  <2>8. (\E i \in O : lo = s3[i].ms) /\ (\E i \in O : hi = s3[i].ms)
    BY <2>5, <2>6, <2>7, <1>1, <1>5, <1>7
  <2>9. ms >= 3 * lo /\ ms - lo >= MinDelta /\ ms >= 3 * hi /\ ms - hi >= MinDelta
    BY <2>8, <1>c
  <2>10. 2 * ms >= 3 * (lo + hi) /\ ~(2 * ms - (lo + hi) < 2 * MinDelta)
    <3> HIDE DEF ms
    <3> QED
      BY <2>5, <2>9, <1>4, <1>7
  <2> QED
    BY <2>5, <2>10, <1>7 DEF Severity
<1>d. ASSUME O # {}
      PROVE  Louder[S3Verdict] <= Louder[Severity(ms, MedianTwice(others))]
  <2>1. CASE S3Verdict = "ok"
    <3>1. Severity(ms, MedianTwice(others)) \in {"ok", "warning", "critical"}
      BY DEF Severity
    <3> QED
      BY <2>1, <3>1 DEF Louder
  <2>2. CASE S3Verdict # "ok"
    <3>1. PICK lo, hi \in Int :
               /\ MedianTwice(values) = lo + hi /\ lo <= hi
               /\ Cardinality(UpTo(others, lo)) >= Cardinality(O) \div 2 + 1
      BY <1>a, <2>2
    <3> HIDE DEF others, values, O, ms
    <3>2. PICK l, h : Middle(others, l, h)
      BY <1>9, <1>d, MedianMiddle
    <3>3. l \in Int /\ h \in Int /\ l <= h /\ MedianTwice(others) = l + h
      BY <3>2 DEF Middle
    <3>4. h <= lo
      BY <3>1, <3>2, <1>9 DEF Middle
    <3>5. l + h <= lo + hi
      BY <3>1, <3>3, <3>4
    <3> QED
      BY <3>1, <3>3, <3>5, <1>7, SeverityMilder
  <2> QED
    BY <2>1, <2>2
<1>e. O # {} => Louder[S3Verdict] <= Louder[Severity(ms, MsTwice(O))]
  BY <1>d DEF MsTwice
<1>f. ASSUME Cardinality(Earlier) < BaselineN
      PROVE  Louder[S3Verdict] <= Louder[DaemonVerdict]
  <2>1. O = Earlier /\ LatestOf(Earlier, BaselineN) = Earlier
    <3>1. Earlier \subseteq Nat /\ Cardinality(Earlier) \in Nat
      BY <1>1, <1>3, FS_CardinalityType
    <3>2. Cardinality(Earlier) <= BaselineN /\ Cardinality(Earlier) <= BaselineN - 1 /\ BaselineN \in Nat
      BY <1>4, <1>f, <3>1
    <3> QED
      BY <1>3, <1>4, <3>1, <3>2, LatestSubset
  <2>2. CASE Earlier # {}
    <3>1. DaemonVerdict = Severity(ms, MsTwice(O))
      BY <2>1, <2>2 DEF DaemonVerdict, BaselineTwice
    <3> QED
      BY <1>e, <2>1, <2>2, <3>1
  <2>3. CASE Earlier = {}
    <3>1. DaemonVerdict = "ok"
      BY <2>3 DEF DaemonVerdict
    <3>2. S3Verdict = "ok"
      <4> SUFFICES ASSUME S3Verdict # "ok" PROVE FALSE
        OBVIOUS
      <4>1. PICK lo \in Int : Cardinality(UpTo(others, lo)) >= Cardinality(O) \div 2 + 1
        BY <1>a
      <4>2. UpTo(others, lo) = {}
        BY <2>1, <2>3 DEF UpTo
      <4>3. Cardinality(UpTo(others, lo)) = 0
        BY <4>2, FS_EmptySet
      <4> QED
        BY <4>1, <4>3, <1>9
    <3> QED
      BY <3>1, <3>2 DEF Louder
  <2> QED
    BY <2>2, <2>3
<1> QED
  BY <1>b, <1>c, <1>e, <1>f

-----------------------------------------------------------------------------
(* Paths *)

\* The second hop of a path, when it has one, loses nothing or is dark.
LEMMA PathHops ==
  ASSUME NEW path \in Paths
  PROVE  /\ DOMAIN path \subseteq Int
         /\ Len(path) = 2 => 2 \in DOMAIN path
         /\ 2 \in DOMAIN path =>
              /\ path[2].loss \in {0, 100}
              /\ path[2].loss = 100 <=> path[2] = Dark
<1>1. CASE path = <<Lit>>
  BY <1>1
<1>2. ASSUME NEW hop \in {Lit, Slow, Elsewhere, Dark}, path = <<Lit, hop>>
      PROVE  /\ DOMAIN path = 1..2 /\ path[2] = hop
             /\ hop.loss \in {0, 100}
             /\ hop.loss = 100 <=> hop = Dark
  <2>1. DOMAIN path = 1..2 /\ path[2] = hop
    BY <1>2
  <2>2. Lit.loss = 0 /\ Slow.loss = 0 /\ Elsewhere.loss = 0 /\ Dark.loss = 100
    BY DEF Lit, Slow, Elsewhere, Dark
  <2> QED
    BY <2>1, <2>2, <1>2
<1> QED
  BY <1>1, <1>2 DEF Paths

\* The rows of runs, and the sets of row numbers of one protocol.
LEMMA MtrRows ==
  ASSUME TypeOK
  PROVE  /\ Len(mtr) \in Nat /\ DOMAIN mtr = 1..Len(mtr)
         /\ \A i \in DOMAIN mtr : mtr[i].hops \in Paths
         /\ \A proto : OfProto(proto) \subseteq Nat /\ IsFiniteSet(OfProto(proto))
<1>1. Len(mtr) \in Nat /\ DOMAIN mtr = 1..Len(mtr)
  BY DEF TypeOK
<1>2. \A i \in DOMAIN mtr : mtr[i] \in MtrRun
  BY DEF TypeOK
<1>3. \A i \in DOMAIN mtr : mtr[i].hops \in Paths
  BY <1>2 DEF MtrRun
<1>4. ASSUME NEW proto PROVE OfProto(proto) \subseteq Nat /\ IsFiniteSet(OfProto(proto))
  <2>1. OfProto(proto) \in SUBSET (1..Len(mtr))
    BY <1>1 DEF OfProto
  <2>2. IsFiniteSet(1..Len(mtr))
    BY <1>1, CardinalityTo
  <2> QED
    BY <1>1, <2>1, <2>2, FS_Subset
<1> QED
  BY <1>1, <1>3, <1>4

\* The median loss is 100 when more than half of the runs were dark, and only then.
LEMMA MedianOfLosses ==
  ASSUME NEW losses, DOMAIN losses \subseteq Int, IsFiniteSet(DOMAIN losses), DOMAIN losses # {},
         \A i \in DOMAIN losses : losses[i] \in {0, 100}
  PROVE  /\ MedianTwice(losses) \in {0, 100, 200}
         /\ MedianTwice(losses) = 200
              <=> 2 * Cardinality({i \in DOMAIN losses : losses[i] = 100}) > Cardinality(DOMAIN losses)
<1> DEFINE S == DOMAIN losses
           D == {i \in S : losses[i] = 100}
           Z == UpTo(losses, 0)
<1>1. PICK lo, hi : Middle(losses, lo, hi)
  BY MedianMiddle
<1>2. lo \in {0, 100} /\ hi \in {0, 100} /\ lo <= hi /\ MedianTwice(losses) = lo + hi
  BY <1>1 DEF Middle
<1>3. lo <= 0 <=> Cardinality(Z) >= (Cardinality(S) + 1) \div 2
  BY <1>1 DEF Middle
<1>4. Z = S \ D
  BY DEF UpTo
<1>5. D \in SUBSET S
  OBVIOUS
<1> HIDE DEF D, Z, S
<1>6. IsFiniteSet(D) /\ Cardinality(D) \in Nat /\ Cardinality(S) \in Nat
  BY <1>5, FS_Subset, FS_CardinalityType DEF S
<1>7. Cardinality(Z) = Cardinality(S) - Cardinality(D)
  <2>1. S \cap D = D
    BY <1>5
  <2>2. Cardinality(S \ D) = Cardinality(S) - Cardinality(S \cap D)
    BY FS_Difference DEF S
  <2> QED
    BY <2>1, <2>2, <1>4
<1>8. lo = 100 <=> 2 * Cardinality(D) > Cardinality(S)
  <2>1. Cardinality(S) - Cardinality(D) >= (Cardinality(S) + 1) \div 2
          <=> 2 * Cardinality(D) <= Cardinality(S)
    BY <1>6
  <2> QED
    BY <2>1, <1>2, <1>3, <1>6, <1>7
<1>9. MedianTwice(losses) = 200 <=> lo = 100
  BY <1>2
<1> QED
  BY <1>2, <1>8, <1>9 DEF D, S

\* The severity of a dark hop, of any typed table.
LEMMA DarkIsCriticalOfTypes ==
  ASSUME TypeOK
  PROVE  DarkIsCritical
<1> DEFINE c == Len(mtr)
           run == mtr[c]
           O == LatestOf(OfProto(run.proto) \ {c}, LastN)
           L == Listing(O, 2)
           dark == {i \in L : mtr[i].hops[2] = Dark}
           losses == [i \in L |-> mtr[i].hops[2].loss]
<1> SUFFICES ASSUME mtr # <<>>, Len(run.hops) = 2, run.hops[2] = Dark, L # {}
             PROVE  Judged[2] = "critical" <=> 2 * Cardinality(dark) <= Cardinality(L)
  BY DEF DarkIsCritical
<1>1. c \in DOMAIN mtr /\ run.hops \in Paths
  BY MtrRows DEF TypeOK
<1>2. 2 \in DOMAIN run.hops
  BY <1>1, PathHops
<1>3. L \subseteq O /\ IsFiniteSet(L) /\ L \subseteq Int /\ L \subseteq DOMAIN mtr
  <2>1. OfProto(run.proto) \ {c} \subseteq Nat /\ IsFiniteSet(OfProto(run.proto) \ {c})
    BY MtrRows, FS_Difference
  <2>2. LastN \in Nat
    BY MeasuresAssumption
  <2>3. O \subseteq OfProto(run.proto) \ {c} /\ IsFiniteSet(O)
    BY <2>1, <2>2, LatestSubset
  <2>4. L \in SUBSET O
    BY DEF Listing
  <2>5. IsFiniteSet(L)
    BY <2>3, <2>4, FS_Subset
  <2>6. OfProto(run.proto) \subseteq DOMAIN mtr
    BY DEF OfProto
  <2> HIDE DEF L, O
  <2> QED
    BY <2>1, <2>3, <2>4, <2>5, <2>6
<1>4. \A i \in L : losses[i] \in {0, 100} /\ (losses[i] = 100 <=> mtr[i].hops[2] = Dark)
  <2>1. ASSUME NEW i \in L PROVE 2 \in DOMAIN mtr[i].hops /\ mtr[i].hops \in Paths
    BY <1>3, MtrRows DEF Listing
  <2> QED
    BY <2>1, PathHops
<1>5. {i \in L : losses[i] = 100} = dark
  BY <1>4
<1>6. /\ LossTwice(L, 2) \in {0, 100, 200}
      /\ LossTwice(L, 2) = 200 <=> 2 * Cardinality(dark) > Cardinality(L)
  <2>1. LossTwice(L, 2) = MedianTwice(losses)
    BY DEF LossTwice
  <2>2. DOMAIN losses = L
    OBVIOUS
  <2>3. {i \in DOMAIN losses : losses[i] = 100} = dark
    BY <1>5, <2>2
  <2> HIDE DEF losses, L, dark
  <2>4. /\ DOMAIN losses \subseteq Int /\ IsFiniteSet(DOMAIN losses) /\ DOMAIN losses # {}
        /\ \A i \in DOMAIN losses : losses[i] \in {0, 100}
    BY <1>3, <1>4, <2>2
  <2>5. /\ MedianTwice(losses) \in {0, 100, 200}
        /\ MedianTwice(losses) = 200
             <=> 2 * Cardinality({i \in DOMAIN losses : losses[i] = 100}) > Cardinality(DOMAIN losses)
    BY <2>4, MedianOfLosses
  <2> QED
    BY <2>1, <2>2, <2>3, <2>5
<1>7. Judged[2] = HopSeverity(Dark, LossTwice(L, 2), AvgTwice(L, 2))
  BY <1>2 DEF Judged
<1>8. HopSeverity(Dark, LossTwice(L, 2), AvgTwice(L, 2)) = "critical" <=> LossTwice(L, 2) # 200
  <2>1. Dark.loss = 100
    BY DEF Dark
  <2>2. 2 * Dark.loss - LossTwice(L, 2) >= 20 <=> LossTwice(L, 2) # 200
    BY <2>1, <1>6
  <2> HIDE DEF L
  <2> QED
    BY <2>2 DEF HopSeverity
<1>9. Cardinality(dark) \in Nat /\ Cardinality(L) \in Nat
  <2>1. dark \in SUBSET L
    OBVIOUS
  <2> HIDE DEF dark, L
  <2> QED
    BY <2>1, <1>3, FS_Subset, FS_CardinalityType
<1> QED
  BY <1>6, <1>7, <1>8, <1>9

\* The score of two protocols, of any typed table.
LEMMA AsymmetrySettlesOfTypes ==
  ASSUME TypeOK
  PROVE  AsymmetrySettles
<1> DEFINE a == OfProto("tcp")
           b == OfProto("icmp")
           Ways(S) == {TypicalHops(mtr[i]) : i \in LatestOf(S, LastN)}
<1> SUFFICES ASSUME a # {}, b # {}
             PROVE  /\ (Ways(a) = Ways(b) /\ Cardinality(Ways(a)) = 1)
                         => AsymmetryScore(a, b).divergent = 0
                    /\ AsymmetryScore(a, b) = AsymmetryScore(b, a)
  BY DEF AsymmetrySettles
<1>1. ASSUME NEW S, S \subseteq 1..Len(mtr), S # {}
      PROVE  TypicalHops(Representative(S)) \in Ways(S) /\ IsFiniteSet(Ways(S))
  <2> DEFINE T == LatestOf(S, LastN)
  <2>1. T # {}
    <3>1. LastN \in Nat \ {0}
      BY MeasuresAssumption
    <3>2. PICK m \in S : \A i \in S : i <= m
      <4>1. Len(mtr) \in Nat /\ S \subseteq 0..Len(mtr)
        BY <1>1, MtrRows
      <4> QED
        BY <1>1, <4>1, GreatestBelow
    <3>3. {j \in S : j > m} = {}
      <4>1. S \subseteq Int
        BY <1>1
      <4>2. ASSUME NEW j \in S PROVE ~(j > m)
        BY <3>2, <4>1
      <4> QED
        BY <4>2
    <3>4. Cardinality({j \in S : j > m}) = 0
      BY <3>3, FS_EmptySet
    <3> QED
      BY <3>1, <3>2, <3>4 DEF LatestOf
  <2>2. T \in SUBSET (1..Len(mtr)) /\ T \subseteq Nat
    <3>1. T \subseteq S
      BY DEF LatestOf
    <3>2. 1..Len(mtr) \subseteq Nat
      BY MtrRows
    <3> QED
      BY <1>1, <3>1, <3>2
  <2>3. Min(T) \in T
    BY <2>1, <2>2, MinNat
  <2>4. IsFiniteSet(T)
    BY <2>2, MtrRows, CardinalityTo, FS_Subset
  <2> DEFINE f == [i \in T |-> TypicalHops(mtr[i])]
  <2>5. f \in Surjection(T, Ways(S))
    BY DEF Surjection
  <2>6. IsFiniteSet(Ways(S))
    <3> HIDE DEF T, Ways, f
    <3> QED
      BY <2>4, <2>5, FS_Surjection
  <2> QED
    BY <2>3, <2>6 DEF Representative
<1>2. a \subseteq 1..Len(mtr) /\ b \subseteq 1..Len(mtr)
  BY MtrRows DEF OfProto
<1> DEFINE A == TypicalHops(Representative(a))
           B == TypicalHops(Representative(b))
           all == {h[1] : h \in A \cup B}
           same == {h[1] : h \in A \cap B}
<1>3. A \in Ways(a) /\ B \in Ways(b) /\ IsFiniteSet(Ways(a))
  BY <1>1, <1>2
<1>4. AsymmetryScore(a, b) = [divergent |-> Cardinality(all \ same), total |-> Cardinality(all)]
  BY DEF AsymmetryScore
<1>5. AsymmetryScore(a, b) = AsymmetryScore(b, a)
  <2>1. A \cup B = B \cup A /\ A \cap B = B \cap A
    OBVIOUS
  <2> QED
    BY <2>1 DEF AsymmetryScore
<1>6. ASSUME Ways(a) = Ways(b), Cardinality(Ways(a)) = 1
      PROVE  AsymmetryScore(a, b).divergent = 0
  <2>1. A = B
    <3> HIDE DEF Ways, A, B, a, b
    <3>1. PICK way : Ways(a) = {way}
      BY <1>3, <1>6, FS_Singleton
    <3> QED
      BY <1>3, <1>6, <3>1
  <2>2. all \ same = {}
    BY <2>1
  <2>3. Cardinality(all \ same) = 0
    BY <2>2, FS_EmptySet
  <2> QED
    BY <2>3, <1>4
<1> QED
  BY <1>5, <1>6

-----------------------------------------------------------------------------
(* The theorems *)

\* The two empty tables.
LEMMA SeriesInit == Init => SeriesInv
<1> SUFFICES ASSUME Init PROVE SeriesInv
  OBVIOUS
<1>1. s3 = <<>> /\ mtr = <<>>
  BY DEF Init
<1> QED
  BY <1>1 DEF SeriesInv, TypeOK, InSequence

\* A row stored now is not older than the rows before it.
LEMMA SeriesNext == SeriesInv /\ [Next]_vars => SeriesInv'
<1> SUFFICES ASSUME SeriesInv, [Next]_vars PROVE SeriesInv'
  OBVIOUS
<1>1. ASSUME NEW gap \in Gaps, NEW ms \in Times \cup {None}, StoreS3(gap, ms)
      PROVE  SeriesInv'
  <2> DEFINE run == [at |-> LastAt + gap, ms |-> ms]
             n == Len(s3)
  <2>1. s3 \in Seq(S3Run) /\ n \in Nat /\ DOMAIN s3 = 1..n
    BY DEF SeriesInv, TypeOK
  <2>2. \A i \in 1..n : s3[i].at \in Nat
    BY <2>1, S3Rows DEF SeriesInv
  <2>3. LastAt \in Nat /\ (\A i \in 1..n : s3[i].at <= LastAt)
    <3>1. CASE s3 = <<>>
      BY <2>1, <3>1 DEF LastAt
    <3>2. CASE s3 # <<>>
      <4>1. n \in 1..n /\ LastAt = s3[n].at
        BY <2>1, <3>2 DEF LastAt
      <4> QED
        BY <4>1, <2>1, <2>2 DEF SeriesInv, InSequence
    <3> QED
      BY <3>1, <3>2
  <2>4. LastAt + gap \in Nat /\ LastAt <= LastAt + gap
    BY <2>3, MeasuresAssumption
  <2>5. run \in S3Run /\ run.at = LastAt + gap
    BY <2>4 DEF S3Run
  <2>6. s3' = Append(s3, run) /\ mtr' = mtr
    BY <1>1 DEF StoreS3
  <2> HIDE DEF run
  <2>7. /\ s3' \in Seq(S3Run) /\ Len(s3') = n + 1
        /\ \A i \in 1..n : s3'[i] = s3[i]
        /\ s3'[n + 1] = run
    BY <2>1, <2>5, <2>6
  <2>8. ASSUME NEW i \in 1..n + 1, NEW j \in 1..n + 1, i <= j
        PROVE  s3'[i].at <= s3'[j].at
    <3>1. CASE j \in 1..n
      BY <2>1, <2>7, <2>8, <3>1 DEF SeriesInv, InSequence
    <3>2. CASE j = n + 1 /\ i = n + 1
      BY <2>4, <2>5, <2>7, <3>2
    <3>3. CASE j = n + 1 /\ i \in 1..n
      BY <2>2, <2>3, <2>4, <2>5, <2>7, <3>3
    <3> QED
      BY <2>1, <3>1, <3>2, <3>3
  <2>9. DOMAIN s3' = 1..n + 1
    BY <2>7
  <2> QED
    BY <2>6, <2>7, <2>8, <2>9 DEF SeriesInv, TypeOK, InSequence
<1>2. ASSUME NEW run \in MtrRun, StoreMtr(run)
      PROVE  SeriesInv'
  BY <1>2 DEF StoreMtr, SeriesInv, TypeOK, InSequence
<1>3. CASE UNCHANGED vars
  BY <1>3 DEF vars, SeriesInv, TypeOK, InSequence
<1> QED
  BY <1>1, <1>2, <1>3 DEF Next

\* The tables keep their types, and the rows of s3_runs are in the order of started_at: no row
\* is stored with a time before that of the row stored before it.
THEOREM SeriesStayTyped == Spec => []SeriesInv
BY SeriesInit, SeriesNext, PTL DEF Spec

\* For every baseline length, threshold and series of durations: a scheduled S3 run is judged
\* no harsher than it would be against the others of its baseline alone, nor, as long as there
\* are fewer than baseline_n runs before it, than a daemon would; three times slower than two
\* others or more is critical; and a degraded run is slower by half than half of the others.
THEOREM SpikesAreJudged == Spec => []SpikesJudged
<1>1. SeriesInv => SpikesJudged
  BY SpikesJudgedOfTypes DEF SeriesInv
<1> QED
  BY <1>1, SeriesStayTyped, PTL

\* A hop that has gone dark is critical until more than half of its baseline was dark too, for
\* every last_n and every history of paths.
THEOREM DarkHopIsCritical == Spec => []DarkIsCritical
<1>1. SeriesInv => DarkIsCritical
  BY DarkIsCriticalOfTypes DEF SeriesInv
<1> QED
  BY <1>1, SeriesStayTyped, PTL

\* Two protocols that went one way in their last_n latest runs are not asymmetric, and the score
\* is symmetric, whatever the histories.
THEOREM AsymmetryDoesSettle == Spec => []AsymmetrySettles
<1>1. SeriesInv => AsymmetrySettles
  BY AsymmetrySettlesOfTypes DEF SeriesInv
<1> QED
  BY <1>1, SeriesStayTyped, PTL

=============================================================================
