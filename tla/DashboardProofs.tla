--------------------------- MODULE DashboardProofs ---------------------------
(***************************************************************************)
(* Of every value of the constants: the bursts and the recoveries of the   *)
(* dashboard.  Both compare what a loop finds in the sorted rows with a    *)
(* definition that speaks of the table alone.                              *)
(***************************************************************************)
EXTENDS MeasuresProofs

-----------------------------------------------------------------------------
(* Bursts *)

\* The runs that count as errors.
Bad == {i \in DOMAIN s3 : ~Ok(s3[i])}

\* started_at, then newest first, orders the rows of any part of the table strictly.
LEMMA ByTimeTotal ==
  ASSUME TypeOK, NEW S, S \subseteq DOMAIN s3
  PROVE  StrictTotal(S, ByTime(s3))
<1>1. ASSUME NEW i \in S, NEW j \in S
      PROVE  <<i, j>> \in ByTime(s3)
               <=> s3[i].at < s3[j].at \/ (s3[i].at = s3[j].at /\ i > j)
  BY DEF ByTime
<1>2. \A i \in S : i \in Int /\ s3[i].at \in Int
  <2>1. ASSUME NEW i \in S PROVE i \in 1..Len(s3) /\ s3[i].at \in Nat
    BY S3Rows
  <2> QED
    BY <2>1, S3Rows
<1>3. \A i \in S : <<i, i>> \notin ByTime(s3)
  BY <1>1, <1>2
<1>4. \A i, j \in S : i # j => <<i, j>> \in ByTime(s3) \/ <<j, i>> \in ByTime(s3)
  BY <1>1, <1>2
<1>5. ASSUME NEW i \in S, NEW j \in S, NEW k \in S,
             <<i, j>> \in ByTime(s3), <<j, k>> \in ByTime(s3)
      PROVE  <<i, k>> \in ByTime(s3)
  BY <1>1, <1>2, <1>5
<1> QED
  BY <1>3, <1>4, <1>5 DEF StrictTotal

\* The sorted errors of detect_burst: each failed row once, none older than the one before.
LEMMA ErrorsInOrder ==
  ASSUME TypeOK
  PROVE  /\ Cardinality(Bad) \in 0..Len(s3)
         /\ Errors(s3) \in [1..Cardinality(Bad) -> Bad]
         /\ \A i \in Bad : \E k \in 1..Cardinality(Bad) : Errors(s3)[k] = i
         /\ \A a, b \in 1..Cardinality(Bad) : Errors(s3)[a] = Errors(s3)[b] => a = b
         /\ \A a, b \in 1..Cardinality(Bad) :
              a <= b => s3[Errors(s3)[a]].at <= s3[Errors(s3)[b]].at
<1> DEFINE n == Cardinality(Bad)
           errs == Errors(s3)
           R == ByTime(s3)
<1>1. Bad \subseteq DOMAIN s3 /\ IsFiniteSet(Bad) /\ n \in 0..Len(s3)
  <2>1. Bad \subseteq DOMAIN s3
    BY DEF Bad
  <2> QED
    BY <2>1, S3Rows
<1>2. StrictTotal(Bad, R)
  BY <1>1, ByTimeTotal
<1>3. errs = InOrder(Bad, R)
  BY DEF Errors, Bad
<1>4. /\ n \in Nat /\ errs \in [1..n -> Bad]
      /\ \A i \in Bad : \E k \in 1..n : errs[k] = i
      /\ \A a, b \in 1..n : <<errs[a], errs[b]>> \in R <=> a < b
  BY <1>1, <1>2, <1>3, InOrderBijection
<1>5. ASSUME NEW a \in 1..n, NEW b \in 1..n, errs[a] = errs[b] PROVE a = b
  <2>1. <<errs[a], errs[b]>> \notin R /\ <<errs[b], errs[a]>> \notin R
    BY <1>2, <1>4, <1>5 DEF StrictTotal
  <2>2. ~(a < b) /\ ~(b < a)
    BY <1>4, <2>1
  <2> QED
    BY <2>2, <1>4
<1>6. ASSUME NEW a \in 1..n, NEW b \in 1..n, a <= b
      PROVE  s3[errs[a]].at <= s3[errs[b]].at
  <2>1. errs[a] \in DOMAIN s3 /\ errs[b] \in DOMAIN s3
    BY <1>1, <1>4
  <2>2. s3[errs[a]].at \in Nat /\ s3[errs[b]].at \in Nat
    BY <2>1, S3Rows
  <2>3. CASE a = b
    BY <2>2, <2>3
  <2>4. CASE a # b
    <3>1. <<errs[a], errs[b]>> \in R
      BY <1>4, <1>6, <2>4
    <3>2. s3[errs[a]].at < s3[errs[b]].at \/ s3[errs[a]].at = s3[errs[b]].at
      BY <2>1, <3>1 DEF ByTime
    <3> QED
      BY <2>2, <3>2
  <2> QED
    BY <2>3, <2>4
<1> HIDE DEF n, errs
<1> QED
  BY <1>1, <1>4, <1>5, <1>6 DEF n, errs

\* The errors of the window that begins with the second of row i.
Around(i) == {j \in Bad : s3[j].at \in s3[i].at .. s3[i].at + BurstWindow}

\* A slice within window_s has no more errors than the window that begins with its first.
LEMMA SliceWithinAround ==
  ASSUME TypeOK, NEW p \in 1..Cardinality(Bad), NEW q \in 1..Cardinality(Bad), p <= q,
         s3[Errors(s3)[q]].at - s3[Errors(s3)[p]].at <= BurstWindow
  PROVE  q - p + 1 <= Cardinality(Around(Errors(s3)[p]))
<1> DEFINE n == Cardinality(Bad)
           errs == Errors(s3)
           A == Around(errs[p])
           f == [k \in p..q |-> errs[k]]
<1>1. /\ n \in Nat /\ errs \in [1..n -> Bad]
      /\ \A a, b \in 1..n : errs[a] = errs[b] => a = b
      /\ \A a, b \in 1..n : a <= b => s3[errs[a]].at <= s3[errs[b]].at
  BY ErrorsInOrder
<1>2. \A i \in Bad : s3[i].at \in Nat
  BY S3Rows DEF Bad
<1> HIDE DEF n, errs
<1>3. p \in 1..n /\ q \in 1..n /\ p..q \subseteq 1..n
  BY <1>1 DEF n
<1>4. ASSUME NEW k \in p..q PROVE errs[k] \in A
  <2>1. k \in 1..n /\ p <= k /\ k <= q
    BY <1>3
  <2>2. s3[errs[p]].at <= s3[errs[k]].at /\ s3[errs[k]].at <= s3[errs[q]].at
    BY <1>1, <1>3, <2>1
  <2>3. errs[k] \in Bad /\ errs[p] \in Bad /\ errs[q] \in Bad
    BY <1>1, <1>3, <2>1
  <2>4. s3[errs[k]].at \in s3[errs[p]].at .. s3[errs[p]].at + BurstWindow
    BY <1>2, <2>2, <2>3, MeasuresAssumption DEF errs
  <2> QED
    BY <2>3, <2>4 DEF Around
<1> HIDE DEF A
<1>5. f \in Injection(p..q, A)
  BY <1>1, <1>3, <1>4 DEF Injection, IsInjective
<1>6. IsFiniteSet(A)
  <2>1. A \subseteq DOMAIN s3
    BY DEF A, Around, Bad
  <2> QED
    BY <2>1, S3Rows
<1>7. Cardinality(p..q) <= Cardinality(A)
  <2> HIDE DEF f
  <2> QED
    BY <1>5, <1>6, FS_Injection
<1>8. p \in Int /\ q \in Int
  BY <1>3
<1>9. Cardinality(p..q) = IF p > q THEN 0 ELSE q - p + 1
  BY <1>8, FS_Interval
<1> QED
  BY <1>7, <1>8, <1>9 DEF A, errs

\* The errors of a window lie in one slice: rows that share a second with its first included.
LEMMA AroundWithinSlice ==
  ASSUME TypeOK, NEW i \in Bad
  PROVE  \E p, q \in 1..Cardinality(Bad) :
           /\ p <= q /\ Cardinality(Around(i)) <= q - p + 1
           /\ s3[Errors(s3)[q]].at - s3[Errors(s3)[p]].at <= BurstWindow
<1> DEFINE n == Cardinality(Bad)
           errs == Errors(s3)
           A == Around(i)
           P == {k \in 1..n : errs[k] \in A}
<1>1. /\ n \in Nat /\ errs \in [1..n -> Bad]
      /\ \A j \in Bad : \E k \in 1..n : errs[k] = j
  BY ErrorsInOrder
<1>2. \A j \in Bad : s3[j].at \in Nat
  BY S3Rows DEF Bad
<1>3. i \in A
  <2>1. s3[i].at \in s3[i].at .. s3[i].at + BurstWindow
    BY <1>2, MeasuresAssumption
  <2> QED
    BY <2>1 DEF Around
<1>4. A \subseteq Bad
  BY DEF Around
<1> HIDE DEF n, errs
<1>5. P # {} /\ P \subseteq Nat /\ P \subseteq 0..n
  BY <1>1, <1>3
<1>6. PICK p \in P : \A k \in P : p <= k
  BY <1>5, LeastNat
<1>7. PICK q \in P : \A k \in P : k <= q
  BY <1>1, <1>5, GreatestBelow
<1>8. p \in 1..n /\ q \in 1..n /\ p <= q /\ errs[p] \in A /\ errs[q] \in A
  BY <1>6, <1>7
<1> DEFINE f == [j \in A |-> CHOOSE k \in 1..n : errs[k] = j]
<1>9. ASSUME NEW j \in A PROVE f[j] \in p..q /\ errs[f[j]] = j
  <2>1. \E k \in 1..n : errs[k] = j
    BY <1>1, <1>4
  <2>2. f[j] \in 1..n /\ errs[f[j]] = j
    BY <2>1
  <2>3. f[j] \in P
    BY <2>2
  <2> HIDE DEF f
  <2> QED
    BY <2>2, <2>3, <1>6, <1>7, <1>8
<1>10. Cardinality(A) <= Cardinality(p..q)
  <2>1. f = [j \in A |-> f[j]]
    OBVIOUS
  <2> HIDE DEF f, A
  <2>2. f \in Injection(A, p..q)
    BY <2>1, <1>9 DEF Injection, IsInjective
  <2>3. p \in Int /\ q \in Int
    BY <1>8
  <2>4. IsFiniteSet(p..q)
    BY <2>3, FS_Interval
  <2> QED
    BY <2>2, <2>4, FS_Injection
<1>11. Cardinality(p..q) = q - p + 1
  <2>1. p \in Int /\ q \in Int
    BY <1>8
  <2>2. Cardinality(p..q) = IF p > q THEN 0 ELSE q - p + 1
    BY <2>1, FS_Interval
  <2> QED
    BY <2>1, <2>2, <1>8
<1>12. s3[errs[q]].at - s3[errs[p]].at <= BurstWindow
  <2>1. /\ s3[errs[q]].at \in s3[i].at .. s3[i].at + BurstWindow
        /\ s3[errs[p]].at \in s3[i].at .. s3[i].at + BurstWindow
    BY <1>8 DEF Around
  <2> QED
    BY <2>1, <1>2, MeasuresAssumption
<1> QED
  BY <1>8, <1>10, <1>11, <1>12 DEF n, errs

\* The order in which DetectBurst prefers slices.
Extent(s) == s[2] - s[1] + 1
Preferred(s, t) == Extent(t) < Extent(s) \/ (Extent(t) = Extent(s) /\ s[1] <= t[1])

\* Among the slices there is a largest, and a first of those: `best` is defined.
LEMMA BestSliceExists ==
  ASSUME NEW n \in Nat, NEW slices, slices \subseteq (1..n) \X (1..n), slices # {},
         \A s \in slices : s[1] <= s[2]
  PROVE  \E s \in slices : \A t \in slices : Preferred(s, t)
<1> DEFINE C == {Extent(s) : s \in slices}
<1>1. \A s \in slices : s[1] \in 1..n /\ s[2] \in 1..n /\ Extent(s) \in 0..n
  BY DEF Extent
<1>2. C \subseteq 0..n /\ C # {}
  BY <1>1
<1>3. PICK c \in C : \A d \in C : d <= c
  BY <1>2, GreatestBelow
<1> DEFINE F == {s[1] : s \in {t \in slices : Extent(t) = c}}
<1>4. F \subseteq Nat /\ F # {}
  BY <1>1
<1>5. PICK f \in F : \A g \in F : f <= g
  BY <1>4, LeastNat
<1>6. PICK s \in slices : Extent(s) = c /\ s[1] = f
  OBVIOUS
<1>7. ASSUME NEW t \in slices PROVE Preferred(s, t)
  <2>1. Extent(t) <= c /\ Extent(t) \in Nat /\ c \in Nat
    BY <1>1, <1>2, <1>3
  <2>2. CASE Extent(t) < c
    BY <2>2, <1>6 DEF Preferred
  <2>3. CASE Extent(t) = c
    <3>1. t[1] \in F
      BY <2>3
    <3> QED
      BY <3>1, <2>3, <1>5, <1>6 DEF Preferred
  <2> QED
    BY <2>1, <2>2, <2>3
<1> QED
  BY <1>7

\* The slices of detect_burst, by the positions of their first and last error.
Slices == {s \in (DOMAIN Errors(s3)) \X (DOMAIN Errors(s3)) :
             s[2] >= s[1] + BurstN - 1
             /\ InWindow(s3[Errors(s3)[s[2]]].at - s3[Errors(s3)[s[1]]].at)}

\* detect_burst: None without a slice, and the extent of the largest with one.
LEMMA DetectedBurst ==
  ASSUME TypeOK
  PROVE  /\ Slices = {} => DetectBurst(s3) = None
         /\ Slices # {} =>
              \E s \in Slices : /\ \A t \in Slices : Extent(t) <= Extent(s)
                               /\ DetectBurst(s3).count = Extent(s)
                               /\ DetectBurst(s3) # None
<1> DEFINE n == Cardinality(Bad)
           errs == Errors(s3)
           best == CHOOSE s \in Slices : \A t \in Slices : Preferred(s, t)
<1>1. n \in Nat /\ errs \in [1..n -> Bad]
  BY ErrorsInOrder
<1>2. Slices = {} => DetectBurst(s3) = None
  BY DEF DetectBurst, Slices
<1>3. ASSUME Slices # {}
      PROVE  DetectBurst(s3) = [count |-> Extent(best), first |-> s3[errs[best[1]]].at,
                                last |-> s3[errs[best[2]]].at]
  BY <1>3 DEF DetectBurst, Slices, Extent, Preferred
<1>4. ASSUME Slices # {}
      PROVE  \E s \in Slices : /\ \A t \in Slices : Extent(t) <= Extent(s)
                               /\ DetectBurst(s3).count = Extent(s)
                               /\ DetectBurst(s3) # None
  <2>1. Slices \subseteq (1..n) \X (1..n)
    BY <1>1 DEF Slices
  <2>2. ASSUME NEW s \in Slices
        PROVE  s[1] \in 1..n /\ s[2] \in 1..n /\ s[1] <= s[2] /\ Extent(s) \in Nat
    <3>1. s[1] \in 1..n /\ s[2] \in 1..n
      BY <2>1
    <3>2. s[2] >= s[1] + BurstN - 1
      BY DEF Slices
    <3> QED
      BY <3>1, <3>2, <1>1, MeasuresAssumption DEF Extent
  <2>3. \E s \in Slices : \A t \in Slices : Preferred(s, t)
    <3> HIDE DEF n
    <3> QED
      BY <1>1, <1>4, <2>1, <2>2, BestSliceExists
  <2>4. best \in Slices /\ \A t \in Slices : Preferred(best, t)
    BY <2>3
  <2> HIDE DEF best
  <2>5. \A t \in Slices : Extent(t) <= Extent(best)
    BY <2>2, <2>4 DEF Preferred
  <2>6. errs[best[1]] \in Bad /\ errs[best[2]] \in Bad /\ Extent(best) \in Nat
    BY <1>1, <2>2, <2>4
  <2>7. s3[errs[best[1]]].at \in Nat /\ s3[errs[best[2]]].at \in Nat
    BY <2>6, S3Rows DEF Bad
  <2>8. DetectBurst(s3) \in [count : Nat, first : Nat, last : Nat]
    BY <1>3, <1>4, <2>6, <2>7
  <2>9. DetectBurst(s3) # None
    BY <2>8, MeasuresAssumption
  <2>10. DetectBurst(s3).count = Extent(best)
    BY <1>3, <1>4
  <2> QED
    BY <2>4, <2>5, <2>9, <2>10
<1> QED
  BY <1>2, <1>4

\* The burst of the dashboard, of any typed table.
LEMMA BurstExactOfTypes ==
  ASSUME TypeOK
  PROVE  BurstExact
<1> DEFINE n == Cardinality(Bad)
           counts == {Cardinality(Around(i)) : i \in Bad} \cup {0}
           most == Max(counts)
           errs == Errors(s3)
<1> SUFFICES /\ most < BurstN => DetectBurst(s3) = None
             /\ ~(most < BurstN) => DetectBurst(s3) # None /\ DetectBurst(s3).count = most
  BY DEF BurstExact, Bad, Around
<1>1. n \in Nat /\ errs \in [1..n -> Bad] /\ BurstN \in Nat \ {0}
  BY ErrorsInOrder, MeasuresAssumption
<1>2. ASSUME NEW i \in Bad PROVE Cardinality(Around(i)) \in 0..Len(s3)
  <2>1. Around(i) \subseteq DOMAIN s3
    BY DEF Around, Bad
  <2> QED
    BY <2>1, S3Rows
<1>3. Len(s3) \in Nat /\ counts \subseteq 0..Len(s3) /\ counts # {}
  BY <1>2, S3Rows
<1>4. most \in counts /\ (\A c \in counts : c <= most) /\ most \in Nat
  <2> HIDE DEF counts
  <2>1. most \in counts /\ (\A c \in counts : c <= most)
    BY <1>3, MaxBelow
  <2> HIDE DEF most
  <2>2. most \in 0..Len(s3)
    BY <2>1, <1>3
  <2> QED
    BY <2>1, <2>2, <1>3
<1> HIDE DEF most
<1>5. ASSUME NEW s \in Slices
      PROVE  Extent(s) \in Nat /\ Extent(s) <= most /\ Extent(s) >= BurstN
  <2>1. /\ s[1] \in 1..n /\ s[2] \in 1..n /\ s[2] >= s[1] + BurstN - 1
        /\ s3[errs[s[2]]].at - s3[errs[s[1]]].at <= BurstWindow
    BY <1>1 DEF Slices, InWindow
  <2>2. s[1] <= s[2]
    BY <2>1, <1>1
  <2>3. Extent(s) <= Cardinality(Around(errs[s[1]]))
    BY <2>1, <2>2, SliceWithinAround DEF Extent
  <2>4. Cardinality(Around(errs[s[1]])) \in counts
    BY <2>1, <1>1
  <2>5. Cardinality(Around(errs[s[1]])) \in Nat
    BY <2>4, <1>3
  <2>6. Extent(s) \in Nat /\ Extent(s) >= BurstN
    BY <2>1, <2>2, <1>1 DEF Extent
  <2> QED
    BY <2>3, <2>4, <2>5, <2>6, <1>4
<1>6. most < BurstN => Slices = {}
  BY <1>1, <1>4, <1>5
<1>7. ASSUME ~(most < BurstN)
      PROVE  \E s \in Slices : Extent(s) >= most
  <2>1. most # 0
    BY <1>1, <1>7
  <2>2. PICK i \in Bad : most = Cardinality(Around(i))
    BY <1>4, <2>1
  <2>3. PICK p, q \in 1..n :
               /\ p <= q /\ Cardinality(Around(i)) <= q - p + 1
               /\ s3[errs[q]].at - s3[errs[p]].at <= BurstWindow
    BY AroundWithinSlice
  <2> DEFINE s == <<p, q>>
  <2>4. q >= p + BurstN - 1
    BY <2>2, <2>3, <1>1, <1>4, <1>7
  <2>5. s \in Slices
    BY <2>3, <2>4, <1>1 DEF Slices, InWindow
  <2>6. Extent(s) >= most
    BY <2>2, <2>3, <1>4 DEF Extent
  <2> QED
    BY <2>5, <2>6
<1>8. ASSUME ~(most < BurstN)
      PROVE  DetectBurst(s3) # None /\ DetectBurst(s3).count = most
  <2>1. PICK t \in Slices : Extent(t) >= most
    BY <1>7, <1>8
  <2>2. PICK s \in Slices : /\ \A u \in Slices : Extent(u) <= Extent(s)
                           /\ DetectBurst(s3).count = Extent(s)
                           /\ DetectBurst(s3) # None
    BY <2>1, DetectedBurst
  <2>3. Extent(s) = most
    BY <2>1, <2>2, <1>4, <1>5
  <2> QED
    BY <2>2, <2>3
<1> QED
  BY <1>6, <1>8, DetectedBurst

\* The burst of the dashboard has as many errors as the fullest window of window_s seconds when
\* they are at least n, and there is none otherwise: for every n, window_s and series.
THEOREM BurstIsExact == Spec => []BurstExact
<1>1. SeriesInv => BurstExact
  BY BurstExactOfTypes DEF SeriesInv
<1> QED
  BY <1>1, SeriesStayTyped, PTL

-----------------------------------------------------------------------------
(* The loop of mttr *)

\* What mttr knows before its first window, and the equation of Walk up to n.
Unwound == [since |-> None, durations |-> <<>>]

WalksTo(rows, f, n) ==
  f = [i \in 0..n |-> IF i < MttrWindow THEN Unwound ELSE MttrStep(rows, f[i - 1], i)]

\* The recursion of Walk has a solution up to every n: from n - 1 to n, by the least counterexample.
LEMMA WalkExists ==
  ASSUME NEW rows, NEW n \in Nat
  PROVE  \E f : WalksTo(rows, f, n)
<1> DEFINE T == {k \in Nat : ~\E f : WalksTo(rows, f, k)}
<1> SUFFICES ASSUME T # {} PROVE FALSE
  OBVIOUS
<1>1. PICK k \in T : \A m \in T : k <= m
  BY LeastNat
<1>2. k # 0
  <2> SUFFICES ASSUME k = 0 PROVE FALSE
    OBVIOUS
  <2> DEFINE f == [i \in 0..0 |-> Unwound]
  <2>1. \A i \in 0..0 : i < MttrWindow
    BY MeasuresAssumption
  <2>2. WalksTo(rows, f, 0)
    BY <2>1 DEF WalksTo
  <2> QED
    BY <2>2
<1>3. k \in Nat /\ k - 1 \in Nat /\ k - 1 \notin T
  BY <1>1, <1>2
<1>4. PICK g : WalksTo(rows, g, k - 1)
  BY <1>3
<1> DEFINE f == [i \in 0..k |-> IF i < MttrWindow THEN Unwound ELSE MttrStep(rows, g[i - 1], i)]
<1>5. WalksTo(rows, f, k)
  <2>1. \A i \in 0..k - 1 : g[i] = IF i < MttrWindow THEN Unwound ELSE MttrStep(rows, g[i - 1], i)
    BY <1>4 DEF WalksTo
  <2>2. ASSUME NEW i \in 0..k, ~(i < MttrWindow) PROVE i - 1 \in 0..k - 1 /\ i - 1 \in 0..k
    BY <1>3, <2>2, MeasuresAssumption
  <2>3. \A i \in 0..k - 1 : i \in 0..k /\ f[i] = g[i]
    BY <1>3, <2>1
  <2>4. \A i \in 0..k : f[i] = IF i < MttrWindow THEN Unwound ELSE MttrStep(rows, f[i - 1], i)
    BY <2>2, <2>3
  <2>5. f = [i \in 0..k |-> f[i]]
    OBVIOUS
  <2> HIDE DEF f
  <2> QED
    BY <2>4, <2>5 DEF WalksTo
<1> QED
  BY <1>1, <1>5

\* Walk satisfies the equation that defines it.
LEMMA WalkEquation ==
  ASSUME NEW rows, Len(rows) \in Nat
  PROVE  WalksTo(rows, Walk(rows), Len(rows))
<1>1. \E f : WalksTo(rows, f, Len(rows))
  BY WalkExists
<1>2. Walk(rows) = CHOOSE f : WalksTo(rows, f, Len(rows))
  BY DEF Walk, WalksTo, Unwound
<1> QED
  BY <1>1, <1>2

-----------------------------------------------------------------------------
(* Row numbers in order *)

\* Two rows of one rank are the same.
LEMMA RankUnique ==
  ASSUME NEW S, IsFiniteSet(S), NEW R, StrictTotal(S, R), NEW i \in S, NEW j \in S,
         Cardinality(Below(S, R, i)) = Cardinality(Below(S, R, j))
  PROVE  i = j
<1> SUFFICES ASSUME i # j PROVE FALSE
  OBVIOUS
<1>1. Cardinality(Below(S, R, i)) \in Nat
  BY RankBelow, FS_CardinalityType
<1>2. <<i, j>> \in R \/ <<j, i>> \in R
  BY DEF StrictTotal
<1>3. Cardinality(Below(S, R, i)) < Cardinality(Below(S, R, i))
  BY <1>2, RankGrows
<1> QED
  BY <1>1, <1>3

\* The order of row numbers.
Increasing(S) == {p \in S \X S : p[1] < p[2]}

\* Row numbers are strictly ordered.
LEMMA IncreasingTotal ==
  ASSUME NEW S, S \subseteq Int
  PROVE  StrictTotal(S, Increasing(S))
<1>1. ASSUME NEW i \in S, NEW j \in S PROVE <<i, j>> \in Increasing(S) <=> i < j
  BY DEF Increasing
<1> QED
  BY <1>1 DEF StrictTotal

\* A row number above all others comes last, and leaves the others where they were.
LEMMA IncreasingAppended ==
  ASSUME NEW S, IsFiniteSet(S), S \subseteq Int, NEW c \in Int, \A i \in S : i < c
  PROVE  LET n == Cardinality(S)
             T == S \cup {c}
             order == InOrder(S, Increasing(S))
             longer == InOrder(T, Increasing(T))
         IN  /\ n \in Nat /\ Cardinality(T) = n + 1
             /\ \A k \in 1..n : longer[k] = order[k]
             /\ longer[n + 1] = c
<1> DEFINE n == Cardinality(S)
           T == S \cup {c}
           order == InOrder(S, Increasing(S))
           longer == InOrder(T, Increasing(T))
<1>1. c \notin S /\ T \subseteq Int /\ n \in Nat
  BY FS_CardinalityType
<1>2. IsFiniteSet(T) /\ Cardinality(T) = n + 1
  BY <1>1, FS_AddElement
<1>3. StrictTotal(S, Increasing(S)) /\ StrictTotal(T, Increasing(T))
  BY <1>1, IncreasingTotal
<1>4. \A k \in 1..n : order[k] \in S /\ Cardinality(Below(S, Increasing(S), order[k])) = k - 1
  BY <1>3, InOrderRanks
<1>5. \A k \in 1..n + 1 : longer[k] \in T /\ Cardinality(Below(T, Increasing(T), longer[k])) = k - 1
  <2> HIDE DEF T, n
  <2> QED
    BY <1>2, <1>3, InOrderRanks
<1>6. ASSUME NEW i \in S PROVE Below(T, Increasing(T), i) = Below(S, Increasing(S), i)
  <2>1. ~(c < i) /\ i \in Int
    <3>1. i < c /\ i \in Int
      OBVIOUS
    <3> QED
      BY <3>1
  <2>2. \A j \in T : <<j, i>> \in Increasing(T) <=> j < i
    BY DEF Increasing
  <2>3. \A j \in S : <<j, i>> \in Increasing(S) <=> j < i
    BY DEF Increasing
  <2> QED
    BY <2>1, <2>2, <2>3 DEF Below
<1>7. Below(T, Increasing(T), c) = S
  <2>1. \A j \in T : <<j, c>> \in Increasing(T) <=> j < c
    BY DEF Increasing
  <2>2. ~(c < c)
    OBVIOUS
  <2> QED
    BY <2>1, <2>2 DEF Below
<1>8. ASSUME NEW k \in 1..n PROVE longer[k] = order[k]
  <2>1. k \in 1..n + 1 /\ order[k] \in S /\ order[k] \in T
    BY <1>1, <1>4
  <2>2. Cardinality(Below(T, Increasing(T), order[k])) = k - 1
    BY <1>4, <1>6
  <2>3. longer[k] \in T /\ Cardinality(Below(T, Increasing(T), longer[k])) = k - 1
    BY <1>5, <2>1
  <2> HIDE DEF T, order, longer
  <2> QED
    BY <2>1, <2>2, <2>3, <1>2, <1>3, RankUnique
<1>9. longer[n + 1] = c
  <2> DEFINE m == n + 1
  <2>1. m \in 1..n + 1 /\ m - 1 = n
    BY <1>1
  <2> HIDE DEF m
  <2>2. longer[m] \in T /\ Cardinality(Below(T, Increasing(T), longer[m])) = m - 1
    BY <1>5, <2>1
  <2>3. c \in T /\ Cardinality(Below(T, Increasing(T), c)) = n
    BY <1>7
  <2> HIDE DEF T, longer, n
  <2>4. longer[m] = c
    BY <2>1, <2>2, <2>3, <1>2, <1>3, RankUnique
  <2> QED
    BY <2>4 DEF m
<1> QED
  BY <1>1, <1>2, <1>8, <1>9

\* No two rows of one second.
Distinct == \A i, j \in DOMAIN s3 : s3[i].at = s3[j].at => i = j

\* Rows of different seconds, stored as time passed, are what sorted() leaves as it is.
LEMMA SortedAlready ==
  ASSUME SeriesInv, Distinct
  PROVE  [k \in DOMAIN s3 |-> s3[InOrder(DOMAIN s3, ByTime(s3))[k]]] = s3
<1> DEFINE n == Len(s3)
           D == DOMAIN s3
           R == ByTime(s3)
           order == InOrder(D, R)
<1>1. n \in Nat /\ D = 1..n /\ IsFiniteSet(D) /\ Cardinality(D) = n
  BY S3Rows, CardinalityTo DEF SeriesInv
<1>2. StrictTotal(D, R)
  BY ByTimeTotal DEF SeriesInv
<1>3. \A k \in 1..n : order[k] \in D /\ Cardinality(Below(D, R, order[k])) = k - 1
  BY <1>1, <1>2, InOrderRanks
<1>4. ASSUME NEW i \in D PROVE Cardinality(Below(D, R, i)) = i - 1
  <2>1. ASSUME NEW j \in D PROVE <<j, i>> \in R <=> j < i
    <3>1. <<j, i>> \in R <=> s3[j].at < s3[i].at \/ (s3[j].at = s3[i].at /\ j > i)
      BY DEF ByTime
    <3>2. s3[i].at \in Nat /\ s3[j].at \in Nat /\ i \in Nat /\ j \in Nat
      BY <1>1, S3Rows DEF SeriesInv
    <3>3. j <= i => s3[j].at <= s3[i].at
      BY DEF SeriesInv, InSequence
    <3>4. i <= j => s3[i].at <= s3[j].at
      BY DEF SeriesInv, InSequence
    <3>5. s3[j].at = s3[i].at => j = i
      BY DEF Distinct
    <3> QED
      BY <3>1, <3>2, <3>3, <3>4, <3>5
  <2>2. i \in 1..n /\ i \in Nat /\ i - 1 \in Nat
    BY <1>1
  <2>3. Below(D, R, i) = {j \in 1..n : j < i}
    BY <2>1, <1>1 DEF Below
  <2>4. {j \in 1..n : j < i} = 1..i - 1
    BY <2>2, <1>1
  <2> QED
    BY <2>2, <2>3, <2>4, CardinalityTo
<1>5. \A k \in D : order[k] = k
  <2>1. ASSUME NEW k \in D PROVE order[k] = k
    <3>1. order[k] \in D /\ order[k] - 1 = k - 1
      BY <1>1, <1>3, <1>4
    <3>2. order[k] \in Int /\ k \in Int
      BY <3>1, <1>1
    <3> QED
      BY <3>1, <3>2
  <2> QED
    BY <2>1
<1>6. s3 = [k \in D |-> s3[k]]
  BY DEF SeriesInv, TypeOK
<1> QED
  BY <1>5, <1>6

-----------------------------------------------------------------------------
(* Recoveries *)

\* The terms of MttrExact: the last rows of the windows, the calm ones, and the degraded
\* ones of the stretch that ends before i.
Windows == MttrWindow..Len(s3)
Calm(i) == Rate(s3, i) <= RecoveryPct * MttrWindow
Reached(i) == {j \in Windows : /\ j < i /\ Rate(s3, j) >= ErrorPct * MttrWindow
                              /\ \A k \in j..i - 1 : ~Calm(k)}

\* The windows up to i in which a stretch ends, and how long each had lasted.
EndsTo(i) == {k \in Windows : k <= i /\ Calm(k) /\ Reached(k) # {}}
Lasted(k) == s3[k].at - s3[Min(Reached(k))].at
Durations(S) == [k \in 1..Cardinality(S) |-> Lasted(InOrder(S, Increasing(S))[k])]

\* degraded_since after window i.
SinceAfter(i) == IF Reached(i + 1) = {} THEN None ELSE s3[Min(Reached(i + 1))].at

\* The error rate of a window, times its length, is an integer.
LEMMA RateInt ==
  ASSUME TypeOK, NEW i \in Nat
  PROVE  Rate(s3, i) \in Int
<1> DEFINE A == {k \in i - MttrWindow + 1..i : ~Ok(s3[k])}
           c == Cardinality(A)
<1>1. MttrWindow \in Nat \ {0}
  BY MeasuresAssumption
<1>2. i - MttrWindow + 1 \in Int /\ i \in Int
  BY <1>1
<1>3. IsFiniteSet(i - MttrWindow + 1..i)
  BY <1>2, FS_Interval
<1>4. A \in SUBSET (i - MttrWindow + 1..i)
  OBVIOUS
<1>5. c \in Nat
  <2> HIDE DEF A
  <2> QED
    BY <1>3, <1>4, FS_Subset, FS_CardinalityType
<1>6. Rate(s3, i) = 100 * c
  BY DEF Rate, ErrorsIn
<1> HIDE DEF c
<1> QED
  BY <1>5, <1>6

\* What one more window does to the stretch that is open and to those that have ended.
LEMMA ReachedStep ==
  ASSUME TypeOK, NEW i \in Windows
  PROVE  /\ Rate(s3, i) \in Int
         /\ Calm(i) => Reached(i + 1) = {}
         /\ ~Calm(i) => Reached(i + 1) =
              Reached(i) \cup (IF Rate(s3, i) >= ErrorPct * MttrWindow THEN {i} ELSE {})
         /\ EndsTo(i) = EndsTo(i - 1) \cup (IF Calm(i) /\ Reached(i) # {} THEN {i} ELSE {})
<1>1. i \in Nat /\ Windows \subseteq Nat
  BY MeasuresAssumption, S3Rows DEF Windows
<1>2. Rate(s3, i) \in Int
  BY <1>1, RateInt
<1>3. ASSUME Calm(i) PROVE Reached(i + 1) = {}
  <2>1. ASSUME NEW j \in Reached(i + 1) PROVE FALSE
    <3>1. j \in Nat /\ j < i + 1 /\ \A k \in j..i + 1 - 1 : ~Calm(k)
      BY <1>1 DEF Reached
    <3>2. i \in j..i + 1 - 1
      BY <1>1, <3>1
    <3> QED
      BY <1>3, <3>1, <3>2
  <2> QED
    BY <2>1
<1>4. ASSUME ~Calm(i), NEW j \in Windows
      PROVE  j \in Reached(i + 1)
               <=> j \in Reached(i) \/ (j = i /\ Rate(s3, i) >= ErrorPct * MttrWindow)
  <2>1. j \in Nat /\ i + 1 - 1 = i
    BY <1>1
  <2>2. CASE j < i
    <3>1. \A k \in j..i : k \in j..i - 1 \/ k = i
      BY <1>1, <2>1
    <3>2. j..i - 1 \subseteq j..i
      BY <1>1, <2>1
    <3>3. (\A k \in j..i : ~Calm(k)) <=> \A k \in j..i - 1 : ~Calm(k)
      BY <1>4, <3>1, <3>2
    <3>4. j < i + 1 /\ j # i
      BY <1>1, <2>1, <2>2
    <3> QED
      BY <2>1, <2>2, <3>3, <3>4 DEF Reached
  <2>3. CASE j = i
    <3>1. j..i = {i} /\ j < i + 1 /\ ~(j < i)
      BY <1>1, <2>3
    <3> QED
      BY <1>4, <2>1, <2>3, <3>1 DEF Reached
  <2>4. CASE i < j
    <3>1. ~(j < i + 1) /\ ~(j < i) /\ j # i
      BY <1>1, <2>1, <2>4
    <3> QED
      BY <3>1 DEF Reached
  <2> QED
    BY <1>1, <2>1, <2>2, <2>3, <2>4
<1>5. ASSUME ~Calm(i)
      PROVE  Reached(i + 1) = Reached(i) \cup (IF Rate(s3, i) >= ErrorPct * MttrWindow THEN {i} ELSE {})
  <2>1. Reached(i + 1) \subseteq Windows /\ Reached(i) \subseteq Windows
    BY DEF Reached
  <2> DEFINE new == IF Rate(s3, i) >= ErrorPct * MttrWindow THEN {i} ELSE {}
  <2>2. \A j \in Windows : j \in Reached(i + 1) <=> j \in Reached(i) \/ j \in new
    BY <1>4, <1>5
  <2>3. new \subseteq Windows
    OBVIOUS
  <2> HIDE DEF new
  <2>4. Reached(i + 1) = Reached(i) \cup new
    BY <2>1, <2>2, <2>3
  <2> QED
    BY <2>4 DEF new
<1>6. EndsTo(i) = EndsTo(i - 1) \cup (IF Calm(i) /\ Reached(i) # {} THEN {i} ELSE {})
  <2>1. ASSUME NEW k \in Windows PROVE k <= i <=> k <= i - 1 \/ k = i
    BY <1>1
  <2>2. ~(i <= i - 1)
    BY <1>1
  <2> QED
    BY <2>1, <2>2 DEF EndsTo
<1> QED
  BY <1>2, <1>3, <1>5, <1>6

\* The recoveries so far are finitely many, and each has a duration.
LEMMA EndsFacts ==
  ASSUME TypeOK, NEW i
  PROVE  /\ EndsTo(i) \subseteq Windows /\ EndsTo(i) \subseteq Int /\ IsFiniteSet(EndsTo(i))
         /\ Cardinality(EndsTo(i)) \in Nat
         /\ \A k \in EndsTo(i) : Lasted(k) \in Int
         /\ Durations(EndsTo(i)) \in Seq(Int)
         /\ Len(Durations(EndsTo(i))) = Cardinality(EndsTo(i))
<1> DEFINE E == EndsTo(i)
           n == Cardinality(E)
           order == InOrder(E, Increasing(E))
<1>1. E \subseteq Windows
  BY DEF EndsTo
<1>2. Windows \subseteq DOMAIN s3 /\ DOMAIN s3 \subseteq Nat
  BY S3Rows, MeasuresAssumption DEF Windows
<1>3. IsFiniteSet(E)
  BY <1>1, <1>2, S3Rows
<1>4. E \subseteq Int
  BY <1>1, <1>2
<1>5. n \in Nat
  BY <1>3, FS_CardinalityType
<1>6. ASSUME NEW k \in E PROVE Lasted(k) \in Int
  <2>1. Reached(k) \subseteq Windows /\ Reached(k) # {}
    BY DEF Reached, EndsTo
  <2>2. Min(Reached(k)) \in DOMAIN s3
    BY <2>1, <1>2, MinNat
  <2>3. s3[k].at \in Nat /\ s3[Min(Reached(k))].at \in Nat
    BY <2>2, <1>1, <1>2, S3Rows
  <2> QED
    BY <2>3 DEF Lasted
<1>7. order \in [1..n -> E]
  <2> HIDE DEF E
  <2> QED
    BY <1>3, <1>4, IncreasingTotal, InOrderBijection
<1> HIDE DEF order
<1>8. \A k \in 1..n : Lasted(order[k]) \in Int
  BY <1>6, <1>7
<1> DEFINE d == [k \in 1..n |-> Lasted(order[k])]
<1>9. Durations(E) = d
  BY DEF Durations, order
<1> HIDE DEF n
<1>10. d \in Seq(Int) /\ Len(d) = n
  BY <1>5, <1>8
<1> QED
  BY <1>1, <1>3, <1>4, <1>5, <1>6, <1>9, <1>10 DEF n

\* A recovery appends its duration.
LEMMA DurationsAppended ==
  ASSUME TypeOK, NEW i \in Windows, Calm(i), Reached(i) # {}
  PROVE  Durations(EndsTo(i)) = Append(Durations(EndsTo(i - 1)), Lasted(i))
<1> DEFINE S == EndsTo(i - 1)
           T == EndsTo(i)
           n == Cardinality(S)
           order == InOrder(S, Increasing(S))
           longer == InOrder(T, Increasing(T))
<1>1. T = S \cup {i}
  BY ReachedStep
<1>2. S \subseteq Int /\ IsFiniteSet(S) /\ n \in Nat
  BY EndsFacts
<1>3. i \in Nat /\ Windows \subseteq Nat
  BY MeasuresAssumption, S3Rows DEF Windows
<1>4. \A k \in S : k < i
  <2>1. ASSUME NEW k \in S PROVE k < i
    <3>1. k \in Windows /\ k <= i - 1
      BY DEF EndsTo
    <3>2. k \in Nat
      BY <3>1, <1>3
    <3> QED
      BY <3>1, <3>2, <1>3
  <2> QED
    BY <2>1
<1> HIDE DEF S, T
<1>5. /\ Cardinality(T) = n + 1
      /\ \A k \in 1..n : longer[k] = order[k]
      /\ longer[n + 1] = i
  <2> DEFINE U == S \cup {i}
             more == InOrder(U, Increasing(U))
  <2>1. i \in Int
    BY <1>3
  <2>2. /\ Cardinality(U) = n + 1
        /\ \A k \in 1..n : more[k] = order[k]
        /\ more[n + 1] = i
    BY <2>1, <1>2, <1>4, IncreasingAppended, Zenon
  <2>3. T = U
    BY <1>1
  <2> HIDE DEF U
  <2> QED
    BY <2>2, <2>3
<1> DEFINE d == Durations(S)
<1>6. d \in Seq(Int) /\ Len(d) = n /\ \A k \in 1..n : d[k] = Lasted(order[k])
  <2>1. d \in Seq(Int) /\ Len(d) = n
    BY EndsFacts DEF S
  <2> QED
    BY <2>1 DEF Durations
<1>7. Durations(T) = [k \in 1..n + 1 |-> Lasted(longer[k])]
  BY <1>5 DEF Durations
<1>8. Lasted(i) \in Int
  BY <1>1, EndsFacts DEF T
<1> HIDE DEF n, order, longer, d
<1>9. \A k \in 1..n + 1 : Lasted(longer[k]) = IF k <= n THEN d[k] ELSE Lasted(i)
  <2>1. \A k \in 1..n + 1 : (k <= n => k \in 1..n) /\ (~(k <= n) => k = n + 1)
    BY <1>2
  <2> QED
    BY <2>1, <1>5, <1>6
<1>10. Durations(T) = [k \in 1..n + 1 |-> IF k <= n THEN d[k] ELSE Lasted(i)]
  BY <1>7, <1>9
<1>11. Append(d, Lasted(i)) = [k \in 1..n + 1 |-> IF k <= n THEN d[k] ELSE Lasted(i)]
  <2> DEFINE e == Append(d, Lasted(i))
  <2>1. /\ e \in Seq(Int) /\ Len(e) = n + 1 /\ e[n + 1] = Lasted(i)
        /\ \A k \in 1..n : e[k] = d[k]
    BY <1>2, <1>6, <1>8
  <2> HIDE DEF e
  <2>2. e = [k \in 1..n + 1 |-> e[k]]
    BY <2>1
  <2>3. \A k \in 1..n + 1 : e[k] = IF k <= n THEN d[k] ELSE Lasted(i)
    <3>1. \A k \in 1..n + 1 : (k <= n => k \in 1..n) /\ (~(k <= n) => k = n + 1)
      BY <1>2
    <3> QED
      BY <2>1, <3>1
  <2>4. e = [k \in 1..n + 1 |-> IF k <= n THEN d[k] ELSE Lasted(i)]
    BY <2>2, <2>3
  <2> QED
    BY <2>4 DEF e
<1> QED
  BY <1>10, <1>11 DEF S, T, d

\* The state of the loop after window i, as the definitions above give it.
Walked(i) == [since |-> SinceAfter(i), durations |-> Durations(EndsTo(i))]

\* Before the first full window nothing has been reached and nothing has ended.
LEMMA WalkBegins ==
  ASSUME TypeOK, NEW i \in 0..Len(s3), i < MttrWindow
  PROVE  Walked(i) = Unwound
<1>1. \A j \in Windows : ~(j <= i) /\ ~(j < i + 1)
  BY S3Rows, MeasuresAssumption DEF Windows
<1>2. Reached(i + 1) = {} /\ EndsTo(i) = {}
  BY <1>1 DEF Reached, EndsTo
<1>3. Cardinality(EndsTo(i)) = 0
  BY <1>2, FS_EmptySet
<1>4. Durations(EndsTo(i)) \in Seq(Int) /\ Len(Durations(EndsTo(i))) = 0
  BY <1>3, EndsFacts
<1>5. Durations(EndsTo(i)) = <<>>
  BY <1>4
<1> QED
  BY <1>2, <1>5 DEF Walked, SinceAfter, Unwound

\* One turn of the loop of mttr: the four outcomes of its if and elif.
LEMMA WalkStep ==
  ASSUME TypeOK, NEW i \in Windows
  PROVE  MttrStep(s3, Walked(i - 1), i) = Walked(i)
<1> DEFINE before == Walked(i - 1)
           first == s3[Min(Reached(i))].at
<1>1. i \in Nat /\ Windows \subseteq DOMAIN s3 /\ DOMAIN s3 \subseteq Nat /\ i - 1 + 1 = i
  BY MeasuresAssumption, S3Rows DEF Windows
<1>2. before = [since |-> IF Reached(i) = {} THEN None ELSE first, durations |-> Durations(EndsTo(i - 1))]
  BY <1>1 DEF Walked, SinceAfter
<1>3. Reached(i) \subseteq Windows /\ \A j \in Reached(i) : j < i
  BY DEF Reached
<1>4. Reached(i) # {} => first \in Nat /\ first # None
  <2> SUFFICES ASSUME Reached(i) # {} PROVE first \in Nat
    BY MeasuresAssumption
  <2>1. Min(Reached(i)) \in DOMAIN s3
    BY <1>1, <1>3, MinNat
  <2> QED
    BY <2>1, S3Rows
<1>5. /\ RecoveryPct * MttrWindow \in Int /\ ErrorPct * MttrWindow \in Int
      /\ RecoveryPct * MttrWindow < ErrorPct * MttrWindow
  <2>1. \A r, e \in Nat, w \in Nat \ {0} : r < e => r * w \in Int /\ e * w \in Int /\ r * w < e * w
    OBVIOUS
  <2> QED
    BY <2>1, MeasuresAssumption
<1>6. Rate(s3, i) \in Int /\ (Calm(i) <=> Recovers(Rate(s3, i))) /\ ~(Calm(i) /\ Rate(s3, i) >= ErrorPct * MttrWindow)
  BY <1>5, ReachedStep DEF Calm, Recovers
<1>7. CASE Reached(i) = {} /\ Rate(s3, i) >= ErrorPct * MttrWindow
  <2>1. MttrStep(s3, before, i) = [since |-> s3[i].at, durations |-> Durations(EndsTo(i - 1))]
    BY <1>2, <1>7 DEF MttrStep
  <2>2. Reached(i + 1) = {i} /\ EndsTo(i) = EndsTo(i - 1)
    BY <1>6, <1>7, ReachedStep
  <2>3. Min({i}) = i
    BY <1>1, MinNat
  <2> QED
    BY <2>1, <2>2, <2>3 DEF Walked, SinceAfter
<1>8. CASE Reached(i) # {} /\ Calm(i)
  <2>1. MttrStep(s3, before, i)
          = [since |-> None, durations |-> Append(Durations(EndsTo(i - 1)), s3[i].at - first)]
    BY <1>2, <1>4, <1>6, <1>8 DEF MttrStep
  <2>2. Reached(i + 1) = {}
    BY <1>8, ReachedStep
  <2>3. Durations(EndsTo(i)) = Append(Durations(EndsTo(i - 1)), s3[i].at - first)
    BY <1>8, DurationsAppended DEF Lasted
  <2> QED
    BY <2>1, <2>2, <2>3 DEF Walked, SinceAfter
<1>9. CASE Reached(i) = {} /\ ~(Rate(s3, i) >= ErrorPct * MttrWindow)
  <2>1. MttrStep(s3, before, i) = before
    BY <1>2, <1>9 DEF MttrStep
  <2>2. Reached(i + 1) = {} /\ EndsTo(i) = EndsTo(i - 1)
    BY <1>9, ReachedStep
  <2> QED
    BY <2>1, <2>2, <1>2, <1>9 DEF Walked, SinceAfter
<1>10. CASE Reached(i) # {} /\ ~Calm(i)
  <2>1. MttrStep(s3, before, i) = before
    BY <1>2, <1>4, <1>6, <1>10 DEF MttrStep
  <2>2. EndsTo(i) = EndsTo(i - 1)
    BY <1>10, ReachedStep
  <2>3. Reached(i) \subseteq Reached(i + 1) /\ Reached(i + 1) \subseteq Reached(i) \cup {i}
    BY <1>10, ReachedStep
  <2>4. Min(Reached(i + 1)) = Min(Reached(i))
    <3>1. /\ Min(Reached(i)) \in Reached(i)
          /\ \A j \in Reached(i) : Min(Reached(i)) <= j
      BY <1>1, <1>3, <1>10, MinNat
    <3>2. /\ Min(Reached(i + 1)) \in Reached(i + 1)
          /\ \A j \in Reached(i + 1) : Min(Reached(i + 1)) <= j
      <4>1. Reached(i + 1) \subseteq Nat /\ Reached(i + 1) # {}
        BY <1>1, <1>3, <1>10, <2>3
      <4> QED
        BY <4>1, MinNat
    <3>3. Min(Reached(i)) \in Nat /\ Min(Reached(i)) < i /\ Min(Reached(i + 1)) <= Min(Reached(i))
      BY <1>1, <1>3, <2>3, <3>1, <3>2
    <3>4. Min(Reached(i + 1)) \in Nat
      BY <1>1, <1>3, <2>3, <3>2
    <3>5. Min(Reached(i + 1)) \in Reached(i)
      BY <1>1, <2>3, <3>2, <3>3, <3>4
    <3> QED
      BY <3>1, <3>3, <3>4, <3>5
  <2> QED
    BY <2>1, <2>2, <2>3, <2>4, <1>2, <1>10 DEF Walked, SinceAfter
<1> QED
  BY <1>7, <1>8, <1>9, <1>10

\* What the loop knows after window n, by the least counterexample.
LEMMA WalkIsWalked ==
  ASSUME TypeOK, NEW n \in 0..Len(s3)
  PROVE  Walk(s3)[n] = Walked(n)
<1> DEFINE T == {i \in 0..Len(s3) : Walk(s3)[i] # Walked(i)}
<1> SUFFICES ASSUME T # {} PROVE FALSE
  OBVIOUS
<1>1. Len(s3) \in Nat /\ T \subseteq Nat
  BY S3Rows
<1>2. PICK i \in T : \A j \in T : i <= j
  BY <1>1, LeastNat
<1>3. Walk(s3)[i] = IF i < MttrWindow THEN Unwound ELSE MttrStep(s3, Walk(s3)[i - 1], i)
  BY <1>1, WalkEquation DEF WalksTo
<1>4. CASE i < MttrWindow
  BY <1>3, <1>4, WalkBegins
<1>5. CASE ~(i < MttrWindow)
  <2>1. i \in Windows /\ i - 1 \in 0..Len(s3) /\ ~(i <= i - 1)
    BY <1>1, <1>5, MeasuresAssumption DEF Windows
  <2>2. Walk(s3)[i - 1] = Walked(i - 1)
    BY <1>2, <2>1
  <2> QED
    BY <1>3, <1>5, <2>1, <2>2, WalkStep
<1> QED
  BY <1>4, <1>5

\* The recoveries of mttr, of any series in the order of time.
LEMMA MttrExactOfSeries ==
  ASSUME SeriesInv
  PROVE  MttrExact
<1> DEFINE n == Len(s3)
           ends == {i \in Windows : Calm(i) /\ Reached(i) # {}}
           sorted == InOrder(ends, {p \in ends \X ends : p[1] < p[2]})
<1> SUFFICES ASSUME Distinct
             PROVE  Mttr(s3) =
                      [durations |-> [k \in DOMAIN sorted |->
                                        s3[sorted[k]].at - s3[Min(Reached(sorted[k]))].at],
                       ongoing |-> Reached(n + 1) # {}]
  BY DEF MttrExact, Distinct, Windows, Calm, Reached
<1>1. n \in Nat /\ TypeOK
  BY S3Rows DEF SeriesInv
<1>2. Walk(s3)[n] = Walked(n)
  BY <1>1, WalkIsWalked
<1>3. Mttr(s3) = [durations |-> Walked(n).durations, ongoing |-> Walked(n).since # None]
  BY <1>2, SortedAlready DEF Mttr
<1>4. EndsTo(n) = ends
  <2>1. \A k \in Windows : k <= n
    BY <1>1, MeasuresAssumption DEF Windows
  <2> QED
    BY <2>1 DEF EndsTo
<1>5. Walked(n).durations = [k \in DOMAIN sorted |->
                               s3[sorted[k]].at - s3[Min(Reached(sorted[k]))].at]
  <2>1. DOMAIN sorted = 1..Cardinality(ends)
    BY DEF InOrder
  <2>2. sorted = InOrder(EndsTo(n), Increasing(EndsTo(n)))
    BY <1>4 DEF Increasing
  <2> HIDE DEF sorted, ends
  <2>3. Walked(n).durations = [k \in 1..Cardinality(ends) |-> Lasted(sorted[k])]
    BY <2>2, <1>4 DEF Walked, Durations
  <2> QED
    BY <2>1, <2>3 DEF Lasted
<1>6. Walked(n).since # None <=> Reached(n + 1) # {}
  <2>1. Walked(n).since = SinceAfter(n)
    BY DEF Walked
  <2>2. ASSUME Reached(n + 1) # {} PROVE SinceAfter(n) # None
    <3>1. Reached(n + 1) \subseteq DOMAIN s3 /\ DOMAIN s3 \subseteq Nat
      BY <1>1, S3Rows, MeasuresAssumption DEF Reached, Windows
    <3>2. Min(Reached(n + 1)) \in DOMAIN s3
      BY <2>2, <3>1, MinNat
    <3>3. s3[Min(Reached(n + 1))].at \in Nat
      BY <3>2, <1>1, S3Rows
    <3> QED
      BY <2>2, <3>3, MeasuresAssumption DEF SinceAfter
  <2> QED
    BY <2>1, <2>2 DEF SinceAfter
<1> QED
  BY <1>3, <1>5, <1>6

\* mttr finds exactly the recoveries that its two thresholds define, each as long as from the
\* first window that reached the error rate: for every window length, pair of thresholds and
\* series without two rows of one second.
THEOREM MttrIsExact == Spec => []MttrExact
<1>1. SeriesInv => MttrExact
  BY MttrExactOfSeries
<1> QED
  BY <1>1, SeriesStayTyped, PTL

=============================================================================
