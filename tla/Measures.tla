------------------------------ MODULE Measures -------------------------------
(***************************************************************************)
(* What is made of a series of runs of one target: the verdict on the      *)
(* latest one against the median of those before it, the bursts and the    *)
(* recoveries of the dashboard, the hops that went dark and the asymmetry  *)
(* of two protocols.  The operators are pure; the specification only lets  *)
(* the two tables grow, so that every series up to a length is met.        *)
(***************************************************************************)
EXTENDS Integers, Sequences, FiniteSets, FiniteSetsExt

CONSTANTS
  BaselineN,        \* baseline_n: how many runs of S3 or HTTP a baseline is made of
  LastN,            \* baseline_n, last_n: how many runs of mtr
  MinDelta,         \* ms a stage must lose before it is called degraded
  BurstN, BurstWindow,                 \* n, window_s of detect_burst
  MttrWindow, ErrorPct, RecoveryPct,   \* the parameters of mttr
  Times,            \* durations of a run of S3, in ms
  Gaps,             \* seconds between two runs; 0 for one second's
  MaxS3, MaxMtr,    \* bounds: rows of either table
  None

ASSUME MeasuresAssumption ==
  /\ BaselineN \in Nat \ {0} /\ LastN \in Nat \ {0}
  /\ BurstN \in Nat \ {0} /\ MttrWindow \in Nat \ {0}
  /\ MinDelta \in Nat /\ BurstWindow \in Nat
  /\ Times \subseteq Nat \ {0} /\ Gaps \subseteq Nat
  /\ RecoveryPct \in Nat /\ ErrorPct \in Nat /\ RecoveryPct < ErrorPct
  /\ None \notin Nat /\ None \notin [count : Nat, first : Nat, last : Nat]

VARIABLES
  s3,    \* s3_runs of one endpoint, in the order of their ids
  mtr    \* runs of one target, with their hops

vars == <<s3, mtr>>

\* at: started_at, in seconds.  A run with an error or a status of 400 and
\* more is one without ms here: nothing below asks how long it took.
S3Run == [at : Nat, ms : Times \cup {None}]
Ok(r) == r.ms # None

Lit == [host |-> "h2", avg |-> 10, loss |-> 0]
Slow == [Lit EXCEPT !.avg = 40]
Elsewhere == [Lit EXCEPT !.host = "h3"]
Dark == [host |-> "???", avg |-> 0, loss |-> 100]

\* hops: hop_index -> its row.  The first hop is always there.
Paths == {<<Lit>>} \cup {<<Lit, hop>> : hop \in {Lit, Slow, Elsewhere, Dark}}
MtrRun == [proto : {"tcp", "icmp"}, hops : Paths]

Init == s3 = <<>> /\ mtr = <<>>

LastAt == IF s3 = <<>> THEN 0 ELSE s3[Len(s3)].at

\* No operator below reads both tables: one of them grows.
StoreS3(gap, ms) ==
  /\ mtr = <<>> /\ Len(s3) < MaxS3
  /\ s3' = Append(s3, [at |-> LastAt + gap, ms |-> ms])
  /\ UNCHANGED mtr

StoreMtr(run) ==
  /\ s3 = <<>> /\ Len(mtr) < MaxMtr
  /\ mtr' = Append(mtr, run)
  /\ UNCHANGED s3

Next ==
  \/ \E gap \in Gaps, ms \in Times \cup {None} : StoreS3(gap, ms)
  \/ \E run \in MtrRun : StoreMtr(run)

Spec == Init /\ [][Next]_vars

-----------------------------------------------------------------------------
(* The median and the thresholds.  A series is a set of row numbers. *)

\* The rows of S that ORDER BY started_at DESC LIMIT n selects.
LatestOf(S, n) == {i \in S : Cardinality({j \in S : j > i}) < n}

\* The elements of S in a strict order, a set of pairs.
InOrder(S, before) ==
  [k \in 1..Cardinality(S) |->
     CHOOSE i \in S : Cardinality({j \in S : <<j, i>> \in before}) = k - 1]

ByValue(values) ==
  {p \in (DOMAIN values) \X (DOMAIN values) :
     \/ values[p[1]] < values[p[2]]
     \/ values[p[1]] = values[p[2]] /\ p[1] < p[2]}

\* The newest alone.
NewestTwice(values) == 2 * values[Max(DOMAIN values)]

\* Twice the median, which may be half-way between two values.
MedianTwice(values) ==
  LET v == InOrder(DOMAIN values, ByValue(values))
      n == Cardinality(DOMAIN values)
  IN  values[v[(n + 1) \div 2]] + values[v[n \div 2 + 1]]

Severity(ms, base) ==
  IF 2 * ms - base < 2 * MinDelta THEN "ok"
  ELSE IF 2 * ms >= 3 * base THEN "critical"
  ELSE IF 4 * ms >= 3 * base THEN "warning"
  ELSE "ok"

Successful == {i \in DOMAIN s3 : Ok(s3[i])}

MsTwice(S) == MedianTwice([i \in S |-> s3[i].ms])
BaselineTwice(S) == MsTwice(LatestOf(S, BaselineN))

Current == s3[Len(s3)]
Earlier == Successful \ {Len(s3)}

\* The job of an S3 schedule reads its baseline after it has stored the run.
S3Verdict == Severity(Current.ms, BaselineTwice(Successful))

\* A daemon reads its baseline before it stores the run (its runs are those of
\* a URL, with a median and thresholds of the same form).
DaemonVerdict ==
  IF Earlier = {} THEN "ok" ELSE Severity(Current.ms, BaselineTwice(Earlier))

-----------------------------------------------------------------------------
(* The dashboard *)

\* sorted() keeps the order of the rows of one second, which come newest
\* first.
ByTime(runs) ==
  {p \in (DOMAIN runs) \X (DOMAIN runs) :
     \/ runs[p[1]].at < runs[p[2]].at
     \/ runs[p[1]].at = runs[p[2]].at /\ p[1] > p[2]}

Errors(runs) == InOrder({i \in DOMAIN runs : ~Ok(runs[i])}, ByTime(runs))

InOpenWindow(span) == span < BurstWindow
InWindow(span) == span <= BurstWindow

\* The largest slice of errors within the window, the first of them; None.
DetectBurst(runs) ==
  LET errs == Errors(runs)
      At(k) == runs[errs[k]].at
      slices == {s \in (DOMAIN errs) \X (DOMAIN errs) :
                   s[2] >= s[1] + BurstN - 1 /\ InWindow(At(s[2]) - At(s[1]))}
      Count(s) == s[2] - s[1] + 1
      Precedes(s, t) == Count(t) < Count(s) \/ (Count(t) = Count(s) /\ s[1] <= t[1])
  IN  IF slices = {} THEN None
      ELSE LET best == CHOOSE s \in slices : \A t \in slices : Precedes(s, t)
           IN  [count |-> Count(best), first |-> At(best[1]), last |-> At(best[2])]

ErrorsIn(rows, from, to) == Cardinality({k \in from..to : ~Ok(rows[k])})

\* The rate of the window that ends at i, in percent, times its length: the rate
\* itself need not be an integer.
Rate(rows, i) == 100 * ErrorsIn(rows, i - MttrWindow + 1, i)

RecoversEarly(rate) == rate < ErrorPct * MttrWindow
Recovers(rate) == rate <= RecoveryPct * MttrWindow

\* since: degraded_since; durations: of the recoveries so far.
MttrStep(rows, state, i) ==
  IF state.since = None /\ Rate(rows, i) >= ErrorPct * MttrWindow
    THEN [state EXCEPT !.since = rows[i].at]
  ELSE IF state.since # None /\ Recovers(Rate(rows, i))
    THEN [since |-> None, durations |-> Append(state.durations, rows[i].at - state.since)]
  ELSE state

Walk(rows) ==
  LET walk[i \in 0..Len(rows)] ==
        IF i < MttrWindow THEN [since |-> None, durations |-> <<>>]
                          ELSE MttrStep(rows, walk[i - 1], i)
  IN  walk

Mttr(runs) ==
  LET order == InOrder(DOMAIN runs, ByTime(runs))
      end == Walk([k \in DOMAIN runs |-> runs[order[k]]])[Len(runs)]
  IN  [durations |-> end.durations, ongoing |-> end.since # None]

-----------------------------------------------------------------------------
(* Paths *)

OfProto(proto) == {i \in DOMAIN mtr : mtr[i].proto = proto}

Listing(S, k) == {i \in S : k \in DOMAIN mtr[i].hops}

\* loss_pct and avg_ms of a hop of the baseline, twice.
LossTwice(S, k) == MedianTwice([i \in S |-> mtr[i].hops[k].loss])
AvgTwice(S, k) == MedianTwice([i \in S |-> mtr[i].hops[k].avg])

\* loss, avg: twice those of the baseline.
HopSeverity(hop, loss, avg) ==
  IF 2 * hop.loss - loss >= 20 THEN "critical"
  ELSE IF 2 * hop.loss - loss >= 6 THEN "warning"
  ELSE IF avg # 0 /\ 2 * (2 * hop.avg - avg) >= Max({avg, 2}) /\ 2 * hop.avg - avg >= 40
    THEN "warning"
  ELSE "ok"

\* The hops that the latest run of mtr shares with its baseline are judged.
Judged ==
  LET run == mtr[Len(mtr)]
      base == LatestOf(OfProto(run.proto) \ {Len(mtr)}, LastN)
  IN  [k \in {k \in DOMAIN run.hops : Listing(base, k) # {}} |->
         HopSeverity(run.hops[k], LossTwice(Listing(base, k), k), AvgTwice(Listing(base, k), k))]

\* Without the LIMIT.
OldestOf(S) == mtr[Min(S)]

\* runs[-1] of a list that comes newest first.
Representative(S) == mtr[Min(LatestOf(S, LastN))]

TypicalHops(run) == {<<k, run.hops[k].host>> : k \in {k \in DOMAIN run.hops : run.hops[k].loss < 100}}

\* Divergent hops and all of them; the score is their ratio.
AsymmetryScore(S, T) ==
  LET a == TypicalHops(Representative(S))
      b == TypicalHops(Representative(T))
      all == {h[1] : h \in a \cup b}
      same == {h[1] : h \in a \cap b}
  IN  [divergent |-> Cardinality(all \ same), total |-> Cardinality(all)]

-----------------------------------------------------------------------------
Louder == [ok |-> 0, warning |-> 1, critical |-> 2]

(***************************************************************************)
(* A run of S3 is compared with a median it is part of itself, and never   *)
(* judged the harsher for it: without its own time it would get the same   *)
(* verdict or a worse one.  That is what a daemon does, but with one more  *)
(* run at the far end of its baseline: as long as there is none, it is at  *)
(* least as strict; once there is, it may well be the milder of the two.   *)
(* Two others are enough: three times slower than the slowest of them is   *)
(* critical; with one or none it need not be.  And no run is called        *)
(* degraded unless it is slower by half than half of the others.           *)
(***************************************************************************)
SpikesJudged ==
  s3 # <<>> /\ Ok(Current) =>
    LET others == LatestOf(Earlier, BaselineN - 1)
        slower == {i \in others : 2 * Current.ms >= 3 * s3[i].ms}
    IN  /\ others # {} =>
             Louder[S3Verdict] <= Louder[Severity(Current.ms, MsTwice(others))]
        /\ Cardinality(Earlier) < BaselineN => Louder[S3Verdict] <= Louder[DaemonVerdict]
        /\ (/\ Cardinality(others) >= 2
            /\ \A i \in others : Current.ms >= 3 * s3[i].ms /\ Current.ms - s3[i].ms >= MinDelta)
             => S3Verdict = "critical"
        /\ S3Verdict # "ok" => 2 * Cardinality(slower) >= Cardinality(others)

(***************************************************************************)
(* The burst of the dashboard has as many errors as there are in any       *)
(* interval of window_s seconds, if they are at least n, however many rows *)
(* share a second and however they come.                                   *)
(***************************************************************************)
BurstExact ==
  LET bad == {i \in DOMAIN s3 : ~Ok(s3[i])}
      Around(i) == {j \in bad : s3[j].at \in s3[i].at .. s3[i].at + BurstWindow}
      most == Max({Cardinality(Around(i)) : i \in bad} \cup {0})
  IN  IF most < BurstN THEN DetectBurst(s3) = None
      ELSE DetectBurst(s3) # None /\ DetectBurst(s3).count = most

(***************************************************************************)
(* Recoveries, as mttr counts them walking through the windows: one for    *)
(* each window at or below the recovery threshold that ends a stretch in   *)
(* which none was and the error rate was reached; its duration runs from   *)
(* the first window that reached it.  Rows of one second come in the wrong *)
(* order (newest first), so this is said of series without such rows.      *)
(***************************************************************************)
MttrExact ==
  (\A i, j \in DOMAIN s3 : s3[i].at = s3[j].at => i = j) =>
    LET windows == MttrWindow..Len(s3)
        Calm(i) == Rate(s3, i) <= RecoveryPct * MttrWindow
        \* the degraded windows of the stretch that ends before i
        Reached(i) == {j \in windows : /\ j < i /\ Rate(s3, j) >= ErrorPct * MttrWindow
                                       /\ \A k \in j..i - 1 : ~Calm(k)}
        ends == {i \in windows : Calm(i) /\ Reached(i) # {}}
        sorted == InOrder(ends, {p \in ends \X ends : p[1] < p[2]})
    IN  Mttr(s3) =
          [durations |-> [n \in DOMAIN sorted |-> s3[sorted[n]].at - s3[Min(Reached(sorted[n]))].at],
           ongoing |-> Reached(Len(s3) + 1) # {}]

(***************************************************************************)
(* A hop that has gone dark is critical, and stays so run after run, until *)
(* more than half of the runs of its baseline that list it were dark too.  *)
(***************************************************************************)
DarkIsCritical ==
  mtr # <<>> =>
    LET run == mtr[Len(mtr)]
        others == LatestOf(OfProto(run.proto) \ {Len(mtr)}, LastN)
        listing == Listing(others, 2)
        dark == {i \in listing : mtr[i].hops[2] = Dark}
    IN  Len(run.hops) = 2 /\ run.hops[2] = Dark /\ listing # {} =>
          (Judged[2] = "critical" <=> 2 * Cardinality(dark) <= Cardinality(listing))

(***************************************************************************)
(* Whatever the paths were, two protocols whose last_n latest runs go the  *)
(* same way are not asymmetric, and it does not matter which comes first.  *)
(* (The hops are those of the oldest of these runs: a change of path is    *)
(* seen last_n runs late.)                                                 *)
(***************************************************************************)
AsymmetrySettles ==
  LET a == OfProto("tcp")
      b == OfProto("icmp")
      Ways(S) == {TypicalHops(mtr[i]) : i \in LatestOf(S, LastN)}
  IN  a # {} /\ b # {} =>
        /\ Ways(a) = Ways(b) /\ Cardinality(Ways(a)) = 1 => AsymmetryScore(a, b).divergent = 0
        /\ AsymmetryScore(a, b) = AsymmetryScore(b, a)
=============================================================================
