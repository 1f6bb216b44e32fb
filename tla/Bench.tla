-------------------------------- MODULE Bench --------------------------------
(***************************************************************************)
(* The S3 bench: a number of operations on a pool of threads, and, once    *)
(* all of them have ended, one session that writes a row of s3_runs for    *)
(* each and a row of s3_tracked_objects for each PUT that was accepted.    *)
(* A bench of GETs leaves nothing behind but rows of s3_runs: left out.    *)
(***************************************************************************)
EXTENDS Naturals, FiniteSets

CONSTANTS
  Ops,           \* the operations of a bench
  Concurrency    \* threads of the pool

ASSUME BenchAssumption == Concurrency \in Nat \ {0}

VARIABLES
  stage,     \* where run_bench is
  op,        \* operation -> where it is, and what its worker learnt
  stored,    \* operations whose object is in the bucket
  tracked    \* operations with a row of s3_tracked_objects

benchVars == <<stage, op, stored, tracked>>

\* What a worker learns of its operation: an answer of a class of statuses,
\* an error string, or nothing, because the worker raised.
Outcomes == {"2xx", "3xx", "4xx", "error", "raise"}
Ended == Outcomes \cup {"lost"}

BenchInit ==
  /\ stage = "idle"
  /\ op = [i \in Ops |-> "queued"]
  /\ stored = {} /\ tracked = {}

BeginBench ==
  /\ stage = "idle" /\ stage' = "running"
  /\ UNCHANGED <<op, stored, tracked>>

Working == {i \in Ops : op[i] = "working"}

\* The pool goes through its queue even when another worker has raised.
StartOp(i) ==
  /\ stage \in {"running", "raised"}
  /\ op[i] = "queued" /\ Cardinality(Working) < Concurrency
  /\ op' = [op EXCEPT ![i] = "working"]
  /\ UNCHANGED <<stage, stored, tracked>>

\* The endpoint (external): a PUT that was not refused may have been applied.
Effects(i, outcome) ==
  IF outcome = "4xx" THEN {stored}
  ELSE IF outcome = "2xx" THEN {stored \cup {i}}
  ELSE {stored, stored \cup {i}}

EndOp(i, outcome) ==
  /\ op[i] = "working"
  /\ op' = [op EXCEPT ![i] = outcome]
  /\ stored' \in Effects(i, outcome)
  /\ UNCHANGED <<stage, tracked>>

\* fut.result() raises again what the worker raised, out of the with block,
\* which waits for the pool.
CollectRaise ==
  /\ stage = "running" /\ \E i \in Ops : op[i] = "raise"
  /\ stage' = "raised"
  /\ UNCHANGED <<op, stored, tracked>>

AllEnded == \A i \in Ops : op[i] \in Outcomes

\* The rows of those that did answer are gone with the exception.
PoolLeft ==
  /\ stage = "raised" /\ AllEnded
  /\ stage' = "failed"
  /\ UNCHANGED <<op, stored, tracked>>

Collected ==
  /\ stage = "running" /\ AllEnded /\ \A i \in Ops : op[i] # "raise"
  /\ stage' = "collected"
  /\ UNCHANGED <<op, stored, tracked>>

TracksSuccessful(i) == op[i] \in {"2xx", "3xx"}

\* Whatever was answered below 400 counts as successful, but not as stored.
Tracks(i) == op[i] = "2xx"

RecordBench ==
  /\ stage = "collected" /\ stage' = "done"
  /\ tracked' = {i \in Ops : Tracks(i)}
  /\ UNCHANGED <<op, stored>>

\* The session of the rows fails.
RecordFails ==
  /\ stage = "collected" /\ stage' = "failed"
  /\ UNCHANGED <<op, stored, tracked>>

\* Workers die with the process, in the middle of a request perhaps.
BenchKilled ==
  /\ stage \in {"running", "raised", "collected"} /\ stage' = "failed"
  /\ op' = [i \in Ops |-> IF op[i] \in {"queued", "working"} THEN "lost" ELSE op[i]]
  /\ stored' \in {stored \cup lost : lost \in SUBSET Working}
  /\ UNCHANGED <<tracked>>

BenchStep ==
  \/ \E i \in Ops : StartOp(i) \/ \E outcome \in Outcomes : EndOp(i, outcome)
  \/ CollectRaise \/ PoolLeft \/ Collected

BenchNext == BeginBench \/ BenchStep \/ RecordBench \/ RecordFails \/ BenchKilled

BenchSpec == BenchInit /\ [][BenchNext]_benchVars

-----------------------------------------------------------------------------
BenchTypeOK ==
  /\ stage \in {"idle", "running", "raised", "collected", "done", "failed"}
  /\ op \in [Ops -> Ended \cup {"queued", "working"}]
  /\ stored \subseteq Ops /\ tracked \subseteq Ops

(***************************************************************************)
(* docs/s3-bench.md:35, as far as it holds: an object of a bench that has  *)
(* no row in s3_tracked_objects, for the purge to find, is one whose PUT   *)
(* got no clear answer, or belongs to a bench that failed as a whole; and  *)
(* no row stands for an object that was never stored.                      *)
(***************************************************************************)
BenchObjectsTracked ==
  /\ tracked \subseteq stored
  /\ stage = "done" => \A i \in stored \ tracked : op[i] \in {"3xx", "error"}
=============================================================================
