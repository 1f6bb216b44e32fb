------------------------------- MODULE Status -------------------------------
(***************************************************************************)
(* What the four executors find out (a result), the status string each of  *)
(* them makes of it, and the prefix tests by which the webhook code reads  *)
(* the severity back out of that string.  A status is the sequence of its  *)
(* colon-separated fields; texts and figures are left out.                 *)
(***************************************************************************)
EXTENDS Naturals, Sequences

HttpClasses == {"1xx", "2xx", "3xx", "4xx", "5xx"}
Severities == {"warning", "critical"}

(***************************************************************************)
(* S3: error is a transport error, http the class of the answer's status   *)
(* ("none" when it has none), stages the severities of the stages slower   *)
(* than the baseline ({} without auto_compare).  http: whether a sample    *)
(* failed.  mtr: the severities of the hops worse than the baseline.  tcp: *)
(* the retransmission rate in tenths of a percent.                         *)
(***************************************************************************)
S3Results == [kind : {"s3"}, error : BOOLEAN, http : HttpClasses \cup {"none"},
              stages : SUBSET Severities]
HttpResults == [kind : {"http"}, errors : BOOLEAN]
MtrResults == [kind : {"mtr"}, hops : SUBSET Severities]
TcpResults == [kind : {"tcp"}, retrans : {0, 1, 9, 10}]

Results(kind) ==
  CASE kind = "s3"   -> S3Results
    [] kind = "http" -> HttpResults
    [] kind = "mtr"  -> MtrResults
    [] kind = "tcp"  -> TcpResults

-----------------------------------------------------------------------------
S3Status(r) ==
  IF r.error THEN <<"err", "op", "text">>
  ELSE IF r.http = "none" THEN <<"unknown", "op">>
  ELSE IF r.http \in {"2xx", "3xx"} THEN <<"ok", "op", r.http>>
  ELSE <<"http", "op", r.http>>

\* The loop over the stages stops at the first critical one.
Worst(severities) == IF "critical" \in severities THEN "critical" ELSE "warning"

\* Only an "ok:" status is compared with the baseline.
StatusWithCompare(base, stages) ==
  IF base[1] = "ok" /\ stages # {} THEN <<Worst(stages), "stage">> ELSE base

HttpStatus(r) == IF r.errors THEN <<"err", "n/m">> ELSE <<"ok", "summary">>

MtrStatus(r) == IF r.hops = {} THEN <<"ok", "vs-baseline">> ELSE <<Worst(r.hops), "hop">>

TcpStatus(r) ==
  IF r.retrans >= 10 THEN <<"critical", "retrans">>
  ELSE IF r.retrans >= 1 THEN <<"warning", "retrans">>
  ELSE <<"ok", "retrans">>

StatusOf(r) ==
  CASE r.kind = "s3"   -> StatusWithCompare(S3Status(r), r.stages)
    [] r.kind = "http" -> HttpStatus(r)
    [] r.kind = "mtr"  -> MtrStatus(r)
    [] r.kind = "tcp"  -> TcpStatus(r)

-----------------------------------------------------------------------------
NoUnknownPrefix(status) ==
  \/ status[1] \in {"warning", "critical", "err"}
  \/ status[1] = "http" /\ status[2] \in {"4xx", "5xx"}

\* startswith("warning:"), ..., startswith("http:4"), startswith("http:5"),
\* startswith("unknown").
IsDegraded(status) ==
  \/ status[1] \in {"warning", "critical", "err", "unknown"}
  \/ status[1] = "http" /\ status[2] \in {"4xx", "5xx"}

\* The server answered, and refused or failed.
HttpFailure(r) == r.kind = "s3" /\ ~r.error /\ r.http \in {"4xx", "5xx"}

\* What the executor found calls for an alarm, whatever string it made of it.
Alarming(r) ==
  CASE r.kind = "s3"   -> \/ r.error \/ r.http \in {"none", "4xx", "5xx"}
                          \/ r.http \in {"2xx", "3xx"} /\ r.stages # {}
    [] r.kind = "http" -> r.errors
    [] r.kind = "mtr"  -> r.hops # {}
    [] r.kind = "tcp"  -> r.retrans >= 1
=============================================================================
