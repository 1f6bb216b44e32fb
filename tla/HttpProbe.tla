------------------------------ MODULE HttpProbe ------------------------------
(***************************************************************************)
(* The HTTP probes: probe_once takes one URL through its stages, calling   *)
(* itself for a redirect while its own socket stays open; probe_many does  *)
(* so a number of times, run_transaction once for each of its steps, with  *)
(* a cookie jar.  Timings, TLS metadata and header texts are left out.     *)
(***************************************************************************)
EXTENDS Naturals, Sequences, FiniteSets

CONSTANTS
  MaxRedirects,   \* max_redirects
  Count,          \* samples of a probe_many
  MaxSteps,       \* bound: steps of a transaction
  Cookies,        \* names of cookies
  None

Statuses == {"2xx", "3xx", "4xx"}
Errors == {"url", "dns", "tcp", "tls", "http", "empty"}

\* What probe_once tells.  redirects: how many were followed, which no field of
\* the sample says (on the way back every call leaves a redirect_chain of one);
\* final: which of their targets final_url is, 0 for None.
SampleType ==
  [error : Errors \cup {"none"}, status : Statuses \cup {None}, cookies : SUBSET Cookies,
   redirects : 0..MaxRedirects, final : 0..MaxRedirects]

ASSUME ProbeAssumption ==
  /\ MaxRedirects \in Nat
  /\ Count \in Nat \ {0} /\ MaxSteps \in Nat \ {0}
  /\ None \notin SampleType /\ None \notin Statuses /\ None \notin {{}, {"4xx"}}

VARIABLES
  job,       \* what is run, with the definition of a transaction
  frames,    \* the probe_once calls under way, outermost first
  sockets,   \* sockets opened and not closed
  sample,    \* what the last probe_once returned, until it is taken; or None
  results,   \* samples, or steps of the transaction, so far
  jar,       \* cookie -> the step it came from, or 0
  outcome    \* how the last job ended, with what it recorded

vars == <<job, frames, sockets, sample, results, jar, outcome>>

\* What a URL turns out to be: one that cannot be probed is an error of the
\* sample, one with a port that is no number raises.
Urls == {"https", "http", "unusable", "raises"}

\* One step of a transaction.  "url" may be missing; expect_status may be empty
\* or, like 200, no list at all (None).
StepDefs == [url : {"https", "raises", "missing"}, expect : {{}, {"4xx"}, None}]
Definitions == UNION {[1..n -> StepDefs] : n \in 1..MaxSteps}

Idle == [kind |-> "idle", url |-> None, steps |-> <<>>]
Jobs == {Idle} \cup [kind : {"many", "follow"}, url : Urls, steps : {<<>>}]
               \cup [kind : {"modern"}, url : {None}, steps : {<<>>}]
               \cup [kind : {"tx"}, url : {None}, steps : Definitions]

NoCookies == [c \in Cookies |-> 0]

Nothing == [how |-> "none", job |-> Idle, errors |-> 0]

Ended(how, errors) == [how |-> how, job |-> job, errors |-> errors]

Init ==
  /\ job = Idle /\ frames = <<>> /\ sockets = 0 /\ sample = None
  /\ results = <<>> /\ jar = NoCookies /\ outcome = Nothing

Begin(j) ==
  /\ job = Idle /\ j # Idle /\ job' = j
  /\ results' = <<>> /\ jar' = NoCookies /\ outcome' = Nothing
  /\ UNCHANGED <<frames, sockets, sample>>

-----------------------------------------------------------------------------
(* probe_once *)

Depth == Len(frames) - 1
At(stage) == frames # <<>> /\ frames[Len(frames)].at = stage
Top == frames[Len(frames)]

Frame(url) == [url |-> url, at |-> "parse", open |-> FALSE]

MoveTo(stage) == frames' = [frames EXCEPT ![Len(frames)].at = stage]

Opened(fs) == Cardinality({i \in DOMAIN fs : fs[i].open})

KeepsOpen(fs) == 0

\* finally: ssock.close()
Closed(fs) == Opened(fs)

Sample(error, status, cookies) ==
  [error |-> error, status |-> status, cookies |-> cookies,
   redirects |-> Depth, final |-> 0]

Return(s) ==
  /\ sample' = s
  /\ sockets' = sockets - Closed(<<Top>>)
  /\ frames' = SubSeq(frames, 1, Depth)
  /\ UNCHANGED <<job, results, jar, outcome>>

ReturnError(error) == Return(Sample(error, None, {}))

\* Every call under way is left, and with it the job: its samples are lost.
Raise ==
  /\ frames' = <<>> /\ sockets' = sockets - Closed(frames)
  /\ job' = Idle /\ outcome' = Ended("raised", 0)
  /\ results' = <<>> /\ UNCHANGED <<sample, jar>>

Parse ==
  /\ At("parse")
  /\ \/ Top.url = "unusable" /\ ReturnError("url")
     \/ Top.url = "raises" /\ Raise
     \/ /\ Top.url \in {"https", "http"} /\ MoveTo("resolve")
        /\ UNCHANGED <<job, sockets, sample, results, jar, outcome>>

\* A host that cannot be encoded, or no file descriptor left, raises.  So does a
\* negative timeout, at settimeout: the socket is open by then, outside the try,
\* and closed when the exception drops the last reference to it.
Resolve ==
  /\ At("resolve")
  /\ \/ ReturnError("dns")
     \/ Raise
     \/ /\ frames' = [frames EXCEPT ![Len(frames)] = [@ EXCEPT !.at = "connect", !.open = TRUE]]
        /\ sockets' = sockets + 1
        /\ UNCHANGED <<job, sample, results, jar, outcome>>

Connect ==
  /\ At("connect")
  /\ \/ ReturnError("tcp")
     \/ /\ MoveTo(IF Top.url = "https" THEN "tls" ELSE "http")
        /\ UNCHANGED <<job, sockets, sample, results, jar, outcome>>

Handshake ==
  /\ At("tls")
  /\ \/ ReturnError("tls")
     \/ MoveTo("http") /\ UNCHANGED <<job, sockets, sample, results, jar, outcome>>

IgnoresDepth(status, location) == job.kind = "follow" /\ status = "3xx" /\ location

Follows(status, location) ==
  job.kind = "follow" /\ status = "3xx" /\ location /\ Depth < MaxRedirects

\* A request that is not ASCII raises; a status line that cannot be read is
\* neither a status nor an error.
Request ==
  /\ At("http")
  /\ \/ \E error \in {"http", "empty"} : ReturnError(error)
     \/ Raise
     \/ \E status \in Statuses \cup {None}, location \in BOOLEAN, cookies \in SUBSET Cookies :
          IF Follows(status, location)
            THEN /\ \E url \in Urls :
                      frames' = Append([frames EXCEPT ![Len(frames)].at = "redirecting"],
                                       Frame(url))
                 /\ UNCHANGED <<job, sockets, sample, results, jar, outcome>>
            ELSE Return(Sample("none", status, cookies))

LeavesFinalUrl == sample # None /\ At("redirecting") /\ Return(sample)

\* The caller of a call that has returned writes its own chain and its own
\* next_url over whatever the sample says.
Redirected ==
  /\ sample # None /\ At("redirecting")
  /\ Return([sample EXCEPT !.final = Depth + 1])

ProbeOnce == Parse \/ Resolve \/ Connect \/ Handshake \/ Request \/ Redirected

-----------------------------------------------------------------------------
(* probe_many, probe_many_modern, run_transaction and who calls them *)

Waiting == job # Idle /\ frames = <<>> /\ sample = None

Probe(url) ==
  /\ frames' = <<Frame(url)>>
  /\ UNCHANGED <<job, sockets, sample, results, jar, outcome>>

NextSample ==
  /\ Waiting /\ job.kind \in {"many", "follow"} /\ Len(results) < Count
  /\ Probe(job.url)

\* httpx: every exception becomes an error of the sample, and redirects are
\* not followed.
ModernSample ==
  /\ Waiting /\ job.kind = "modern" /\ Len(results) < Count
  /\ \/ sample' = [error |-> "http", status |-> None, cookies |-> {},
                   redirects |-> 0, final |-> 0]
     \/ \E status \in Statuses :
          sample' = [error |-> "none", status |-> status, cookies |-> {},
                     redirects |-> 0, final |-> 0]
  /\ UNCHANGED <<job, frames, sockets, results, jar, outcome>>

TakeSample ==
  /\ sample # None /\ frames = <<>> /\ job.kind # "tx"
  /\ results' = Append(results, sample) /\ sample' = None
  /\ UNCHANGED <<job, frames, sockets, jar, outcome>>

Stopped == results # <<>> /\ ~results[Len(results)].ok

Current == job.steps[Len(results) + 1]

NextStep ==
  /\ Waiting /\ job.kind = "tx" /\ Len(results) < Len(job.steps) /\ ~Stopped
  /\ \/ Current.url # "missing" /\ Probe(Current.url)
     \/ Current.url = "missing" /\ Raise

ForgetsOthers(cookies) ==
  [c \in Cookies |-> IF c \in cookies THEN Len(results) + 1 ELSE 0]

JarAfter(cookies) ==
  [c \in Cookies |-> IF c \in cookies THEN Len(results) + 1 ELSE jar[c]]

AnyAnswer(step, s) == s.error = "none"

Acceptable(step, s) ==
  /\ s.error = "none"
  /\ s.status \in IF step.expect # {} THEN step.expect ELSE {"2xx", "3xx"}

\* sent: the jar this step's Cookie header was made of.
TakeStep ==
  /\ sample # None /\ frames = <<>> /\ job.kind = "tx"
  /\ Current.expect # None
  /\ results' = Append(results, [ok |-> Acceptable(Current, sample), sample |-> sample,
                                 sent |-> jar])
  /\ jar' = JarAfter(sample.cookies)
  /\ sample' = None
  /\ UNCHANGED <<job, frames, sockets, outcome>>

\* "status in expected" of something that cannot be searched.
StepRaises ==
  /\ sample # None /\ frames = <<>> /\ job.kind = "tx"
  /\ Current.expect = None
  /\ job' = Idle /\ outcome' = Ended("raised", 0)
  /\ results' = <<>> /\ sample' = None
  /\ UNCHANGED <<frames, sockets, jar>>

Finished ==
  /\ Waiting
  /\ IF job.kind = "tx" THEN Stopped \/ Len(results) = Len(job.steps)
                        ELSE Len(results) = Count

Failed(r) == IF job.kind = "tx" THEN ~r.ok ELSE r.error # "none"

\* The row that is written, and the exit code that is made of it.
Record ==
  /\ Finished
  /\ job' = Idle
  /\ outcome' = Ended("recorded", Cardinality({i \in DOMAIN results : Failed(results[i])}))
  /\ UNCHANGED <<frames, sockets, sample, results, jar>>

Next ==
  \/ \E j \in Jobs : Begin(j)
  \/ ProbeOnce
  \/ NextSample \/ ModernSample \/ TakeSample
  \/ NextStep \/ TakeStep \/ StepRaises
  \/ Record

Spec == Init /\ [][Next]_vars

-----------------------------------------------------------------------------
TypeOK ==
  /\ job \in Jobs
  /\ \A i \in DOMAIN frames :
       /\ frames[i].url \in Urls /\ frames[i].open \in BOOLEAN
       /\ frames[i].at = "redirecting" <=> i < Len(frames) \/ sample # None
       /\ frames[i].at \in {"parse", "resolve", "connect", "tls", "http", "redirecting"}
  /\ sockets \in Nat
  /\ sample \in SampleType \cup {None}
  /\ Len(results) <= IF job.kind = "tx" THEN MaxSteps ELSE Count + MaxSteps
  /\ jar \in [Cookies -> 0..MaxSteps]

(***************************************************************************)
(* "One socket per sample" (http_probe.py:4) is one for each redirect on   *)
(* the way, open at the same time; there are never more than the redirects *)
(* allowed and one, and none is left whatever raised at whatever depth.    *)
(***************************************************************************)
SocketsBounded ==
  /\ sockets <= MaxRedirects + 1
  /\ frames = <<>> => sockets = 0

(***************************************************************************)
(* A transaction that is recorded without an error ran all its steps, with *)
(* an answer that each of them accepts: the exit code of http-tx and the   *)
(* tick of its row do not hide a step that was never reached.              *)
(***************************************************************************)
AllOkMeansAll ==
  outcome.how = "recorded" /\ outcome.job.kind = "tx" =>
    (outcome.errors = 0 <=>
       /\ Len(results) = Len(outcome.job.steps)
       /\ \A i \in DOMAIN results :
            /\ results[i].sample.error = "none" /\ results[i].sample.status # None
            /\ outcome.job.steps[i].expect = {} => results[i].sample.status # "4xx"
            /\ outcome.job.steps[i].expect # {} => results[i].sample.status = "4xx")

(***************************************************************************)
(* "Cookies set by Set-Cookie in step N are sent automatically in step     *)
(* N+1" (http_transaction.py:10), and in every later step, each with its   *)
(* latest value; none comes from another transaction.                      *)
(***************************************************************************)
Setters(taken, c, i) == {j \in 1..i - 1 : c \in taken[j].sample.cookies}

Latest(steps) ==
  IF steps = {} THEN 0 ELSE CHOOSE j \in steps : \A k \in steps : k <= j

CookiesSent ==
  job.kind = "tx" =>
    \A i \in DOMAIN results, c \in Cookies :
      results[i].sent[c] = Latest(Setters(results, c, i))

(***************************************************************************)
(* final_url is the URL the request ended at when it was redirected once   *)
(* or not at all, whatever the inner call returned with.  FinalUrlIsFinal  *)
(* shows what becomes of longer chains.                                    *)
(***************************************************************************)
FinalUrlOfShortChains ==
  job.kind = "follow" =>
    \A i \in DOMAIN results :
      results[i].redirects <= 1 => results[i].final = results[i].redirects

(***************************************************************************)
(* "URL after redirect chain" (http_probe.py:42): final_url is the URL     *)
(* that the last of the redirects led to.                                  *)
(***************************************************************************)
FinalUrlIsFinal ==
  job.kind = "follow" => \A i \in DOMAIN results : results[i].final = results[i].redirects
=============================================================================
