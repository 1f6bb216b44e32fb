----------------------------- MODULE Scheduler ------------------------------
(***************************************************************************)
(* The schedules table and everyone who writes it: the scheduler thread,   *)
(* which once a tick reads the due rows and runs them one after the other  *)
(* from that snapshot; run-now requests, which execute the same job in a   *)
(* request thread; and the create, edit, toggle and delete handlers.  No   *)
(* lock spans two database sessions: what a job writes at its end comes    *)
(* from the row it loaded at its beginning.                                *)
(*                                                                         *)
(* next_run_at is modelled by the time left until it ("due"): 0 when it is *)
(* NULL or past.  Time is counted in units of which MinInterval make 5 s.  *)
(***************************************************************************)
EXTENDS Status

CONSTANTS
  Schedules,       \* schedule ids (AUTOINCREMENT: never reused)
  Inputs,          \* the configurations clients submit, acceptable or not
  Requests,        \* request threads of run-now and toggle
  Ticker,          \* the scheduler thread
  MinInterval,     \* the least interval _validate_schedule accepts (5 s)
  DefaultInterval, \* interval_s when it is missing (60 s)
  DefaultMin,      \* min_interval_s when it is missing (30 s)
  Horizon,         \* the longest delay that leads to a date: years end with 9999
  MaxFaults,       \* bound: database sessions that fail and process deaths, together
  None             \* "no value"

Threads == Requests \cup {Ticker}

Conf == [kind : {"s3", "http", "mtr", "tcp"}, mode : {"fixed", "random"},
         interval : Nat, min : Nat, max : Nat, hook : {"none", "valid", "malformed"}]

ASSUME SchedulerAssumption ==
  /\ Schedules \subseteq Nat
  /\ Inputs \subseteq Conf
  /\ Ticker \notin Requests
  /\ MinInterval \in Nat \ {0}
  /\ DefaultInterval \in Nat /\ DefaultMin \in Nat /\ Horizon \in Nat
  /\ MaxFaults \in Nat
  /\ None \notin Schedules /\ None \notin Inputs

VARIABLES
  row,      \* schedule -> its row of the table
  thread,   \* the scheduler thread: off | init | wait | tick | dead
  batch,    \* the due rows of this tick that are still to be run
  job,      \* thread -> the job it is executing
  toggle,   \* request -> the row a toggle has read and not written yet
  faults,   \* database sessions that failed
  crashes,  \* process deaths
  late,     \* history: starts by the thread since the schedule was switched off
  rest      \* history: the least time the thread has to leave the schedule alone

vars == <<row, thread, batch, job, toggle, faults, crashes, late, rest>>

NoRow == [life |-> "unused", enabled |-> FALSE, due |-> 0, conf |-> None, status |-> None]
GoneRow == [NoRow EXCEPT !.life = "gone"]
IdleJob == [pc |-> "idle", sid |-> None, conf |-> None, result |-> None]

\* The process serves requests once its startup hooks have run.
Up == thread # "off"

On(s) == row[s].life = "live" /\ row[s].enabled

Init ==
  /\ row = [s \in Schedules |-> NoRow]
  /\ thread = "off"
  /\ batch = {}
  /\ job = [t \in Threads |-> IdleJob]
  /\ toggle = [q \in Requests |-> None]
  /\ faults = 0 /\ crashes = 0
  /\ late = [s \in Schedules |-> 0]
  /\ rest = [s \in Schedules |-> 0]

-----------------------------------------------------------------------------
(* Intervals. *)

ValidBoundsOnly(c) ==
  IF c.mode = "fixed" THEN c.interval >= MinInterval ELSE c.min >= MinInterval /\ c.max > 0

\* A missing number (0 here) is refused like one that is too small.
Valid(c) ==
  IF c.mode = "fixed"
    THEN c.interval >= MinInterval
    ELSE c.min >= MinInterval /\ c.max >= c.min

OrDefault(n, default) == IF n = 0 THEN default ELSE n

\* The delays the next run may be given; none when randint(lo, hi) raises.
NextInterval(c) ==
  IF c.mode = "random"
    THEN LET lo == OrDefault(c.min, DefaultMin)
             longer == IF lo + 1 > DefaultInterval THEN lo + 1 ELSE DefaultInterval
         IN lo .. OrDefault(c.max, longer)
    ELSE {OrDefault(c.interval, DefaultInterval)}

\* Those that now_utc() + timedelta can be asked for, and whether one may be
\* drawn that raises OverflowError; no validation keeps it out.
Datable(c) == {delay \in NextInterval(c) : delay <= Horizon}
TooFar(c) == Datable(c) # NextInterval(c)

UpsertRow(s, new) == row' = [row EXCEPT ![s] = [new EXCEPT !.life = "live"]]

\* UPDATE schedules ... WHERE id: nothing when the row is gone.
UpdateRow(s, new) ==
  row' = IF row[s].life = "live" THEN [row EXCEPT ![s] = new] ELSE row

-----------------------------------------------------------------------------
(* The web handlers. *)

CreateSchedule(s, c, enabled) ==
  /\ Up
  /\ row[s].life = "unused"
  /\ Valid(c)
  /\ row' = [row EXCEPT ![s] = [NoRow EXCEPT !.life = "live", !.enabled = enabled,
                                             !.conf = c]]
  /\ UNCHANGED <<thread, batch, job, toggle, faults, crashes, late, rest>>

\* next_run_at becomes NULL: the new configuration is due at once.
EditSchedule(s, c, enabled) ==
  /\ Up
  /\ row[s].life = "live"
  /\ Valid(c)
  /\ row' = [row EXCEPT ![s] = [@ EXCEPT !.enabled = enabled, !.due = 0, !.conf = c]]
  /\ late' = [late EXCEPT ![s] = IF enabled THEN 0 ELSE @]
  /\ rest' = [rest EXCEPT ![s] = 0]
  /\ UNCHANGED <<thread, batch, job, toggle, faults, crashes>>

\* The last session of DELETE /schedules/{sid}.
DeleteSchedule(s) ==
  /\ Up
  /\ row[s].life = "live"
  /\ row' = [row EXCEPT ![s] = GoneRow]
  /\ UNCHANGED <<thread, batch, job, toggle, faults, crashes, late, rest>>

\* The SELECT opens no transaction: the row may change before the UPDATE.
ToggleRead(q, s) ==
  /\ Up
  /\ job[q].pc = "idle" /\ toggle[q] = None
  /\ row[s].life = "live"
  /\ toggle' = [toggle EXCEPT ![q] = [sid |-> s, enabled |-> row[s].enabled,
                                      due |-> row[s].due]]
  /\ UNCHANGED <<row, thread, batch, job, faults, crashes, late, rest>>

ToggleWrite(q) ==
  /\ toggle[q] # None
  /\ LET s == toggle[q].sid
         enabled == ~toggle[q].enabled
     IN /\ UpdateRow(s, [row[s] EXCEPT !.enabled = enabled,
                                       !.due = IF enabled THEN 0 ELSE toggle[q].due])
        /\ late' = [late EXCEPT ![s] = IF enabled THEN 0 ELSE @]
        /\ rest' = [rest EXCEPT ![s] = 0]
  /\ toggle' = [toggle EXCEPT ![q] = None]
  /\ UNCHANGED <<thread, batch, job, faults, crashes>>

\* run_now reads the row, enabled or not.
RunNow(q, s) ==
  /\ Up
  /\ job[q].pc = "idle" /\ toggle[q] = None
  /\ row[s].life = "live"
  /\ job' = [job EXCEPT ![q] = [@ EXCEPT !.pc = "exec", !.sid = s, !.conf = row[s].conf]]
  /\ UNCHANGED <<row, thread, batch, toggle, faults, crashes, late, rest>>

-----------------------------------------------------------------------------
(* The scheduler thread. *)

Fault == faults + crashes < MaxFaults /\ faults' = faults + 1

\* Application startup.
Start ==
  /\ thread = "off"
  /\ thread' = "init"
  /\ UNCHANGED <<row, batch, job, toggle, faults, crashes, late, rest>>

\* A first init_db that fails ends the thread; the web server goes on.
InitDb ==
  /\ thread = "init"
  /\ \/ thread' = "wait" /\ UNCHANGED faults
     \/ Fault /\ thread' = "dead"
  /\ UNCHANGED <<row, batch, job, toggle, crashes, late, rest>>

DueIgnoringEnabled ==
  {[sid |-> s, conf |-> row[s].conf] :
     s \in {x \in Schedules : row[x].life = "live" /\ row[x].due = 0}}

DueSchedules ==
  {[sid |-> s, conf |-> row[s].conf] : s \in {x \in Schedules : On(x) /\ row[x].due = 0}}

\* A session that fails is a "tick error": the thread tries again next tick.
ReadDue ==
  /\ thread = "wait"
  /\ \/ thread' = "tick" /\ batch' = DueSchedules /\ UNCHANGED faults
     \/ Fault /\ UNCHANGED <<thread, batch>>
  /\ UNCHANGED <<row, job, toggle, crashes, late, rest>>

\* In the order of the ids, from the snapshot.
StartNext(e) ==
  /\ thread = "tick" /\ job[Ticker].pc = "idle"
  /\ e \in batch /\ \A other \in batch : e.sid <= other.sid
  /\ batch' = batch \ {e}
  /\ job' = [job EXCEPT ![Ticker] = [@ EXCEPT !.pc = "exec", !.sid = e.sid, !.conf = e.conf]]
  /\ late' = [late EXCEPT ![e.sid] = IF On(e.sid) \/ @ = 2 THEN @ ELSE @ + 1]
  /\ UNCHANGED <<row, thread, toggle, faults, crashes, rest>>

EndTick ==
  /\ thread = "tick" /\ job[Ticker].pc = "idle" /\ batch = {}
  /\ thread' = "wait"
  /\ UNCHANGED <<row, batch, job, toggle, faults, crashes, late, rest>>

-----------------------------------------------------------------------------
(* A job, _run_schedule, in the scheduler thread or a request thread. *)

\* The executor and the insertion of its run; either may raise.
Execute(t) ==
  /\ job[t].pc = "exec"
  /\ \/ \E r \in Results(job[t].conf.kind) :
          job' = [job EXCEPT ![t] = [@ EXCEPT !.pc = "record", !.result = r]]
     \/ job' = [job EXCEPT ![t] = [@ EXCEPT !.pc = "failed"]]
  /\ UNCHANGED <<row, thread, batch, toggle, faults, crashes, late, rest>>

\* What the thread has written keeps it away for the interval.
Rested(t) ==
  rest' = IF t = Ticker THEN [rest EXCEPT ![job[t].sid] = MinInterval] ELSE rest

\* next_run_at cannot be computed: no interval can be drawn, or no date made.
CannotBeDated(c) == NextInterval(c) = {} \/ TooFar(c)

\* _finalize: a session that fails, or a date that cannot be computed, is an
\* exception like any other.
Finalize(t) ==
  /\ job[t].pc = "record"
  /\ \/ \E delay \in Datable(job[t].conf) :
          /\ UpdateRow(job[t].sid, [row[job[t].sid] EXCEPT
                          !.due = delay, !.status = StatusOf(job[t].result)[1]])
          /\ Rested(t)
          /\ job' = [job EXCEPT ![t].pc = "notify"]
          /\ UNCHANGED faults
     \/ /\ IF CannotBeDated(job[t].conf) THEN UNCHANGED faults ELSE Fault
        /\ job' = [job EXCEPT ![t].pc = "failed"]
        /\ UNCHANGED <<row, rest>>
  /\ UNCHANGED <<thread, batch, toggle, crashes, late>>

\* maybe_notify.  urllib.request.Request, built outside post_webhook's try,
\* raises on a URL without a scheme.
Notify(t) ==
  /\ job[t].pc = "notify"
  /\ LET posts == job[t].conf.hook # "none" /\ IsDegraded(StatusOf(job[t].result))
     IN job' = [job EXCEPT ![t] =
          IF ~posts THEN IdleJob
          ELSE [@ EXCEPT !.pc = IF job[t].conf.hook = "valid" THEN "post" ELSE "failed"]]
  /\ UNCHANGED <<row, thread, batch, toggle, faults, crashes, late, rest>>

\* Best effort: whatever the receiver answers, if it does within 5 s.
PostWebhook(t) ==
  /\ job[t].pc = "post"
  /\ job' = [job EXCEPT ![t] = IdleJob]
  /\ UNCHANGED <<row, thread, batch, toggle, faults, crashes, late, rest>>

KeepsDue(t, delay) == [row[job[t].sid] EXCEPT !.status = "err"]

FailedRow(t, delay) == [row[job[t].sid] EXCEPT !.due = delay, !.status = "err"]

\* The except branch of _run_schedule computes the date once more.  An exception
\* of its own ends a request with a 500 and the thread's tick, with the rows
\* still to be run.
RecordFailure(t) ==
  /\ job[t].pc = "failed"
  /\ \/ \E delay \in Datable(job[t].conf) :
          /\ UpdateRow(job[t].sid, FailedRow(t, delay))
          /\ Rested(t)
          /\ UNCHANGED <<batch, faults>>
     \/ /\ IF CannotBeDated(job[t].conf) THEN UNCHANGED faults ELSE Fault
        /\ batch' = IF t = Ticker THEN {} ELSE batch
        /\ UNCHANGED <<row, rest>>
  /\ job' = [job EXCEPT ![t] = IdleJob]
  /\ UNCHANGED <<thread, toggle, crashes, late>>

-----------------------------------------------------------------------------
Sooner(n) == IF n = 0 THEN 0 ELSE n - 1

ClockTick ==
  /\ row' = [s \in Schedules |-> [row[s] EXCEPT !.due = Sooner(@)]]
  /\ toggle' = [q \in Requests |->
       IF toggle[q] = None THEN None ELSE [toggle[q] EXCEPT !.due = Sooner(@)]]
  /\ rest' = [s \in Schedules |-> Sooner(rest[s])]
  /\ UNCHANGED <<thread, batch, job, faults, crashes, late>>

\* The process dies, or its shutdown leaves the daemon thread behind: stop()
\* only asks the loop to start nothing more, and waits 5 s.
Crash ==
  /\ Up
  /\ faults + crashes < MaxFaults
  /\ crashes' = crashes + 1
  /\ thread' = "off"
  /\ batch' = {}
  /\ job' = [t \in Threads |-> IdleJob]
  /\ toggle' = [q \in Requests |-> None]
  /\ UNCHANGED <<row, faults, late, rest>>

JobStep(t) == Execute(t) \/ Finalize(t) \/ Notify(t) \/ PostWebhook(t) \/ RecordFailure(t)

TickerStep ==
  \/ InitDb \/ ReadDue \/ EndTick
  \/ \E e \in batch : StartNext(e)
  \/ JobStep(Ticker)

Client ==
  \/ \E s \in Schedules, c \in Inputs, enabled \in BOOLEAN :
       CreateSchedule(s, c, enabled) \/ EditSchedule(s, c, enabled)
  \/ \E s \in Schedules : DeleteSchedule(s)

RequestStep(q) ==
  \/ \E s \in Schedules : ToggleRead(q, s) \/ RunNow(q, s)
  \/ ToggleWrite(q)
  \/ JobStep(q)

Next ==
  \/ Client
  \/ \E q \in Requests : RequestStep(q)
  \/ Start
  \/ TickerStep
  \/ ClockTick
  \/ Crash

Spec == Init /\ [][Next]_vars

\* The thread and the jobs run (their executors and webhooks have timeouts)
\* and time passes; nothing obliges a client or a restart to come.
FairSpec ==
  /\ Spec
  /\ WF_vars(TickerStep) /\ WF_vars(ClockTick)
  /\ \A q \in Requests : WF_vars(JobStep(q))

-----------------------------------------------------------------------------
Heads == {"ok", "warning", "critical", "err", "http", "unknown"}
Row == [life : {"unused", "live", "gone"}, enabled : BOOLEAN, due : Nat,
        conf : Inputs \cup {None}, status : Heads \cup {None}]
Entry == [sid : Schedules, conf : Inputs]
AnyResult == S3Results \cup HttpResults \cup MtrResults \cup TcpResults
Job == [pc : {"idle", "exec", "record", "notify", "post", "failed"},
        sid : Schedules \cup {None}, conf : Inputs \cup {None}, result : AnyResult \cup {None}]
PendingToggle == [sid : Schedules, enabled : BOOLEAN, due : Nat]

TypeOK ==
  /\ row \in [Schedules -> Row]
  /\ \A s \in Schedules : IF row[s].life = "live" THEN row[s].conf \in Inputs
                                                  ELSE row[s] \in {NoRow, GoneRow}
  /\ thread \in {"off", "init", "wait", "tick", "dead"}
  /\ batch \subseteq Entry
  /\ job \in [Threads -> Job]
  /\ toggle \in [Requests -> PendingToggle \cup {None}]
  /\ faults \in 0..MaxFaults /\ crashes \in 0..MaxFaults
  /\ late \in [Schedules -> 0..2]
  /\ rest \in [Schedules -> 0..MinInterval]

(***************************************************************************)
(* Switching a schedule off (toggle, edit, delete) is not immediate: the   *)
(* tick in progress still runs it from its snapshot.  But only once: a     *)
(* schedule is started at most once after it was switched off, however     *)
(* toggles, edits and ticks interleave.                                    *)
(***************************************************************************)
LateRunBound == \A s \in Schedules : ~On(s) => late[s] <= 1

(***************************************************************************)
(* No hot loop: after a job of the thread has been recorded, successful or *)
(* not, the thread leaves the schedule alone for the least interval the    *)
(* validation accepts, unless a client edits or toggles it.  Run-now       *)
(* requests, whose end also moves next_run_at, do not shorten it.  (A job  *)
(* whose next date cannot be computed is not recorded, and the schedule is *)
(* run again every tick: nothing is said of it.)                           *)
(***************************************************************************)
Paced ==
  [][\A e \in batch : StartNext(e) => rest[e.sid] = 0]_vars

(***************************************************************************)
(* docs/schedules.md:116: a run whose status is not OK is posted.  What    *)
(* the executor found alarming is on its way to a post from then on, if    *)
(* the schedule was loaded with a webhook, and gets lost in four ways      *)
(* only: it is one of HttpErrorsPosted; the session that records it fails, *)
(* at that very step; its next date cannot be computed; or the URL is      *)
(* malformed (WebhookHarmless).  The last three end in the except branch,  *)
(* as does an executor that raises, and the err: status that one records   *)
(* is never posted, whatever the docs say of err:*.                        *)
(***************************************************************************)
Lost(t) ==
  /\ job[t].pc \in {"record", "notify"} /\ job'[t].pc \in {"idle", "failed"}
  /\ crashes' = crashes
  /\ job[t].conf.hook # "none" /\ Alarming(job[t].result)

AlarmsPosted ==
  [][\A t \in Threads : Lost(t) =>
       \/ job[t].pc = "notify" /\ HttpFailure(job[t].result)
       \/ job[t].pc = "record" /\ (faults' # faults \/ TooFar(job[t].conf))
       \/ job[t].pc = "notify" /\ job[t].conf.hook = "malformed"]_vars

(***************************************************************************)
(* A schedule that stays switched on with the same configuration is run    *)
(* with that configuration again and again: no stale write of a job or a   *)
(* toggle, failed probe, failed tick, crash or delayed restart takes it    *)
(* out of the rotation, as long as the thread is there.  One neighbour     *)
(* can: a schedule with a smaller id whose interval is too far, which the  *)
(* validation accepts.  It is never recorded, so always due, and ends      *)
(* every tick before those behind it; those before it are run all the      *)
(* same, and so is it.                                                     *)
(***************************************************************************)
Running(s, c) == \E t \in Threads : job[t].pc = "exec" /\ job[t].sid = s /\ job[t].conf = c

\* No schedule in front of s ends the ticks.
WayIsFree(s) == \A x \in Schedules : x < s /\ On(x) => ~TooFar(row[x].conf)

EnabledKeepRunning ==
  \A s \in Schedules, c \in Inputs :
    <>[](On(s) /\ row[s].conf = c /\ thread \in {"init", "wait", "tick"} /\ WayIsFree(s))
      => []<>Running(s, c)

(***************************************************************************)
(* The inductive strengthening of LateRunBound and Paced.                  *)
(***************************************************************************)
\* Only validated configurations are stored, batched and run, and what a
\* thread has in hand was a row once.
JobShape ==
  /\ \A s \in Schedules : row[s].life = "live" => Valid(row[s].conf)
  /\ \A e \in batch : row[e.sid].life # "unused" /\ Valid(e.conf)
  /\ \A t \in Threads :
       /\ job[t].pc # "idle" =>
            /\ job[t].sid \in Schedules /\ row[job[t].sid].life # "unused"
            /\ job[t].conf \in Inputs /\ Valid(job[t].conf)
       /\ job[t].pc \in {"record", "notify", "post"} =>
            job[t].result \in Results(job[t].conf.kind)

\* The batch names each schedule once, and no longer the one being run.
BatchShape ==
  /\ \A e, f \in batch : e.sid = f.sid => e = f
  /\ job[Ticker].pc # "idle" => thread = "tick" /\ (\A e \in batch : e.sid # job[Ticker].sid)

\* A late start has used up the schedule's place in the batch.
LateShape ==
  \A s \in Schedules :
    /\ On(s) \/ row[s].life = "unused" => late[s] = 0
    /\ late[s] <= 1
    /\ late[s] = 1 => \A e \in batch : e.sid # s

\* next_run_at keeps the thread away at least as long as it has to stay.
RestShape ==
  /\ \A s \in Schedules :
       /\ row[s].life = "live" => rest[s] <= row[s].due
       /\ row[s].life = "unused" => rest[s] = 0
  /\ \A e \in batch : rest[e.sid] = 0

Inv == TypeOK /\ JobShape /\ BatchShape /\ LateShape /\ RestShape

-----------------------------------------------------------------------------
(* What the documentation says and the code does not do. *)

(***************************************************************************)
(* docs/schedules.md:97: http:403 and http:503 also alert by webhook.      *)
(***************************************************************************)
Unposted(t) ==
  /\ job[t].pc = "notify" /\ job'[t].pc = "idle" /\ crashes' = crashes
  /\ job[t].conf.hook # "none"

HttpErrorsPosted == [][\A t \in Threads : Unposted(t) => ~HttpFailure(job[t].result)]_vars

(***************************************************************************)
(* docs/schedules.md:134: "Une erreur webhook est loguee mais ne fait      *)
(* jamais echouer le run lui-meme".                                        *)
(***************************************************************************)
WebhookHarmless == [][\A t \in Threads : job[t].pc = "notify" => job'[t].pc # "failed"]_vars
=============================================================================
