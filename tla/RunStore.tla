------------------------------ MODULE RunStore -------------------------------
(***************************************************************************)
(* The run tables and everyone who uses them: scheduled jobs, the          *)
(* background MTR threads they start, the mtr and http daemons, one-shot   *)
(* commands, retention, the handlers that delete a run, and the pages that *)
(* show runs with their hops, samples or steps.                            *)
(*                                                                         *)
(* SQLite in WAL mode: one write transaction at a time; everybody else     *)
(* sees the last commit.  A SELECT opens no transaction, so two SELECTs of *)
(* one session may see two states.  A session that ends by an exception,   *)
(* or whose process dies, is rolled back.                                  *)
(***************************************************************************)
EXTENDS Naturals, FiniteSets

CONSTANTS
  Kinds,      \* the run tables in use, of AllKinds
  Jobs,       \* threads of the server that store runs: the scheduler, run-now and
              \* S3 test requests
  Daemons,    \* processes of "mtrgraph daemon" and "mtrgraph http-daemon"
  Commands,   \* one-shot commands
  Autos,      \* background MTR threads
  Sweeper,    \* the retention thread
  Readers,    \* requests that show runs with their parts
  Schedules,
  Findings,   \* the sets of part numbers a measurement can consist of
  MaxRuns,    \* bound: measurements
  MaxFaults,  \* bound: sessions that fail and deaths of the server
  None        \* "no value"

AllKinds == {"mtr", "http", "s3", "tcp", "tx"}
Writers == Jobs \cup Daemons \cup Commands \cup Autos
Indexes == UNION Findings

ASSUME RunStoreAssumption ==
  /\ Kinds \subseteq AllKinds
  /\ \A p, q \in {Jobs, Daemons, Commands, Autos} : p = q \/ p \cap q = {}
  /\ Sweeper \notin Writers
  /\ MaxRuns \in Nat /\ MaxFaults \in Nat
  /\ None \notin Kinds \cup Writers \cup Schedules \cup {Sweeper}

VARIABLES
  db,       \* the last commit: [runs, parts, seq, sched]
  draft,    \* the database as the open write transaction sees it
  lock,     \* whose transaction that is, or None
  work,     \* writer -> the measurement it makes and stores
  sweep,    \* how many tables the retention transaction has cleaned
  page,     \* reader -> the run rows it has read, the parts it has read
  old,      \* the runs past the cutoff of retention
  started,  \* measurements so far
  faults    \* sessions that failed, deaths of the server

vars == <<db, draft, lock, work, sweep, page, old, started, faults>>

(***************************************************************************)
(* A run row; found and by are not columns: the parts its measurement      *)
(* consisted of and the schedule whose job made it.  A schedule row, as    *)
(* far as runs are concerned: its kind (None when the row is gone) and     *)
(* last_run_id.  The column holds a bare number (docs/db-schema.md:124),   *)
(* and the pages look it up in the table of the present kind, even if the  *)
(* kind was edited since; the kind of a Ref remembers, like found and by,  *)
(* which table the number was given by.                                    *)
(***************************************************************************)
Run == [kind : Kinds, id : Nat, found : Findings \cup {{}}, by : Schedules \cup {None}]
Part == [kind : Kinds, id : Nat, idx : Indexes]
Ref == [kind : Kinds, id : Nat]
NoRef == [kind |-> None, id |-> 0]
ScheduleRow == [kind : Kinds \cup {None}, last : Ref \cup {NoRef}]
Database == [runs : SUBSET Run, parts : SUBSET Part, seq : [Kinds -> Nat],
             sched : [Schedules -> ScheduleRow]]

IdleWork == [pc |-> "idle", kind |-> None, found |-> {}, id |-> 0, sid |-> None,
             base |-> {}, of |-> None]
NoPage == [todo |-> {}, shown |-> {}]

\* Runs, hops; http_runs, http_samples; http_tx_runs, http_tx_steps.
Parted == {"mtr", "http", "tx"}
FoundBy(k) == IF k \in Parted THEN Findings ELSE {{}}

RefOf(run) == [kind |-> run.kind, id |-> run.id]
PartsOf(run) == {[kind |-> run.kind, id |-> run.id, idx |-> i] : i \in run.found}
PartsIn(d, run) == {p \in d.parts : p.kind = run.kind /\ p.id = run.id}
IdsIn(d, k) == {run.id : run \in {x \in d.runs : x.kind = k}}

Init ==
  /\ \E kinds \in [Schedules -> Kinds \ {"tx"}] :
       db = [runs |-> {}, parts |-> {}, seq |-> [k \in Kinds |-> 0],
             sched |-> [s \in Schedules |-> [kind |-> kinds[s], last |-> NoRef]]]
  /\ draft = db /\ lock = None
  /\ work = [w \in Writers |-> IdleWork]
  /\ sweep = 0
  /\ page = [r \in Readers |-> NoPage]
  /\ old = {} /\ started = 0 /\ faults = 0

-----------------------------------------------------------------------------
(* Statements, on a database or a draft. *)

NextIdWithoutAutoincrement(d, k) ==
  IF IdsIn(d, k) = {} THEN 1 ELSE 1 + CHOOSE n \in IdsIn(d, k) : \A m \in IdsIn(d, k) : m <= n

\* AUTOINCREMENT: above every number the table ever gave.
NextId(d, k) == d.seq[k] + 1

RunOf(w) == [kind |-> work[w].kind, id |-> work[w].id, found |-> work[w].found,
             by |-> work[w].sid]

WithRun(d, run) ==
  [d EXCEPT !.runs = @ \cup {run}, !.seq = [d.seq EXCEPT ![run.kind] = run.id]]

WithParts(d, run) == [d EXCEPT !.parts = @ \cup PartsOf(run)]

WithoutRunsOnly(d, gone) == [d EXCEPT !.runs = @ \ gone]

\* ON DELETE CASCADE, since every connection sets PRAGMA foreign_keys.
Without(d, gone) ==
  [d EXCEPT !.runs = @ \ gone,
            !.parts = {p \in d.parts : \A run \in gone : p.kind # run.kind \/ p.id # run.id}]

\* One statement and its commit: waits for the transaction of anybody else.
Write(new) == lock = None /\ db' = new /\ draft' = new

Keep(x, d) == IF lock = x THEN d ELSE draft

-----------------------------------------------------------------------------
(* A measurement, from its result to the row of the schedule. *)

JudgesAfter(w) == "after"

\* When the median of earlier runs is read: by the mtr job and the daemons
\* before their own run is inserted, by the s3 job after.
JudgingPoint(w) ==
  IF w \in Daemons \/ (work[w].sid # None /\ work[w].kind = "mtr") THEN "before"
  ELSE IF work[w].sid # None /\ work[w].kind = "s3" THEN "after"
  ELSE "never"

Measure(w, k, found, s) ==
  /\ work[w].pc = "idle"
  /\ started < MaxRuns /\ started' = started + 1
  /\ k \in Kinds /\ found \in FoundBy(k)
  /\ work' = [work EXCEPT ![w] = [@ EXCEPT !.pc = "measured", !.kind = k,
                                           !.found = found, !.sid = s]]
  /\ UNCHANGED <<db, draft, lock, sweep, page, old, faults>>

\* The kind is the one the row had when the job read it.
StartJob(w, s, found) ==
  /\ db.sched[s].kind # None
  /\ Measure(w, db.sched[s].kind, found, s)

\* POST /api/s3/test: a request like a job, without a schedule.
StartTest(w) == Measure(w, "s3", {}, None)

StartDaemon(w, k, found) == k \in {"mtr", "http"} /\ Measure(w, k, found, None)

StartCommand(w, k, found) == Measure(w, k, found, None)

\* baseline_hops is one SELECT; http_baseline selects the runs first.
ReadBaseline(w) ==
  /\ work[w].pc = "measured" /\ JudgingPoint(w) = "before"
  /\ work' = [work EXCEPT ![w] = [@ EXCEPT !.pc = "judged",
                                           !.base = IdsIn(db, work[w].kind)]]
  /\ UNCHANGED <<db, draft, lock, sweep, page, old, started, faults>>

\* The first INSERT of a session takes the write lock.
InsertRun(w) ==
  /\ work[w].pc = IF JudgingPoint(w) = "before" THEN "judged" ELSE "measured"
  /\ lock = None /\ lock' = w
  /\ LET id == NextId(draft, work[w].kind)
     IN /\ work' = [work EXCEPT ![w] = [@ EXCEPT !.pc = "inserted", !.id = id]]
        /\ draft' = WithRun(draft, [RunOf(w) EXCEPT !.id = id])
  /\ UNCHANGED <<db, sweep, page, old, started, faults>>

InsertParts(w) ==
  /\ work[w].pc = "inserted"
  /\ draft' = WithParts(draft, RunOf(w))
  /\ work' = [work EXCEPT ![w].pc = "filled"]
  /\ UNCHANGED <<db, lock, sweep, page, old, started, faults>>

\* Scheduled jobs go on to last_run_id, commands to their exit.
Afterwards(w) ==
  IF JudgingPoint(w) = "after" THEN [work[w] EXCEPT !.pc = "compare"]
  ELSE IF work[w].sid # None THEN [work[w] EXCEPT !.pc = "record"]
  ELSE IF w \in Commands THEN [work[w] EXCEPT !.pc = "exit"]
  ELSE IdleWork

Triggers(w) ==
  \/ w \in Jobs /\ work[w].kind \in {"s3", "http"}
  \/ w \in Commands /\ work[w].kind = "http"

Commit(w) ==
  /\ work[w].pc = "filled"
  /\ db' = draft /\ lock' = None
  /\ work' = [work EXCEPT ![w] = IF Triggers(w) THEN [@ EXCEPT !.pc = "trigger"]
                                                ELSE Afterwards(w)]
  /\ UNCHANGED <<draft, sweep, page, old, started, faults>>

\* trigger_auto_mtr starts a thread, unless it is switched off or the probe
\* resolved no address.  (There are at most as many threads as Autos.)
TriggerAuto(w, a) ==
  /\ work[w].pc = "trigger" /\ work[a].pc = "idle" /\ "mtr" \in Kinds
  /\ work' = [work EXCEPT ![w] = Afterwards(w),
                          ![a] = [IdleWork EXCEPT !.pc = "probing", !.of = w]]
  /\ UNCHANGED <<db, draft, lock, sweep, page, old, started, faults>>

NoAuto(w) ==
  /\ work[w].pc = "trigger"
  /\ work' = [work EXCEPT ![w] = Afterwards(w)]
  /\ UNCHANGED <<db, draft, lock, sweep, page, old, started, faults>>

\* mtr answers; when it fails the thread ends silently.
AutoMeasured(a, found) ==
  /\ work[a].pc = "probing"
  /\ started < MaxRuns /\ started' = started + 1
  /\ found \in FoundBy("mtr")
  /\ work' = [work EXCEPT ![a] = [@ EXCEPT !.pc = "measured", !.kind = "mtr",
                                           !.found = found]]
  /\ UNCHANGED <<db, draft, lock, sweep, page, old, faults>>

AutoSkipped(a) ==
  /\ work[a].pc = "probing"
  /\ work' = [work EXCEPT ![a] = IdleWork]
  /\ UNCHANGED <<db, draft, lock, sweep, page, old, started, faults>>

\* status_with_compare: the run itself is among those it is compared with.
Compare(w) ==
  /\ work[w].pc = "compare"
  /\ work' = [work EXCEPT ![w] = [@ EXCEPT !.pc = "record", !.base = IdsIn(db, work[w].kind)]]
  /\ UNCHANGED <<db, draft, lock, sweep, page, old, started, faults>>

NewestRef(w) ==
  [kind |-> work[w].kind, id |-> IF IdsIn(db, work[w].kind) = {} THEN 0
     ELSE CHOOSE n \in IdsIn(db, work[w].kind) : \A m \in IdsIn(db, work[w].kind) : m <= n]

\* cur.lastrowid of the job's own INSERT.
OwnRef(w) == RefOf(RunOf(w))

UpsertLast(s, ref) == [db EXCEPT !.sched[s].last = ref]

\* UPDATE schedules SET last_run_id WHERE id: nothing when the row is gone.
UpdateLast(s, ref) == IF db.sched[s].kind = None THEN db ELSE [db EXCEPT !.sched[s].last = ref]

RecordRun(w) ==
  /\ work[w].pc = "record"
  /\ Write(UpdateLast(work[w].sid, OwnRef(w)))
  /\ work' = [work EXCEPT ![w] = IdleWork]
  /\ UNCHANGED <<lock, sweep, page, old, started, faults>>

AtFailureCommit == draft

\* commit() is only reached at the end of the with block; close() rolls back.
AtFailure == db

\* The database is busy for longer than the timeout, the disk is full, ...
SessionFails(w) ==
  /\ work[w].pc \in {"measured", "judged", "inserted", "filled", "compare", "record"}
  /\ faults < MaxFaults /\ faults' = faults + 1
  /\ db' = IF lock = w THEN AtFailure ELSE db
  /\ draft' = Keep(w, db') /\ lock' = IF lock = w THEN None ELSE lock
  /\ work' = [work EXCEPT ![w] = IF w \in Commands THEN [@ EXCEPT !.pc = "exit"] ELSE IdleWork]
  /\ UNCHANGED <<sweep, page, old, started>>

-----------------------------------------------------------------------------
(* Processes that end. *)

AutosOf(ws) == {a \in Autos : work[a].pc # "idle" /\ work[a].of \in ws}

Killed(ws) ==
  /\ work' = [w \in Writers |-> IF w \in ws \cup AutosOf(ws) THEN IdleWork ELSE work[w]]
  /\ IF lock \in ws \cup AutosOf(ws) THEN lock' = None /\ draft' = db
                                     ELSE UNCHANGED <<lock, draft>>

\* A command returns, or a command or a daemon is interrupted; the MTR thread
\* a command has started is a daemon thread and goes with it.
ProcessEnds(w) ==
  /\ w \in Commands \cup Daemons /\ work[w].pc # "idle"
  /\ Killed({w})
  /\ UNCHANGED <<db, sweep, page, old, started, faults>>

\* The web server dies: jobs, their MTR threads, retention, requests.
ServerCrash ==
  /\ faults < MaxFaults /\ faults' = faults + 1
  /\ (\E w \in Jobs \cup AutosOf(Jobs) : work[w].pc # "idle")
       \/ sweep # 0 \/ \E r \in Readers : page[r] # NoPage
  /\ work' = [w \in Writers |-> IF w \in Jobs \cup AutosOf(Jobs) THEN IdleWork ELSE work[w]]
  /\ IF lock \in Jobs \cup AutosOf(Jobs) \cup {Sweeper}
       THEN lock' = None /\ draft' = db
       ELSE UNCHANGED <<lock, draft>>
  /\ sweep' = 0
  /\ page' = [r \in Readers |-> NoPage]
  /\ UNCHANGED <<db, old, started>>

-----------------------------------------------------------------------------
(* Schedules, deletions, retention, time. *)

\* An edit may change the kind; last_run_id stays as it is.
EditKind(s, k) ==
  /\ db.sched[s].kind # None /\ k # db.sched[s].kind
  /\ Write([db EXCEPT !.sched[s].kind = k])
  /\ UNCHANGED <<lock, work, sweep, page, old, started, faults>>

DeleteSchedule(s) ==
  /\ db.sched[s].kind # None
  /\ Write([db EXCEPT !.sched[s] = [kind |-> None, last |-> NoRef]])
  /\ UNCHANGED <<lock, work, sweep, page, old, started, faults>>

\* "mtrgraph delete" and DELETE /api/s3/runs/x; delete_http_run has no caller.
DeleteRun(run) ==
  /\ run.kind \in {"mtr", "s3"}
  /\ Write(Without(db, {run}))
  /\ UNCHANGED <<lock, work, sweep, page, old, started, faults>>

GrowOld(run) ==
  /\ RefOf(run) \notin old
  /\ old' = old \cup {RefOf(run)}
  /\ UNCHANGED <<db, draft, lock, work, sweep, page, started, faults>>

SweptButHttp == <<"mtr", "mtr", "s3", "tcp">>

\* The transactions' table is not among them.
Swept == <<"mtr", "http", "s3", "tcp">>

Expired(d, k) == {run \in d.runs : run.kind = k /\ RefOf(run) \in old}

\* A pass that finds nothing past the cutoff changes nothing: left out.
SweepTable ==
  /\ sweep < 4
  /\ IF sweep = 0 THEN lock = None /\ old # {} ELSE lock = Sweeper
  /\ lock' = Sweeper
  /\ draft' = Without(draft, Expired(draft, Swept[sweep + 1]))
  /\ sweep' = sweep + 1
  /\ UNCHANGED <<db, work, page, old, started, faults>>

SweepCommit ==
  /\ sweep = 4
  /\ db' = draft /\ lock' = None /\ sweep' = 0
  /\ UNCHANGED <<draft, work, page, old, started, faults>>

\* "[retention] error": all or nothing, and again after the period.
SweepFails ==
  /\ sweep # 0
  /\ faults < MaxFaults /\ faults' = faults + 1
  /\ draft' = db /\ lock' = None /\ sweep' = 0
  /\ UNCHANGED <<db, work, page, old, started>>

-----------------------------------------------------------------------------
(* Pages: the rows of one run, or of a series, then the parts of each. *)

OpenPage(r, rows) ==
  /\ page[r] = NoPage /\ rows # {}
  /\ page' = [page EXCEPT ![r] = [todo |-> rows, shown |-> {}]]
  /\ UNCHANGED <<db, draft, lock, work, sweep, old, started, faults>>

OpenRun(r, run) == run.kind \in Parted /\ OpenPage(r, {run})

\* The pages of several runs are built alike for mtr and http: mtr stands for both.
OpenComparison(r, a, b) == a.kind = "mtr" /\ b.kind = "mtr" /\ OpenPage(r, {a, b})

OpenSeries(r) == OpenPage(r, {run \in db.runs : run.kind = "mtr"})

ReadParts(r, run) ==
  /\ run \in page[r].todo
  /\ page' = [page EXCEPT ![r] =
       [todo |-> @.todo \ {run},
        shown |-> @.shown \cup {[run |-> run, parts |-> PartsIn(db, run)]}]]
  /\ UNCHANGED <<db, draft, lock, work, sweep, old, started, faults>>

ClosePage(r) ==
  /\ page[r].todo = {} /\ page[r].shown # {}
  /\ page' = [page EXCEPT ![r] = NoPage]
  /\ UNCHANGED <<db, draft, lock, work, sweep, old, started, faults>>

-----------------------------------------------------------------------------
StoreStep(w) ==
  \/ ReadBaseline(w) \/ InsertRun(w) \/ InsertParts(w) \/ Commit(w)
  \/ \E a \in Autos : TriggerAuto(w, a)
  \/ NoAuto(w) \/ Compare(w) \/ RecordRun(w)

Measuring ==
  \/ \E w \in Jobs, s \in Schedules, found \in Findings \cup {{}} : StartJob(w, s, found)
  \/ \E w \in Jobs : StartTest(w)
  \/ \E w \in Daemons, k \in Kinds, found \in Findings \cup {{}} : StartDaemon(w, k, found)
  \/ \E w \in Commands, k \in Kinds, found \in Findings \cup {{}} : StartCommand(w, k, found)
  \/ \E a \in Autos, found \in Findings : AutoMeasured(a, found)
  \/ \E a \in Autos : AutoSkipped(a)

Ends == (\E w \in Writers : SessionFails(w) \/ ProcessEnds(w)) \/ ServerCrash

Admin ==
  \/ \E s \in Schedules, k \in Kinds \ {"tx"} : EditKind(s, k)
  \/ \E s \in Schedules : DeleteSchedule(s)
  \/ \E run \in db.runs : DeleteRun(run) \/ GrowOld(run)

Sweep == SweepTable \/ SweepCommit

Reading ==
  \E r \in Readers :
    \/ \E run \in db.runs : OpenRun(r, run)
    \/ \E a, b \in db.runs : OpenComparison(r, a, b)
    \/ OpenSeries(r)
    \/ \E run \in page[r].todo : ReadParts(r, run)
    \/ ClosePage(r)

Next ==
  \/ \E w \in Writers : StoreStep(w)
  \/ Measuring \/ Ends \/ Admin \/ Sweep \/ SweepFails \/ Reading

Spec == Init /\ [][Next]_vars

\* A session that holds the lock goes on; retention, which tries again every
\* period, does not find the database busy every time.
FairSpec ==
  Spec /\ SF_vars(SweepTable) /\ WF_vars(SweepCommit) /\ \A w \in Writers : WF_vars(StoreStep(w))

-----------------------------------------------------------------------------
Phases == {"idle", "probing", "measured", "judged", "inserted", "filled", "trigger",
           "compare", "record", "exit"}
Work == [pc : Phases, kind : Kinds \cup {None}, found : Findings \cup {{}}, id : Nat,
         sid : Schedules \cup {None}, base : SUBSET Nat, of : Writers \cup {None}]
Page == [todo : SUBSET Run, shown : SUBSET [run : Run, parts : SUBSET Part]]

TypeOK ==
  /\ db \in Database /\ draft \in Database
  /\ \A s \in Schedules : db.sched[s].kind = None => db.sched[s].last = NoRef
  /\ lock \in Writers \cup {Sweeper, None}
  /\ work \in [Writers -> Work]
  /\ sweep \in 0..4
  /\ page \in [Readers -> Page]
  /\ old \subseteq Ref
  /\ started \in 0..MaxRuns /\ faults \in 0..MaxFaults

(***************************************************************************)
(* What is committed is whole: every run has all the hops, samples or      *)
(* steps of its measurement, and there are no others, whatever session     *)
(* failed, process died, retention or deletion came between.               *)
(***************************************************************************)
WholeRuns == db.parts = UNION {PartsOf(run) : run \in db.runs}

(***************************************************************************)
(* A page reads the rows of its runs and then their parts, and anything    *)
(* may be deleted or inserted in between.  What it shows of a run is all   *)
(* its parts or, when the run was deleted meanwhile, none; never some of   *)
(* them, and never those of another run.                                   *)
(***************************************************************************)
PageConsistent ==
  \A r \in Readers : \A x \in page[r].shown :
    x.parts = PartsOf(x.run) \/ (x.parts = {} /\ x.run \notin db.runs)

(***************************************************************************)
(* last_run_id, joined with the table it was written for, names a run of a *)
(* job of that very schedule or none at all (deleted meanwhile), whatever  *)
(* other jobs inserted between the two sessions of the job.                *)
(***************************************************************************)
LastRunOwn ==
  \A s \in Schedules : \A run \in db.runs : RefOf(run) = db.sched[s].last => run.by = s

(***************************************************************************)
(* docs/metrics-reference.md: a baseline is the median of the last runs.   *)
(* The mtr job and both daemons judge a run by runs stored before it, its  *)
(* own never among them.                                                   *)
(***************************************************************************)
JudgedByEarlier ==
  \A w \in Writers :
    /\ work[w].pc \in {"inserted", "filled", "trigger", "record"}
    /\ w \in Daemons \/ work[w].kind = "mtr"
    => \A n \in work[w].base : n < work[w].id

(***************************************************************************)
(* docs/retention.md:27: lines past the cutoff are removed, but for the    *)
(* transactions, which no pass touches.  A failed pass, or a crash in the  *)
(* middle of one, delays that and no more.                                 *)
(***************************************************************************)
PastCutoff == {run \in db.runs : RefOf(run) \in old /\ run.kind # "tx"}

OldRunsGo == PastCutoff # {} ~> PastCutoff = {}

(***************************************************************************)
(* The reader's view, RunLog.                                              *)
(***************************************************************************)
Log == INSTANCE RunLog WITH
  Tables <- Kinds, Contents <- [k \in Kinds |-> FoundBy(k)],
  log <- {[kind |-> run.kind, id |-> run.id, parts |-> {p.idx : p \in PartsIn(db, run)}] :
            run \in db.runs},
  top <- db.seq

ImplementsRunLog == Log!LogSpec
=============================================================================
