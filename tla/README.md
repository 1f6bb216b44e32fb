# mtrgraph, modelled in TLA+

mtrgraph probes networks (MTR, HTTP, S3, TCP counters), stores what it measures
in one SQLite file, and shows it in a web server. The server also runs a
scheduler thread that repeats probes and raises webhooks, and some of those
probes store and delete objects in S3 buckets by themselves. This directory
models the parts where several threads, a database and remote servers meet, and
the algorithms whose answers are acted on; it model-checks them with TLC, and
proves their main properties with TLAPS.

    tlc -workers 2 -config MCTracked<Run>.cfg MCTrackedObjects.tla
    tlc -workers 2 -config MCScheduler<Run>.cfg MCScheduler.tla
    tlc -workers 2 -config MCRunStore.cfg MCRunStore.tla
    tlc -workers 2 -config MCSharedFile.cfg MCSharedFile.tla
    tlc -workers 2 -config MCHttp<Run>.cfg MCHttpProbe.tla
    tlc -workers 2 -config MCMeasures.cfg MCMeasures.tla
    for m in TrackedObjects Ledger Scheduler RunStore SharedFile HttpProbe Measures Dashboard
    do tlapm ${m}Proofs.tla; done

Paths below are relative to `src/mtrgraph/` unless they start with `docs/`.

## The system

| component | state it keeps | operations | talks to | modelled in |
|---|---|---|---|---|
| scheduler thread (`scheduler/__init__.py`) | the due rows of the current tick | start, stop, tick, run one schedule | `schedules`, executors, webhooks | `Scheduler` |
| executors (`scheduler/executors/*`) | none of their own | one probe each; S3 `random_ops` also puts and deletes | remote servers, run tables, `s3_tracked_objects` | `Status`, `TrackedObjects`, `RunStore` |
| schedule handlers (`web/routes_schedules.py`) | none between requests | create, edit, toggle, run-now, delete, purge | `schedules`, `s3_tracked_objects`, S3 | `Scheduler`, `TrackedObjects` |
| statuses and webhooks (`scheduler/webhooks.py`) | none | status string, severity test, POST | the receiver | `Status`, `Scheduler` |
| tracked objects (`db/tracked.py`) | `s3_tracked_objects` | track, list alive, mark deleted | | `TrackedObjects` |
| retention (`retention.py`) | none | delete old rows, VACUUM | every run table, `s3_tracked_objects` | `RunStore`, `TrackedObjects` |
| run tables (`db/mtr.py`, `http_runs.py`, `s3.py`, `tcp.py`, `transactions.py`) | runs, hops, samples, steps | insert, finalize, delete, baseline | | `RunStore` |
| schema (`db/__init__.py`) | columns | create, migrate (on every session) | | `Schema` |
| caches (`mtr_analysis.py`, `geoip.py`) | `asn_cache`, `geoip_cache` | look up, fill | whois, an HTTP service | `LookupCache` |
| S3 bench (`s3_bench.py`) | a thread pool | put or get many objects | S3, `s3_runs`, `s3_tracked_objects` | `Bench` |
| HTTP probes (`http_probe.py`, `http_transaction.py`, `http_modern.py`) | sockets, a cookie jar | one sample, a redirect chain, a transaction | the network | `HttpProbe` |
| analysis (`compare.py`, `kpis.py`, `mtr_analysis.py`) | none | pure functions of rows | | `Measures` |
| daemons and commands (`daemon.py`, `cli.py`) | a process each | measure, judge, store | run tables | `RunStore` |
| probe runner, TCP counters, S3 client (`probe.py`, `tcp_stats.py`, `s3_client.py`) | none | one measurement | the network, `/proc` | what a caller can learn |
| TUI, doctor, colours, templates, charts | none that others read | | | not modelled |

What is hard here comes from one design choice: **no transaction and no lock
spans two steps of anybody**. A session is opened, read, closed; a remote call
of up to minutes follows; another session writes. Between the two, a request
thread may have edited, toggled or deleted the same schedule, a second job of it
may have run, retention may have dropped a row, or the process may have died.
`PROJECT.json` lists the hazards line by line; in short:

* *scheduler*: a batch of due rows that ages while it is worked off, writes over
  a row by somebody who read it earlier, a failing neighbour that takes the rest
  of the tick with it, a job killed at shutdown. Correct means: an enabled
  schedule keeps being run, a disabled one is not (or at most once more), nobody
  is run in a hot loop, a deleted row does not come back, an alarm is posted.
* *tracked objects*: two stores that must agree, with lost answers, crashes, and
  bucket edits in between. Correct means: an object of the user is never
  touched, the pool of objects is bounded, the table tells what is out there, a
  purge ends.
* *run tables*: a run is several INSERTs, a page several SELECTs, a judgement a
  SELECT and an INSERT, a schedule's `last_run_id` a session of its own; jobs,
  daemons, commands, retention and deletions do them at once. Correct means: runs
  are whole in the file and on the page, numbers are never reused, a run is judged
  by earlier ones, old runs go.
* *migrations, caches, bench*: check-then-act on shared tables. Correct means: no
  session meets an old table, a service is not asked for ever, an answer is not
  lost to a latecomer, an object is not left without a row.
* *HTTP probes*: nested calls with sockets open at each level, ways out at every
  stage. Correct means: sockets are bounded and closed, no step of a transaction
  is silently skipped, cookies are the latest.
* *analysis*: sorting of rows that share a second, sliding windows, medians that
  contain what they judge. Correct means: equal to a definition without windows
  and loops.

## Modules

    Status --------> Scheduler -------> MCScheduler        SchedulerProofs
    OwnedStore <---- TrackedObjects --> MCTrackedObjects   TrackedObjectsProofs <- LedgerProofs
    RunLog <-------- RunStore --------> MCRunStore         RunStoreProofs
    Schema ----\
    LookupCache -+-> SharedFile ------> MCSharedFile       SharedFileProofs
    Bench -----/
                     HttpProbe -------> MCHttpProbe        HttpProbeProofs
                     Measures --------> MCMeasures         MeasuresProofs <- DashboardProofs

`OwnedStore` and `RunLog` are abstract specifications which the module to their
right implements. `PROJECT.json` maps each definition to its lines of code.

### `TrackedObjects`: the objects mtrgraph puts by itself

| variable | code |
|---|---|
| `remote` | the buckets (external) |
| `alive`, `marked` | rows of `s3_tracked_objects` with `deleted_at` NULL / set |
| `state`, `target` | whether the schedule's row exists; the endpoint and bucket of its config, `None` when the config has no S3 credentials |
| `used` | keys generated so far (`uuid4`) |
| `run` | the local variables of `executors/s3.py` `execute`, one job per thread |
| `purge` | those of `api_schedule_purge` and `api_schedule_delete` |
| `gap` | history: objects whose last call ended without a usable record |

One action per step that another thread can see: `LoadJob` (the row as it was
read), `PickPut` / `PickDelete` / `ReadOnly` (the session of s3.py:68 and the
choice made from it), `CallPut` / `CallDelete` (the remote call, with every
answer it may give and every effect it may have had), `RecordPut` /
`RecordDelete` (the session after it); `BeginPurge` / `BeginDelete`, `PurgeCall`,
`PurgeRecord`, `FinishPurge` for the two handlers; `CreateSchedule`,
`EditSchedule`, `Retention`, `Crash`. The job's DELETE joins the bucket of the
*config it loaded* with the key of a *row*, as s3.py:97-99 does; the purge uses
the row's own bucket.

What a caller learns is reduced to what the code tells apart (`Replies`). A
purge counts a 3xx or a missing status as success (`CountsAsPurged`), and a
header block cut short raises out of `_http_request` (`raise`). A session that
fails after the call has the same effect as a lost answer and is covered by it.
Schedules without `random_ops` never touch the table and are left out: what
they delete is what the user configured.

`OwnedStore` is the bucket owner's view, three actions long: mint a new name,
store the object minted, remove an object with a minted name.

### `Status` and `Scheduler`: who is run, when, and who is told

`Status` is pure: the results each executor can have, the status string made of
each (a sequence of its colon-separated fields), the prefix tests of
`is_degraded`, and `Alarming`, which says of a *result* whether it is one to
raise an alarm on.

| variable of `Scheduler` | code |
|---|---|
| `row` | the `schedules` table; `due` is the time left until `next_run_at` (0: NULL or past), `conf` the columns a client submits, `status` the head of `last_status` |
| `thread` | where `Scheduler._loop` is; `off` when the process is down |
| `batch` | the part of `due` (the Python list) not run yet |
| `job` | the local variables of `_run_schedule` in each thread |
| `toggle` | the row `api_schedule_toggle` has read and not written yet |
| `faults`, `crashes` | counters of the bounds |
| `late`, `rest` | history for `LateRunBound` and `Paced` |

`StartNext` takes the rows of the snapshot in the order of their ids, with the
configuration they had then. A job goes `exec` (executor and insertion of the
run) → `record` (`_finalize`) → `notify` (`maybe_notify`) → `post`, and from any
of the first three to `failed`, the except branch. `RecordFailure` may fail in
its turn: in a request this is a 500, in the thread it is the "tick error" that
drops the rest of the batch. `UpdateRow` is an UPDATE by id: nothing happens
when the row is gone. `RunNow` ignores `enabled`, like the code. `Finalize` and `RecordFailure`
compute the next date, each for itself; `CannotBeDated` is when that must or may
raise: no interval can be drawn, or one may be that is beyond `Horizon` (`TooFar`).
`Valid` keeps the first away, and not the second.

The branch for a config that is no JSON (`__init__.py:43-54`) is not modelled:
every writer of the column uses `json.dumps`. `last_run_id` is in `RunStore`.

### `RunStore`: the run tables and their transactions

| variable | code |
|---|---|
| `db` | the last commit: `runs` and `parts` (hops, samples, steps), `seq` (`sqlite_sequence` of AUTOINCREMENT), `sched` (kind and `last_run_id` of the schedules) |
| `draft`, `lock` | what the open write transaction sees, and whose it is: SQLite in WAL mode has one writer, everybody else reads the last commit |
| `work` | one measurement under way per thread or process: a job, a run-now or S3 test request, a daemon, a command, a background MTR thread |
| `sweep` | how many of the four tables `apply_retention` has cleaned in its transaction |
| `page` | the runs a handler has selected and the parts it has read for each |
| `old` | which runs have passed the cutoff |

A measurement goes `measured` → (`judged`, when its baseline is read before) →
`inserted` → `filled` → committed, then `trigger` (`trigger_auto_mtr` starts a
daemon thread), `compare` (the S3 job reads its baseline after the insertion,
s3.py:172), `record` (`last_run_id`, in a session of its own) or `exit`. When a
session fails (`SessionFails`), a command ends with its MTR thread in mid-transaction
(`ProcessEnds`) or the server dies (`ServerCrash`), what is not committed is rolled
back. Pages (`OpenRun`, `OpenComparison`, `OpenSeries`, `ReadParts`) run each
SELECT on the last commit of its moment. `found` and `by` in a row are not
columns: they remember what the measurement consisted of and whose job it was.

`RunLog` is the reader's view: `Add` a whole run under the next number of its
table, `Drop` any. Its state is the refinement mapping `log`, which assembles each
row with its parts, and `top`, the sequence.

### `Schema`, `LookupCache`, `Bench`, and `SharedFile` that composes them

| variable | code |
|---|---|
| `columns`, `session`, `refused` | the columns later releases added; where each session is in `init_db`, which checks and adds them one by one; the sessions that met "duplicate column name" |
| `known`, `turn`, `lookup` | `asn_cache` / `geoip_cache` (a row may say that nothing is known); `_lock`; the local variables of `lookup_asns` or `geoip.lookup` in each request |
| `asked`, `racers`, `fails` | history: requests to the service; lookups under way since before the row was written; a bound |
| `stage`, `op`, `stored`, `tracked` | where `run_bench` is; what each worker knows of its PUT; the objects in the bucket (external); the rows in `s3_tracked_objects` |

In `SharedFile` a page opens a session (migrating the file), reads the run, and
looks its addresses up; the bench opens its only session at its end, and loses all
its rows when that is refused. The composition's steps are steps of the components:
`SharedFileProofs.Composition` states it.

### `HttpProbe`: probes, redirects and transactions

| variable | code |
|---|---|
| `job` | what was asked: `probe_many`, with redirects or not, the httpx probe, or a transaction with its steps |
| `frames`, `sockets` | the nested calls of `probe_once`, each at one of its stages, and the sockets they hold |
| `sample` | the `HttpSample` on its way back, until somebody takes it |
| `results`, `jar` | the samples, or steps, so far; the step each cookie's value is from |
| `outcome` | what is recorded, or that an exception ended the job |

`Parse`, `Resolve`, `Connect`, `Handshake`, `Request` are the stages of
`probe_once`, each with every way out it has: an error sample (`ReturnError`), an
exception that leaves all the frames (`Raise`), the next stage. A redirect is a
nested frame, and `Redirected` is what the outer call does to the sample of the
inner one. `TakeStep` judges a step (`Acceptable`) and merges its cookies; it raises
when `expect_status` is neither missing nor a list (`StepRaises`). `settimeout`
(http_probe.py:116) is outside the try: with a timeout it refuses, such as a negative
one, the socket would be left to the garbage collector. Timeouts are taken
to be positive here.

### `Measures`: what is made of a series of runs

Pure operators over two growing tables: `S3Verdict` and `DaemonVerdict` (median
and thresholds of `scheduler/executors/s3.py` and `daemon.py`, the daemon's applied to
the same rows for comparison, where the code has it judge those of http_runs), `DetectBurst` and
`Mttr` (`kpis.py`), `Judged` (`compare.py`) and `AsymmetryScore`
(`mtr_analysis.py`). `StoreS3` and `StoreMtr` let TLC meet every series up to a
length. A series is a set of row numbers: `LatestOf` is `ORDER BY started_at DESC
LIMIT n`, and `InOrder` is `sorted`, which puts at place k the row with k - 1
rows before it. Medians are doubled and rates are multiplied by the length of the
window, so that they are integers. The loop of `mttr` is the recursive function
`Walk`; the two nested loops of `detect_burst` become a choice among their slices.

## What TLC checks

| run | config | what it asks |
|---|---|---|
| `tracked` | `MCTrackedObjects` | no object of the user is removed; rows and buckets agree, and no row is dropped before its object, up to the named gaps; refinement of `OwnedStore`; a purge or delete request ends |
| `pool` | `MCTrackedPool` | with two jobs at once the pool exceeds its ceiling by less than their number |
| `live` | `MCSchedulerLive` | no deleted row comes back; a schedule is started at most once after it was switched off; no hot loop; an enabled schedule is run for ever, with stale writes of a request, and a failed session or a death, unless one before it has an interval that is too far |
| `alarms` | `MCSchedulerAlarms` | what an executor finds alarming is posted when there is a webhook, or gets lost in one of four ways |
| `store` | `MCRunStore` | committed runs are whole; pages show a run whole or not at all; `last_run_id` is the schedule's own; runs are judged by earlier ones; refinement of `RunLog`; old runs go |
| `shared` | `MCSharedFile` | no session meets an old table; how often a session can be refused and a service asked; who may replace a cached row; the lock of the lookups is passed on; what a bench leaves without a row |
| `probe` | `MCHttpProbe` | sockets are bounded and closed; a transaction recorded without an error ran whole; each step is sent the latest cookies; `final_url` is right after one redirect |
| `analysis` | `MCMeasures` | spikes, bursts, recoveries, dark hops and asymmetry against definitions without sorting, windows and walks |

Four runs end in a violation: they show a sentence of the documentation, or a
comment, that the code does not keep.

| run | config | the documentation says | the code |
|---|---|---|---|
| `row` | `MCTrackedRow` | the row of an object that is there is never dropped (retention.py:15) | it is, after a bucket edit |
| `http_errors` | `MCSchedulerHttp` | `http:403` alerts (docs/schedules.md:97) | `http:get:403` does not match `http:4` |
| `webhook` | `MCSchedulerWebhook` | a webhook never makes the run fail (docs/schedules.md:134) | a URL without scheme does |
| `redirects` | `MCHttpRedirects` | `final_url` is the URL after the redirect chain (http_probe.py:42) | after two redirects it is the target of the first |

Milder disagreements have no run of their own:

* docs/schedules.md:69 says that every key PUT is recorded: the exceptions are the
  gaps `LedgerExact` names. docs/s3-bench.md:39 says so of the PUTs of a
  bench: not when one of its workers raises (`BenchObjectsTracked`), nor, on
  request, with `--no-track`, which is left out.
* docs/schedules.md:141 says that a disabled schedule is excluded: the tick in
  progress may still run it, once, which is what `LateRunBound` says.
* docs/schedules.md:21 says that the scheduler starts with the server: not when the
  first `init_db` of its thread fails (`InitDb`).
* docs/schedules.md:116 lists `err:*` among what is posted: the `err:` of the
  except branch is recorded, and not posted (`RecordFailure`). This is the end of
  an executor that raises, and also of an alarm whose record fails or whose
  webhook URL is malformed; `AlarmsPosted` lists the ways.
* scheduler/__init__.py:38 says that a job catches all exceptions: not those of its
  except branch. docs/schedules.md:106 gives intervals a minimum, and advises
  against more than a few days; `_validate_schedule` has no upper bound. An
  interval that leads past the year 9999 (about 2.5 * 10^11 s today) makes
  `timedelta` or the addition raise OverflowError in `_finalize`
  (`scheduler/__init__.py:120`) and again in the except branch (line 110). Such a
  schedule stays due, is run every tick, is never recorded, and ends every tick
  before the schedules with larger ids. `EnabledKeepRunning` says so by its
  `WayIsFree`: without that condition TLC refutes it.
* `db/__init__.py:198` calls the migration of a column silent: two sessions that
  both miss it see one of them refused (`RefusalBound` says how often at most).
* "Cached forever" (`mtr_analysis.py:4`): a lookup that began before the row was
  written and got no answer replaces it by "unknown" (`OnlyRacersReplace`).
* docs/db-schema.md:124 calls `last_run_id` the last run's: it is that of the job
  that ended last, and may go back when two overlap (`LastRunOwn` says what holds). It
  is a bare number: after an edit of the kind, templates/schedules.html:643 links
  it in the table of the new kind. The model's `Ref` remembers the table, so
  `LastRunOwn` says nothing of that.
* `mtr_analysis.py:172` takes `runs[-1]` for the most recent run: the list comes
  newest first (`AsymmetrySettles` says when the score is right again).
* `kpis.py:106` announces the most recent burst and returns the largest.

## Bounds

* *Tracked objects.* Two buckets are needed for an edit to matter, and are
  enough since a row has one bucket and a job another. Three keys, one of them
  the user's, allow a PUT before and one after an edit or a crash; the `pool` run
  has one bucket and enough keys to overrun `max_pool_size` = 1 with two jobs.
  One schedule: tables and threads of different schedules share nothing but the
  buckets, where keys are distinct. Keys are never drawn twice, so a run ends
  when they are used up: deadlock is not checked.
* *Scheduler.* Two schedules make a batch with a neighbour. Intervals are 1 or 2
  units; a unit stands for 5 s, the smallest interval the validation accepts, so
  `MinInterval` = 1. In `live` there are three inputs: interval 1, interval 3,
  which is beyond `Horizon` = 2, and a reversed pair that `Valid` refuses;
  `alarms` has every kind with every webhook, and one interval beyond the horizon.
  `MaxFaults` = 1 bounds failed sessions and deaths together: one session between any
  two steps fails, or one death comes at any moment (the theorems hold for any
  number of either). What raises for a date that cannot be computed is not
  counted: it raises every time. `live` has a VIEW without the results and
  statuses: none of its inputs has a webhook, so that no guard and no property
  but `TypeOK` depends on them, and what they can be is a matter of the kind alone.
  No deadlock is possible since time always passes, so checking it would
  show nothing; the check is off.
* *Run store.* Two measurements (`MaxRuns`), so that one commits between any two
  steps of the other, by any two of a job, its MTR thread, a daemon and a command,
  in four of the five tables (tcp has the shape of s3); two parts, so that a run
  can be in pieces; one failed session or server crash (`MaxFaults`; ends of
  processes are unbounded). It stops when the measurements are used up.
* *Shared file.* Two missing columns, so that a session can die, or be overtaken,
  between them; two pages and a bench, so that a column can refuse two; one
  address with one answer, since rows do not influence each other; two PUTs on
  one thread, so that one can be queued while the other raises. `MaxFails` = 1.
* *HTTP probes.* Two redirects are the least that distinguish the outer calls'
  writes, and every answer is possible at each. Three steps have one between two
  others; two cookies, one being set while another is kept. A step expects a set
  of statuses, nothing in particular, or what is no list at all. A job follows any job.
* *Measures.* Every series of up to `MaxS3` = 6 runs of S3 and `MaxMtr` = 5 of
  mtr. Baselines are of `BaselineN` = 4 runs for S3 and the daemon and `LastN` = 3 for
  mtr, bursts of two and windows of two: series are longer than any of these, with
  rows of one second, gaps, and medians of even and odd numbers. With an even
  baseline a daemon's verdict can be the milder one: TLC refutes the second clause
  of `SpikesJudged` without its condition in this very instance. `ErrorPct` is 60 where the code has 20, as a window of two has rates of
  0, 50 and 100 only: one calm, one in between, one degraded.
* Symmetry, over keys and threads, is used in the `pool` run only, which checks an
  invariant.

## Fairness

`FairSpec` of `Scheduler` assumes weak fairness of the scheduler thread, of each
job and of time. A job step ends because every executor has a timeout: mtr's
subprocess gets `cycles * interval + 15` s (`probe.py:50`), sockets and
`urlopen` have one, the TCP sampler sleeps for a configured time; a server that
sends one byte per timeout for ever is excluded by this assumption. Nothing is
assumed of clients, of `Start` or of crashes. `EnabledKeepRunning` is
conditional: it speaks of schedules that from some moment on stay enabled with
one configuration while the thread is there, and have no enabled schedule in front
of them whose interval is too far (`WayIsFree`). One that is too far itself is
run for ever, without ever being recorded.

In `TrackedObjects`, `FairSpec` assumes that a request thread continues.

In `RunStore`, it assumes weak fairness of each writer's steps (local statements),
of the retention's commit, and strong fairness of its DELETEs: they need a lock that
others take too. The sweeper waits 5 s for it (`db/__init__.py:191`) and comes back every
period, for ever, so it is not refused every time unless writers leave no gap
whenever it asks. No new measurement, page or deletion is assumed to come, nor a
run to grow old. `OldRunsGo` says that what is past the cutoff goes, in spite
of a failed pass.

## Mutants

Each property is accompanied by a mutation of one definition that a bug could
plausibly introduce: a dropped cap, an upsert for an update, a missing
`enabled=1`, a failed run that keeps its `next_run_at`, a missing
AUTOINCREMENT or cascade, a baseline read too late, a lock not released by an
exception, a socket that a raise leaves open, an open interval for a closed one.
The mutated operators stand next to the originals (`PickableOpsNoCap`,
`UpsertRow`, `NextIdWithoutAutoincrement`, `WithoutRunsOnly`, `HoldsOn`,
`KeepsOpen`, `InOpenWindow`, ...) and no action uses them.

## What is proved

All proofs are for every value of the constants that satisfies the assumptions
named in the modules: any sets of schedules, buckets, keys, threads, tables,
columns, addresses and operations (finite where something is counted), any
limits, intervals, and bounds on faults and crashes.

**`TrackedObjectsProofs`.** `TypeCorrect`, `SafeDelete` (an object of the user
stays), `Refinement` (`TrackedObjects` implements `OwnedStore`), `PoolBound`,
`PurgeAdvances`.
"No user object is removed" is not inductive: a step deletes what is in a
thread's hands, so the invariant `Inv` has to say that every row, in the table,
in a job or in a purge's snapshot, carries a generated key (`RowsOwned`), that
no generated key is a user's, and that the buckets hold nothing else
(`KeysOwned`). `PutsDistinct` (no two jobs hold the same key before its PUT) is
what the refinement needs: storing an object uses up its name. `PoolBound`
needs no more than the types and an argument about cardinalities: a job enters
the PUT phase only when it saw room, so what matters is how many are in it.
`PurgeAdvances` is the part of `PurgeEnds` that needs no fairness: a request's list is
finite (as the pool is) and every step that changes the request, a crash
included, leaves it less to do.

**`LedgerProofs`.** `Ledger`: the table and the buckets agree but for `gap`. Four
layers above `Inv`. `RowsDistinct`: a key is in one row only, wherever somebody
holds that row. `InPlace`: an object with the key of a row is where the row says.
`Witnessed`: what a thread holds as an answer is still true of the bucket, which
is why the record it makes of it is right; it needs the first two, since another
thread that had the same key could make it false. `Settled`: objects nobody has
acted upon agree with the table. It is `LedgerExact` with the refused calls
tightened, as these have changed nothing. `NothingLeaks` (`DroppedIsGone`) adds
`MarkedIsGone`: a row is marked on a witnessed answer, and what is gone stays gone,
since no key is stored twice. It says exactly how far the comment of
`retention.py:15`, which `row` shows to be broken by a bucket edit, is kept: the
rows that leak are those of the named gaps.

**`SchedulerProofs`.** `TypeCorrect`, `LateRuns`, `Pacing`, `Alarms`, all from one
invariant `Inv` with four parts beyond the types. `JobShape`: only validated
configurations are stored, batched and run, so that the interval drawn is never
below `MinInterval` (lemma `IntervalFloor`) and exists. `BatchShape`: the batch
names a schedule once, and not the one being run. `LateShape`: a late start has
used up the schedule's place in the batch, and only a tick that sees it enabled
can put it back; this is why one is the bound. `RestShape`: `next_run_at` is
never sooner than what the thread owes the schedule, in spite of the jobs of
requests that write it too. `JobShape` is what makes the last one true: the
stale configuration a job draws its interval from was valid when it was read. For
`Alarms`, `AlarmsDegrade` goes through the results of each executor, and
`AlarmsLost` shows that a job leaves `record` or `notify` without a post in four ways only.
`NeverFarOff` is the upper bound that goes with `Paced`: whatever writes `next_run_at`,
a late job, a failure or a toggle that puts back what it has read, it is never further
away than the longest submitted interval that leads to a date, whatever the horizon. `DueStep` is its invariant: the
due times remembered by toggles under way are bounded as well.

**`RunStoreProofs`.** `TypeCorrect`, `Whole`, `PagesAreConsistent`, `LastRuns`,
`Judgements`, `Refinement` (`RunStore` implements `RunLog`), `PassesAreThorough`,
`OnlyTimeAges`. The transactions come
first: `Held` (one writer, and who it is), `DraftIs` (the open draft is the last
commit plus the run being inserted, or minus what the sweep has taken: nothing
else ever reaches a commit). From these the lemma `DbChanges` says what a step
can do to the last commit: store one whole run under the next number, remove
runs whole, or write a schedule's row. Everything else speaks of that lemma and of
no action any more: `Tables` (runs whole, numbers below the sequence, one run per
number), `Remembered` (the number a job or a schedule remembers was given to that
schedule's run and will never be another's, because the sequence only grows),
`Judged` (a baseline is below the sequence at its time) and `Pages` (a run a
page has selected is the one of its number, present or gone for good). The last two
are what retention does without any fairness: `PassesAreThorough` says that a pass
that commits leaves nothing that was past the cutoff when it began (`CleanOf`: the
tables cleaned so far stay clean, since nobody else writes during the pass), and
`OnlyTimeAges` that no insertion, rollback or crash puts a run past the cutoff; this
needs `OldKnown`, that old runs have numbers below the sequence. The hypothesis of
`PassesAreThorough` is about time only: x does not grow old while a pass is under way.

**`SharedFileProofs`.** `Composition`, then one invariant per component, and the
seven properties of the composed file. Migrations: `Passed` (a session on its way
has seen the columns before) and `RefusalsPaidFor`: sessions refused so far and
those that will be are paid for by the columns already added, each of which can
refuse all but the one that added it. Caches: `AsksPaidFor`, the same argument for
addresses: after the row is there only those can still ask that had found it
missing; `RacersKnown`. Bench: `WhereStored`, `AllAnswered`, `TrackedAtEnd`.

**`HttpProbeProofs`.** `Sockets`, `TypeCorrect`, `Accepted`, `Cookied`, `FinalUrls`. `Shape`:
the frames but the last are those waiting for a redirect, a socket is open per
frame that says so, and a sample on its way back belongs to the last frame;
the bound on sockets is then one on the length of a sequence. `Progress`:
results grow only while a job has something left. `Judged`: each step was judged
by what it expects, every step but the last was accepted. `Reported`: what was
recorded is left alone until the next job begins. `JarLatest`: the jar holds the
value of the last step that set a name. `FinalUrls` is the other side of the
`redirects` run: `Chained` says what the calls a sample has passed have written over,
and it follows that `final_url` is right for at most one redirect, and for no
longer chain.

**`MeasuresProofs`.** `SpikesAreJudged`, `DarkHopIsCritical`, `AsymmetryDoesSettle`,
for series, baselines and thresholds of any size. The invariant, `SeriesInv`
(theorem `SeriesStayTyped`), is small: rows are runs, and those of S3 are stored
in the order of `started_at`. The work is in the operators. `InOrderBijection`: a strict total
order of a finite set gives each element a rank of its own, so by the pigeonhole
principle every rank is taken, and `InOrder` lists every row once. `MedianMiddle`: the
middle values of a sorted series are at most x exactly when half of its values
are, which turns every statement about a median into one about counting.
`LatestAppended`: a new row takes one place of the LIMIT. With them `JudgedSlower`
says what a verdict means for a run that is part of its own baseline, and
`SeverityMilder` that taking it out can only make the verdict worse. This is
unconditional. That a daemon is at least as strict is proved for as long as there
are fewer than `BaselineN` earlier runs: beyond, the daemon looks one run further
back, and may be the milder of the two.

**`DashboardProofs`.** `BurstIsExact`, `MttrIsExact`. A burst is counted in both
directions: the errors of a slice are in the window that begins with its first
(`SliceWithinAround`), and those of a window are in one slice, ties included
(`AroundWithinSlice`); a largest slice exists (`BestSliceExists`). For `mttr`, `Walk` is
shown to exist (`WalkExists`), and `Walked` says what its state is after window
i: `degraded_since` is the first degraded window of the stretch that is open, and
the durations are those of the stretches that have ended. `WalkStep` is one turn of the
loop. `SortedAlready`: rows of distinct seconds are left as they are by the sort;
this is where the order of `started_at` is needed.

The library's induction theorems cannot be used here (they take an operator as a
parameter), so what needs induction, such as `Walk`, is proved from the least
counterexample: `LeastNat` says that a set of naturals that is not empty has a least
element.

**Only model-checked.** The liveness properties `PurgeEnds`, `EnabledKeepRunning`
and `OldRunsGo`: liveness under fairness is out of the prover's reach. Their
fairness-free parts are theorems: `PurgeAdvances` (every step of a purge leaves it
less to do), `NeverFarOff` (time alone makes a schedule due), and
`PassesAreThorough` with `OnlyTimeAges` (a pass that ends has done its work, and
nothing but time undoes it). Every other property of a passing run is the statement
of a theorem.

## Plan

Done: everything above. What would add most next:

1. Composition of `Scheduler` and `TrackedObjects`: the scheduler's jobs as the
   runners, one crash for both. (Each is now checked with jobs that may start,
   and processes that may die, at any moment, which includes what the other
   allows.) Likewise of `Scheduler` and `RunStore`.
2. A bench of PUTs beside the jobs of `TrackedObjects` and the purge of
   `schedule_id` 0.
3. `apdex`, `trend`, `failure_modes`, `heatmap_day_hour` of `kpis.py` against
   reference definitions, with a run stored while the dashboard reads.

## Not modelled, and why

* SigV4 signing, HTTP framing, XML and JSON parsing, the mtr subprocess, reading
  `/proc`: pure data or I/O; what a caller can learn of them is.
* Timings and statistics: reals; only the thresholds a status depends on matter,
  as severities (`Status`) or as integers (`Measures`).
* The rest of `kpis.py`: single passes over the rows of one SELECT.
* TUI, doctor, colours, templates, charts, Kubernetes manifests, and the printing
  and argument parsing of the CLI: one-shot or presentation.
* Listings and pages of one SELECT: they read one state and change none.
* `VACUUM`: it changes no row.
* `Scheduler.stop`'s orderly case: what it can leave behind is a subset of what
  `Crash` can.
