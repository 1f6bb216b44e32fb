--------------------------- MODULE TrackedObjects ---------------------------
(***************************************************************************)
(* The S3 objects mtrgraph PUTs by itself (random_ops schedules), the rows *)
(* of s3_tracked_objects that remember them, and everyone who touches      *)
(* either: job executions (the scheduler thread and run-now requests), the *)
(* purge and delete requests of the web API, schedule edits, retention and *)
(* process crashes.  The remote bucket and the database are two stores     *)
(* that no transaction spans: every job reads one, calls the other, then   *)
(* writes the first again, and anything may happen in between.             *)
(***************************************************************************)
EXTENDS Naturals, FiniteSets

CONSTANTS
  Schedules,    \* schedule ids (AUTOINCREMENT: never reused)
  Locs,         \* <endpoint, bucket> pairs a schedule can be pointed at
  Keys,         \* object names
  UserObjects,  \* objects of somebody else, there from the start
  Runners,      \* threads that execute a job: the scheduler, run-now requests
  Purgers,      \* request threads of DELETE /schedules/x and POST /x/purge
  MinPool,      \* config.min_pool_size
  MaxPool,      \* config.max_pool_size
  None          \* "no value"

Objects == Locs \X Keys

(***************************************************************************)
(* Nothing relates MinPool to MaxPool: _validate_schedule checks neither.  *)
(***************************************************************************)
ASSUME TrackedAssumption ==
  /\ UserObjects \subseteq Objects
  /\ IsFiniteSet(Runners)
  /\ MinPool \in Nat /\ MaxPool \in Nat
  /\ None \notin Locs

(***************************************************************************)
(* What the caller learns from an S3Result: "ok" is 2xx, "notfound" 404,   *)
(* "refused" another 4xx, "error" a result with error set (connection      *)
(* lost, timeout) or a 5xx, "odd" a 3xx or a result with neither error nor *)
(* status (unparsable status line), "raise" an exception (header block cut *)
(* short).                                                                 *)
(***************************************************************************)
Replies == {"ok", "notfound", "refused", "error", "odd", "raise"}

\* A job only tells a 2xx from the rest: one reply for each of the rest's
\* effects stands for all of them ("error" also for a 2xx that the session
\* failed to record, like "raise" in a purge).
JobReplies == {"ok", "refused", "error"}

\* After these the caller cannot know whether the server acted.
Inconclusive == {"error", "odd", "raise"}

VARIABLES
  remote,   \* the objects stored in the buckets
  alive,    \* rows of s3_tracked_objects with deleted_at NULL
  marked,   \* rows with deleted_at set
  state,    \* schedule -> "unused" | "live" | "gone"
  target,   \* schedule -> its config's Loc, None when it has no credentials
  used,     \* keys already generated (uuid4: never drawn twice)
  run,      \* runner -> the job it is executing
  purge,    \* purger -> the request it is serving
  gap       \* history: objects whose last call ended without a usable record

vars == <<remote, alive, marked, state, target, used, run, purge, gap>>

Row == [sid : Schedules, loc : Locs, key : Keys]
Obj(row) == <<row.loc, row.key>>

AliveOf(s) == {row \in alive : row.sid = s}
NoRow == [sid |-> None, loc |-> None, key |-> None]

JobPhases == {"idle", "loaded", "put", "putReplied", "delete", "deleteReplied"}
Job == [pc : JobPhases, sid : Schedules \cup {None}, loc : Locs \cup {None},
        row : Row \cup {NoRow}, reply : Replies]
PurgeRequest == [pc : {"idle", "working", "replied"}, sid : Schedules \cup {None},
                 drop : BOOLEAN, todo : SUBSET Row, row : Row \cup {NoRow},
                 reply : Replies]
IdleJob == [pc |-> "idle", sid |-> None, loc |-> None, row |-> NoRow, reply |-> "ok"]
IdlePurge == [pc |-> "idle", sid |-> None, drop |-> FALSE, todo |-> {},
              row |-> NoRow, reply |-> "ok"]

\* Where a DELETE of runner r goes: the bucket of the job's config, the key
\* of the tracked row.
DeleteCall(r) == <<run[r].loc, run[r].row.key>>

(***************************************************************************)
(* The bucket, as the callers see it.  A 2xx PUT or DELETE was applied; a  *)
(* 4xx was not, and a 404 says the object is not there; otherwise it may   *)
(* or may not have been.                                                   *)
(***************************************************************************)
ServerPut(o, reply) ==
  \/ reply \in {"ok"} \cup Inconclusive /\ remote' = remote \cup {o}
  \/ reply # "ok" /\ remote' = remote

ServerDelete(o, reply) ==
  \/ reply \in {"ok"} \cup Inconclusive /\ remote' = remote \ {o}
  \/ reply \notin {"ok", "notfound"} /\ remote' = remote
  \/ reply = "notfound" /\ o \notin remote /\ remote' = remote

Init ==
  /\ remote = UserObjects
  /\ alive = {} /\ marked = {} /\ used = {} /\ gap = {}
  /\ state = [s \in Schedules |-> "unused"]
  /\ target = [s \in Schedules |-> None]
  /\ run = [r \in Runners |-> IdleJob]
  /\ purge = [p \in Purgers |-> IdlePurge]

-----------------------------------------------------------------------------
(* Schedules, as far as the tracked objects depend on them. *)

CreateSchedule(s, l) ==
  /\ state[s] = "unused"
  /\ state' = [state EXCEPT ![s] = "live"]
  /\ target' = [target EXCEPT ![s] = l]
  /\ UNCHANGED <<remote, alive, marked, used, run, purge, gap>>

\* An edit overwrites the whole config: another bucket, or (None) another
\* kind of schedule, whose config holds no S3 credentials.
EditSchedule(s, l) ==
  /\ state[s] = "live"
  /\ target' = [target EXCEPT ![s] = l]
  /\ UNCHANGED <<remote, alive, marked, state, used, run, purge, gap>>

-----------------------------------------------------------------------------
(* A job: load the schedule row, read the pool and pick an operation, call *)
(* the bucket, record the outcome.                                         *)

ExistingSchedule(s) == state[s] = "live"

HasCredentials(s) == state[s] = "live" /\ target[s] # None

\* The row is read once (the tick's due snapshot, or run_now); the job keeps
\* that config however the schedule changes afterwards.
LoadJob(r, s) ==
  /\ run[r].pc = "idle"
  /\ HasCredentials(s)
  /\ run' = [run EXCEPT ![r] = [@ EXCEPT !.pc = "loaded", !.sid = s, !.loc = target[s]]]
  /\ UNCHANGED <<remote, alive, marked, state, target, used, purge, gap>>

PickableOpsNoCap(n) == {"put", "delete", "read"}

PickableOps(n) ==
  IF n < MinPool THEN {"put", "read"}
  ELSE IF n >= MaxPool THEN {"delete", "read"}
  ELSE {"put", "delete", "read"}

\* head, get and delete fall back to put when nothing is tracked.
MayPut(n) == "put" \in PickableOps(n) \/ n = 0

ReusedKey(k) == k \notin used

\* A key of its own for every PUT: uuid4 in its name.
FreshKey(k) == k \notin used /\ \A l \in Locs : <<l, k>> \notin UserObjects

PickPut(r, k) ==
  /\ run[r].pc = "loaded"
  /\ MayPut(Cardinality(AliveOf(run[r].sid)))
  /\ FreshKey(k)
  /\ used' = used \cup {k}
  /\ run' = [run EXCEPT ![r] = [@ EXCEPT !.pc = "put",
                !.row = [sid |-> run[r].sid, loc |-> run[r].loc, key |-> k]]]
  /\ UNCHANGED <<remote, alive, marked, state, target, purge, gap>>

AnythingListed(r) ==
  {[sid |-> run[r].sid, loc |-> o[1], key |-> o[2]] : o \in {x \in remote : x[1] = run[r].loc}}

\* random.choice over the rows alive at this moment, whatever their bucket.
Deletable(r) == AliveOf(run[r].sid)

PickDelete(r, row) ==
  /\ run[r].pc = "loaded"
  /\ "delete" \in PickableOps(Cardinality(AliveOf(run[r].sid)))
  /\ row \in Deletable(r)
  /\ run' = [run EXCEPT ![r] = [@ EXCEPT !.pc = "delete", !.row = row]]
  /\ UNCHANGED <<remote, alive, marked, state, target, used, purge, gap>>

\* list, head and get change neither store, whatever they answer.
ReadOnly(r) ==
  /\ run[r].pc = "loaded"
  /\ run' = [run EXCEPT ![r] = IdleJob]
  /\ UNCHANGED <<remote, alive, marked, state, target, used, purge, gap>>

CallPut(r, reply) ==
  /\ run[r].pc = "put"
  /\ ServerPut(Obj(run[r].row), reply)
  /\ run' = [run EXCEPT ![r] = [@ EXCEPT !.pc = "putReplied", !.reply = reply]]
  /\ UNCHANGED <<alive, marked, state, target, used, purge, gap>>

CallDelete(r, reply) ==
  /\ run[r].pc = "delete"
  /\ ServerDelete(DeleteCall(r), reply)
  /\ run' = [run EXCEPT ![r] = [@ EXCEPT !.pc = "deleteReplied", !.reply = reply]]
  /\ UNCHANGED <<alive, marked, state, target, used, purge, gap>>

\* UPDATE ... SET deleted_at WHERE id: nothing to do when retention already
\* dropped the row.
MarkDeleted(row) ==
  /\ alive' = alive \ {row}
  /\ marked' = IF row \in alive THEN marked \cup {row} ELSE marked

RecordPut(r) ==
  /\ run[r].pc = "putReplied"
  /\ alive' = IF run[r].reply = "ok" THEN alive \cup {run[r].row} ELSE alive
  /\ gap' = IF run[r].reply \in Inconclusive THEN gap \cup {Obj(run[r].row)} ELSE gap
  /\ run' = [run EXCEPT ![r] = IdleJob]
  /\ UNCHANGED <<remote, marked, state, target, used, purge>>

RecordDelete(r) ==
  /\ run[r].pc = "deleteReplied"
  /\ IF run[r].reply = "ok"
       THEN MarkDeleted(run[r].row)
       ELSE UNCHANGED <<alive, marked>>
  /\ gap' = IF \/ run[r].reply \in Inconclusive
               \/ run[r].reply = "ok" /\ DeleteCall(r) # Obj(run[r].row)
              THEN gap \cup {Obj(run[r].row)} ELSE gap
  /\ run' = [run EXCEPT ![r] = IdleJob]
  /\ UNCHANGED <<remote, state, target, used, purge>>

-----------------------------------------------------------------------------
(* POST /api/schedules/{sid}/purge and DELETE /api/schedules/{sid}?purge.  *)

\* 404 and 400 change nothing: the request goes on only for an existing
\* schedule whose config holds credentials.
BeginPurge(p, s) ==
  /\ purge[p].pc = "idle"
  /\ HasCredentials(s)
  /\ purge' = [purge EXCEPT ![p] = [@ EXCEPT !.pc = "working", !.sid = s,
                                             !.todo = AliveOf(s)]]
  /\ UNCHANGED <<remote, alive, marked, state, target, used, run, gap>>

\* Without purge, or without credentials, no remote object is deleted.
BeginDelete(p, s, withPurge) ==
  /\ purge[p].pc = "idle"
  /\ state[s] = "live"
  /\ purge' = [purge EXCEPT ![p] = [@ EXCEPT !.pc = "working", !.sid = s, !.drop = TRUE,
                  !.todo = IF withPurge /\ target[s] # None THEN AliveOf(s) ELSE {}]]
  /\ UNCHANGED <<remote, alive, marked, state, target, used, run, gap>>

\* The rows of the snapshot, one after the other, each in its own bucket.
\* Their order (by id) makes no difference here.
PurgeCall(p, row, reply) ==
  /\ purge[p].pc = "working"
  /\ row \in purge[p].todo
  /\ ServerDelete(Obj(row), reply)
  /\ purge' = [purge EXCEPT ![p] = [@ EXCEPT !.pc = "replied", !.row = row,
                                             !.reply = reply]]
  /\ UNCHANGED <<alive, marked, state, target, used, run, gap>>

CountsAnyAnswer(reply) == reply # "raise"

\* "r.error or (r.http_status and r.http_status >= 400 and != 404)" is a
\* failure; all the rest is a success, a 3xx and a missing status included.
CountsAsPurged(reply) == reply \in {"ok", "notfound", "odd"}

RetriesFailures(p) ==
  [purge[p] EXCEPT !.pc = "working", !.row = NoRow, !.reply = "ok",
     !.todo = IF CountsAsPurged(purge[p].reply) THEN @ \ {purge[p].row} ELSE @]

\* Whatever the answer, the loop goes on with the next row of the snapshot.
AfterReply(p) == [purge[p] EXCEPT !.pc = "working", !.row = NoRow, !.reply = "ok",
                                  !.todo = @ \ {purge[p].row}]

PurgeRecord(p) ==
  /\ purge[p].pc = "replied"
  /\ IF CountsAsPurged(purge[p].reply)
       THEN MarkDeleted(purge[p].row)
       ELSE UNCHANGED <<alive, marked>>
  /\ gap' = IF purge[p].reply \in Inconclusive
              THEN gap \cup {Obj(purge[p].row)} ELSE gap
  \* An exception ends the request with a 500, the rest of the list undone.
  /\ purge' = [purge EXCEPT ![p] = IF purge[p].reply = "raise" THEN IdlePurge
                                   ELSE AfterReply(p)]
  /\ UNCHANGED <<remote, state, target, used, run>>

\* The schedule row goes however many deletions failed.
FinishPurge(p) ==
  /\ purge[p].pc = "working" /\ purge[p].todo = {}
  /\ IF purge[p].drop
       THEN /\ state' = [state EXCEPT ![purge[p].sid] = "gone"]
            /\ target' = [target EXCEPT ![purge[p].sid] = None]
       ELSE UNCHANGED <<state, target>>
  /\ purge' = [purge EXCEPT ![p] = IdlePurge]
  /\ UNCHANGED <<remote, alive, marked, used, run, gap>>

-----------------------------------------------------------------------------
ExpirableAny == marked \cup alive

\* Retention: the rows marked long enough ago go; their ages are any.
Expirable == marked

Retention(old) ==
  /\ old # {} /\ old \subseteq Expirable
  /\ alive' = alive \ old
  /\ marked' = marked \ old
  /\ UNCHANGED <<remote, state, target, used, run, purge, gap>>

Unrecorded ==
  {Obj(run[r].row) : r \in {q \in Runners : run[q].pc \in {"putReplied", "deleteReplied"}}}
    \cup {Obj(purge[p].row) : p \in {q \in Purgers : purge[q].pc = "replied"}}

\* The process dies (or stop() gives up on its daemon threads): the threads
\* are gone, the database and the bucket are not.
Crash ==
  /\ \/ \E r \in Runners : run[r].pc # "idle"
     \/ \E p \in Purgers : purge[p].pc # "idle"
  /\ gap' = gap \cup Unrecorded
  /\ run' = [r \in Runners |-> IdleJob]
  /\ purge' = [p \in Purgers |-> IdlePurge]
  /\ UNCHANGED <<remote, alive, marked, state, target, used>>

-----------------------------------------------------------------------------
RunnerStep(r) ==
  \/ \E s \in Schedules : LoadJob(r, s)
  \/ \E k \in Keys : PickPut(r, k)
  \/ \E row \in Deletable(r) : PickDelete(r, row)
  \/ ReadOnly(r)
  \/ \E reply \in JobReplies : CallPut(r, reply) \/ CallDelete(r, reply)
  \/ RecordPut(r)
  \/ RecordDelete(r)

PurgeWork(p) ==
  \/ \E row \in purge[p].todo, reply \in Replies : PurgeCall(p, row, reply)
  \/ PurgeRecord(p)
  \/ FinishPurge(p)

PurgerStep(p) ==
  \/ \E s \in Schedules : BeginPurge(p, s)
  \/ \E s \in Schedules, withPurge \in BOOLEAN : BeginDelete(p, s, withPurge)
  \/ PurgeWork(p)

Next ==
  \/ \E s \in Schedules, l \in Locs : CreateSchedule(s, l)
  \/ \E s \in Schedules, l \in Locs \cup {None} : EditSchedule(s, l)
  \/ \E r \in Runners : RunnerStep(r)
  \/ \E p \in Purgers : PurgerStep(p)
  \/ \E old \in SUBSET Expirable : Retention(old)
  \/ Crash

Spec == Init /\ [][Next]_vars

\* A request thread keeps running until its process dies.
FairSpec == Spec /\ \A p \in Purgers : WF_vars(PurgeWork(p))

-----------------------------------------------------------------------------
TypeOK ==
  /\ remote \subseteq Objects
  /\ alive \subseteq Row
  /\ marked \subseteq Row
  /\ state \in [Schedules -> {"unused", "live", "gone"}]
  /\ target \in [Schedules -> Locs \cup {None}]
  /\ used \subseteq Keys
  /\ gap \subseteq Objects
  /\ run \in [Runners -> Job]
  /\ purge \in [Purgers -> PurgeRequest]

(***************************************************************************)
(* docs/schedules.md: "on ne supprime jamais un objet qu'on n'a pas cree". *)
(* No interleaving of jobs, purges, bucket edits and crashes deletes an    *)
(* object of somebody else, although a DELETE joins the bucket of the      *)
(* current config with the key of a row PUT under an earlier one.          *)
(***************************************************************************)
UserObjectsKept == UserObjects \subseteq remote

(***************************************************************************)
(* The pool does not grow without bound.  pick_random_op reads the size    *)
(* before the PUT, so concurrent jobs may all see room: the excess over    *)
(* the larger of the two limits (min wins over max when they cross, and an *)
(* empty pool always PUTs) is at most the number of concurrent jobs.       *)
(***************************************************************************)
Larger(a, b) == IF a > b THEN a ELSE b
Ceiling == Larger(1, Larger(MinPool, MaxPool))

Putting(s) == {r \in Runners : run[r].pc \in {"put", "putReplied"} /\ run[r].sid = s}

PoolBounded ==
  \A s \in Schedules :
    Cardinality(AliveOf(s)) + Cardinality(Putting(s)) < Ceiling + Cardinality(Runners)

(***************************************************************************)
(* The rows alive are exactly our objects in the buckets, but for objects  *)
(* whose call is still to be recorded and those of the named gaps: a call  *)
(* that ended inconclusively, a crash before the record, a random DELETE   *)
(* sent to another bucket than the row's.                                  *)
(***************************************************************************)
LedgerExact ==
  \A o \in Objects \ (UserObjects \cup gap \cup Unrecorded) :
    o \in remote <=> \E row \in alive : Obj(row) = o

(***************************************************************************)
(* A purge or delete request ends whatever the bucket answers and however  *)
(* many objects concurrent jobs PUT meanwhile.                             *)
(***************************************************************************)
PurgeEnds == \A p \in Purgers : purge[p].pc # "idle" ~> purge[p].pc = "idle"

(***************************************************************************)
(* The bucket owner's view (OwnedStore): random_ops stores only objects    *)
(* under names of its own, each at most once, and removes only such        *)
(* objects, in every interleaving of jobs, purges, edits and crashes.      *)
(***************************************************************************)
Owned == INSTANCE OwnedStore WITH
  Places <- Locs, Names <- Keys, Foreign <- UserObjects,
  store <- remote, minted <- used,
  pending <- {Obj(run[r].row) : r \in {q \in Runners : run[q].pc = "put"}}

ImplementsOwnedStore == Owned!Spec

(***************************************************************************)
(* The inductive strengthening of UserObjectsKept.  Threads past a phase   *)
(* hold the data of that phase; every row, in the table or in a thread's   *)
(* hands, has a key we generated; no generated key is a user's; and what   *)
(* the buckets hold beyond the user's objects has such a key.              *)
(***************************************************************************)
JobShape ==
  /\ \A r \in Runners :
       /\ run[r].pc # "idle" => run[r].sid \in Schedules /\ run[r].loc \in Locs
       /\ run[r].pc \notin {"idle", "loaded"} => run[r].row \in Row
       /\ run[r].pc \in {"put", "putReplied"} =>
            run[r].row.sid = run[r].sid /\ run[r].row.loc = run[r].loc
  /\ \A p \in Purgers :
       /\ purge[p].pc # "idle" => purge[p].sid \in Schedules
       /\ purge[p].pc = "replied" => purge[p].row \in Row

RowsOwned ==
  /\ \A row \in alive \cup marked : row.key \in used
  /\ \A r \in Runners : run[r].pc \notin {"idle", "loaded"} => run[r].row.key \in used
  /\ \A p \in Purgers :
       /\ \A row \in purge[p].todo : row.key \in used
       /\ purge[p].pc = "replied" => purge[p].row.key \in used

KeysOwned ==
  /\ \A k \in used, l \in Locs : <<l, k>> \notin UserObjects
  /\ \A o \in remote : o \in UserObjects \/ o[2] \in used

\* A key on its way to the bucket belongs to one job.
PutsDistinct ==
  \A r, q \in Runners :
    r # q /\ run[r].pc = "put" /\ run[q].pc = "put" => run[r].row.key # run[q].row.key

Inv == TypeOK /\ JobShape /\ RowsOwned /\ KeysOwned /\ PutsDistinct /\ UserObjectsKept

(***************************************************************************)
(* retention.py:16 as far as the code keeps it: whatever jobs, purges and  *)
(* retention do to a row between its marking and its end, no row is        *)
(* dropped while its object is there but one of the named gaps.  What      *)
(* these cost is shown by RowOutlivesObject.                               *)
(***************************************************************************)
DroppedIsGone ==
  [][\A row \in (alive \cup marked) \ (alive' \cup marked') :
       Obj(row) \in remote => Obj(row) \in gap]_vars

(***************************************************************************)
(* retention.py:16, "never delete the tracking row while the object is     *)
(* there (would leak the object)".                                         *)
(***************************************************************************)
RowOutlivesObject ==
  [][\A row \in (alive \cup marked) \ (alive' \cup marked') : Obj(row) \notin remote]_vars
=============================================================================
