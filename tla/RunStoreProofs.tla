--------------------------- MODULE RunStoreProofs ----------------------------
(***************************************************************************)
(* Proofs about RunStore, for any number of writers, readers, schedules,   *)
(* runs and faults.                                                        *)
(*                                                                         *)
(* The invariant is built in layers, each proved with the help of those    *)
(* before it: what a writer knows at each point of its program; who holds  *)
(* the write lock, and what the draft then is in terms of the last commit; *)
(* that the tables are whole and their numbers fresh; and what the others, *)
(* schedules, judgements and pages, remember of runs that may be gone.     *)
(***************************************************************************)
EXTENDS RunStore, TLAPS

-----------------------------------------------------------------------------
(* What a writer knows. *)

WorkTyped == work \in [Writers -> Work]

Idle(w) == work[w].pc = "idle" => work[w] = IdleWork

\* Of a measurement that was made: a table, and parts it can have.
Made(w) ==
  work[w].pc \notin {"idle", "probing"} =>
    work[w].kind \in Kinds /\ work[w].found \in FoundBy(work[w].kind)

Fresh(w) ==
  /\ work[w].pc \in {"probing", "measured"} => work[w].base = {}
  /\ work[w].pc = "probing" => "mtr" \in Kinds

Judging(w) == work[w].pc = "compare" => JudgingPoint(w) = "after"

Recording(w) == work[w].pc = "record" => work[w].sid \in Schedules

Locals == \A w \in Writers : Idle(w) /\ Made(w) /\ Fresh(w) /\ Judging(w) /\ Recording(w)

StoreTyped ==
  /\ db \in Database /\ draft \in Database
  /\ lock \in Writers \cup {Sweeper, None}
  /\ sweep \in 0..4

LEMMA IdleWorkTyped ==
  /\ IdleWork \in Work /\ IdleWork.pc = "idle" /\ IdleWork.kind = None /\ IdleWork.base = {}
  /\ IdleWork.sid = None /\ IdleWork.id = 0
  BY DEF IdleWork, Work, Phases

\* A step that gives one writer new local variables.
LEMMA OneWriter ==
  ASSUME WorkTyped, Locals, NEW w \in Writers, NEW x \in Work,
         work' = [work EXCEPT ![w] = x],
         Idle(w)' /\ Made(w)' /\ Fresh(w)' /\ Judging(w)' /\ Recording(w)'
  PROVE  WorkTyped' /\ Locals'
<1>1. WorkTyped'
  BY DEF WorkTyped
<1>2. \A v \in Writers : v # w => work'[v] = work[v]
  BY DEF WorkTyped
<1>3. ASSUME NEW v \in Writers, v # w
      PROVE  Idle(v)' /\ Made(v)' /\ Fresh(v)' /\ Judging(v)' /\ Recording(v)'
  BY <1>2, <1>3 DEF Locals, Idle, Made, Fresh, Judging, Recording, JudgingPoint
<1> QED BY <1>1, <1>3 DEF Locals

\* A step that makes some of the writers idle.
LEMMA SomeIdle ==
  ASSUME WorkTyped, Locals, NEW ws,
         work' = [w \in Writers |-> IF w \in ws THEN IdleWork ELSE work[w]]
  PROVE  WorkTyped' /\ Locals'
<1>1. WorkTyped'
  BY IdleWorkTyped DEF WorkTyped
<1>2. ASSUME NEW v \in Writers
      PROVE  Idle(v)' /\ Made(v)' /\ Fresh(v)' /\ Judging(v)' /\ Recording(v)'
  BY IdleWorkTyped
  DEF WorkTyped, Locals, Idle, Made, Fresh, Judging, Recording, JudgingPoint
<1> QED BY <1>1, <1>2 DEF Locals

LEMMA IdsTyped ==
  ASSUME NEW d \in Database, NEW k
  PROVE  IdsIn(d, k) \in SUBSET Nat
  BY DEF Database, IdsIn, Run

LEMMA NextIdTyped ==
  ASSUME NEW d \in Database, NEW k \in Kinds
  PROVE  NextId(d, k) \in Nat /\ NextId(d, k) = d.seq[k] + 1 /\ d.seq[k] \in Nat
  BY DEF Database, NextId

\* What comes after the commit, for each kind of writer.
LEMMA AfterwardsKnows ==
  ASSUME WorkTyped, Locals, NEW w \in Writers, work[w].pc \in {"filled", "trigger"},
         work' = [work EXCEPT ![w] = Afterwards(w)]
  PROVE  WorkTyped' /\ Locals'
<1>1. CASE JudgingPoint(w) = "after"
  <2>1. Afterwards(w) = [work[w] EXCEPT !.pc = "compare"]
    BY <1>1 DEF Afterwards
  <2>2. [work[w] EXCEPT !.pc = "compare"] \in Work
    BY DEF WorkTyped, Work, Phases
  <2> QED BY <1>1, <2>1, <2>2, OneWriter
          DEF WorkTyped, Work, Locals, Idle, Made, Fresh, Judging, Recording, JudgingPoint
<1>2. CASE JudgingPoint(w) # "after" /\ work[w].sid # None
  <2>1. Afterwards(w) = [work[w] EXCEPT !.pc = "record"]
    BY <1>2 DEF Afterwards
  <2>2. [work[w] EXCEPT !.pc = "record"] \in Work /\ work[w].sid \in Schedules
    BY <1>2 DEF WorkTyped, Work, Phases
  <2> QED BY ZenonT(60), <1>2, <2>1, <2>2, OneWriter
          DEF WorkTyped, Work, Locals, Idle, Made, Fresh, Judging, Recording
<1>3. CASE JudgingPoint(w) # "after" /\ work[w].sid = None /\ w \in Commands
  <2>1. Afterwards(w) = [work[w] EXCEPT !.pc = "exit"]
    BY <1>3 DEF Afterwards
  <2>2. [work[w] EXCEPT !.pc = "exit"] \in Work
    BY DEF WorkTyped, Work, Phases
  <2> QED BY ZenonT(60), <2>1, <2>2, OneWriter
          DEF WorkTyped, Work, Locals, Idle, Made, Fresh, Judging, Recording
<1>4. CASE JudgingPoint(w) # "after" /\ work[w].sid = None /\ w \notin Commands
  <2>1. Afterwards(w) = IdleWork
    BY <1>4 DEF Afterwards
  <2> QED BY <2>1, IdleWorkTyped, OneWriter
          DEF WorkTyped, Work, Locals, Idle, Made, Fresh, Judging, Recording
<1> QED BY <1>1, <1>2, <1>3, <1>4

LEMMA WorkStart == Init => WorkTyped /\ Locals
  BY IdleWorkTyped DEF Init, WorkTyped, Locals, Idle, Made, Fresh, Judging, Recording

LEMMA MeasureKnows ==
  ASSUME WorkTyped, Locals, NEW w \in Writers, NEW k, NEW found \in Findings \cup {{}},
         NEW s \in Schedules \cup {None}, Measure(w, k, found, s)
  PROVE  WorkTyped' /\ Locals'
<1> DEFINE x == [work[w] EXCEPT !.pc = "measured", !.kind = k, !.found = found, !.sid = s]
<1>1. k \in Kinds /\ found \in FoundBy(k) /\ work[w] = IdleWork
  BY DEF Measure, Locals, Idle
<1>2. x \in Work
  BY ZenonT(60), <1>1 DEF WorkTyped, Work, Phases
<1>3. x.pc = "measured" /\ x.kind = k /\ x.found = found /\ x.base = {}
  BY <1>1 DEF IdleWork
<1>4. work' = [work EXCEPT ![w] = x]
  BY DEF Measure
<1> HIDE DEF x
<1>5. work'[w] = x
  BY <1>4 DEF WorkTyped
<1> QED BY <1>1, <1>2, <1>3, <1>4, <1>5, OneWriter DEF Idle, Made, Fresh, Judging, Recording

LEMMA StoreStepKnows ==
  ASSUME WorkTyped, Locals, StoreTyped, NEW w \in Writers, StoreStep(w)
  PROVE  WorkTyped' /\ Locals'
<1>1. CASE ReadBaseline(w)
  <2> DEFINE x == [work[w] EXCEPT !.pc = "judged", !.base = IdsIn(db, work[w].kind)]
  <2>1. x \in Work /\ work' = [work EXCEPT ![w] = x] /\ work[w].pc = "measured"
    BY ZenonT(60), <1>1, IdsTyped DEF ReadBaseline, WorkTyped, Work, Phases, StoreTyped
  <2> QED BY ZenonT(60), <2>1, OneWriter DEF WorkTyped, Work, Phases, Locals, Idle, Made, Fresh, Judging, Recording
<1>2. CASE InsertRun(w)
  <2> DEFINE id == NextId(draft, work[w].kind)
             x == [work[w] EXCEPT !.pc = "inserted", !.id = id]
  <2>1. work[w].pc \in {"measured", "judged"} /\ work[w].kind \in Kinds
    BY <1>2 DEF InsertRun, Locals, Made
  <2>2. id \in Nat
    BY <2>1, NextIdTyped DEF StoreTyped
  <2>3. work' = [work EXCEPT ![w] = x]
    BY <1>2 DEF InsertRun
  <2> HIDE DEF id
  <2>4. x \in Work
    BY <2>2 DEF WorkTyped, Work, Phases
  <2> QED BY ZenonT(60), <2>1, <2>3, <2>4, OneWriter DEF WorkTyped, Work, Phases, Locals, Idle, Made, Fresh, Judging, Recording
<1>3. CASE InsertParts(w)
  <2>1. [work[w] EXCEPT !.pc = "filled"] \in Work /\ work[w].pc = "inserted"
        /\ work' = [work EXCEPT ![w] = [work[w] EXCEPT !.pc = "filled"]]
    BY <1>3 DEF InsertParts, WorkTyped, Work, Phases
  <2> QED BY <2>1, OneWriter DEF WorkTyped, Work, Phases, Locals, Idle, Made, Fresh, Judging, Recording
<1>4. CASE Commit(w)
  <2>1. CASE Triggers(w)
    <3>1. [work[w] EXCEPT !.pc = "trigger"] \in Work /\ work[w].pc = "filled"
          /\ work' = [work EXCEPT ![w] = [work[w] EXCEPT !.pc = "trigger"]]
      BY <1>4, <2>1 DEF Commit, WorkTyped, Work, Phases
    <3> QED BY <3>1, OneWriter DEF WorkTyped, Work, Phases, Locals, Idle, Made, Fresh, Judging, Recording
  <2>2. CASE ~ Triggers(w)
    BY <1>4, <2>2, AfterwardsKnows DEF Commit
  <2> QED BY <2>1, <2>2
<1>5. ASSUME NEW a \in Autos, TriggerAuto(w, a)
      PROVE  WorkTyped' /\ Locals'
  <2> DEFINE x == [IdleWork EXCEPT !.pc = "probing", !.of = w]
  <2>1. a \in Writers /\ a # w /\ work[w].pc = "trigger" /\ "mtr" \in Kinds
    BY <1>5 DEF TriggerAuto, Writers
  <2>2. x \in Work /\ x.pc = "probing" /\ x.base = {}
    BY IdleWorkTyped DEF Work, Phases
  <2>3. work' = [work EXCEPT ![w] = Afterwards(w), ![a] = x]
    BY <1>5 DEF TriggerAuto
  <2> HIDE DEF x
  <2>4. Afterwards(w) \in Work
    BY IdleWorkTyped DEF Afterwards, WorkTyped, Work, Phases
  <2>5. WorkTyped'
    BY <2>1, <2>2, <2>3, <2>4 DEF WorkTyped
  <2>6. work'[w] = Afterwards(w) /\ work'[a] = x
        /\ \A v \in Writers : v # w /\ v # a => work'[v] = work[v]
    BY <2>1, <2>3 DEF WorkTyped
  <2>7. Idle(a)' /\ Made(a)' /\ Fresh(a)' /\ Judging(a)' /\ Recording(a)'
    BY <2>1, <2>2, <2>6 DEF Idle, Made, Fresh, Judging, Recording
  <2>8. Idle(w)' /\ Made(w)' /\ Fresh(w)'
    BY <2>1, <2>6, IdleWorkTyped DEF Afterwards, WorkTyped, Work, Phases, Locals, Idle, Made, Fresh, Judging, Recording
  <2>9. Judging(w)' /\ Recording(w)'
    BY <2>1, <2>6, IdleWorkTyped DEF Afterwards, JudgingPoint, WorkTyped, Work, Judging, Recording
  <2>10. ASSUME NEW v \in Writers, v # w, v # a
         PROVE  Idle(v)' /\ Made(v)' /\ Fresh(v)' /\ Judging(v)' /\ Recording(v)'
    BY <2>6, <2>10 DEF Locals, Idle, Made, Fresh, Judging, Recording, JudgingPoint
  <2> QED BY <2>5, <2>7, <2>8, <2>9, <2>10 DEF Locals
<1>6. CASE NoAuto(w)
  BY <1>6, AfterwardsKnows DEF NoAuto
<1>7. CASE Compare(w)
  <2> DEFINE x == [work[w] EXCEPT !.pc = "record", !.base = IdsIn(db, work[w].kind)]
  <2>1. x \in Work /\ work' = [work EXCEPT ![w] = x] /\ work[w].pc = "compare"
    BY ZenonT(60), <1>7, IdsTyped DEF Compare, WorkTyped, Work, Phases, StoreTyped
  <2>2. work[w].sid \in Schedules
    BY <2>1 DEF Locals, Judging, JudgingPoint, WorkTyped, Work
  <2> QED BY ZenonT(60), <2>1, <2>2, OneWriter DEF WorkTyped, Work, Phases, Locals, Idle, Made, Fresh, Judging, Recording
<1>8. CASE RecordRun(w)
  BY <1>8, IdleWorkTyped, OneWriter DEF RecordRun, WorkTyped, Work, Phases, Locals, Idle, Made, Fresh, Judging, Recording
<1> QED BY <1>1, <1>2, <1>3, <1>4, <1>5, <1>6, <1>7, <1>8 DEF StoreStep

LEMMA WorkStep ==
  ASSUME WorkTyped, Locals, StoreTyped, [Next]_vars
  PROVE  WorkTyped' /\ Locals'
<1>1. CASE UNCHANGED work
  BY <1>1 DEF Locals, JudgingPoint, WorkTyped, Work, Phases, Locals, Idle, Made, Fresh, Judging, Recording
<1>2. ASSUME NEW w \in Writers, StoreStep(w)
      PROVE  WorkTyped' /\ Locals'
  BY <1>2, StoreStepKnows
<1>3. ASSUME NEW w \in Writers, NEW k, NEW found \in Findings \cup {{}},
             NEW s \in Schedules \cup {None}, Measure(w, k, found, s)
      PROVE  WorkTyped' /\ Locals'
  BY <1>3, MeasureKnows
<1>4. ASSUME NEW a \in Autos, NEW found \in Findings, AutoMeasured(a, found)
      PROVE  WorkTyped' /\ Locals'
  <2> DEFINE x == [work[a] EXCEPT !.pc = "measured", !.kind = "mtr", !.found = found]
  <2>1. a \in Writers /\ work[a].pc = "probing" /\ work' = [work EXCEPT ![a] = x]
    BY <1>4 DEF AutoMeasured, Writers
  <2>2. "mtr" \in Kinds /\ found \in FoundBy("mtr")
    BY <1>4, <2>1 DEF AutoMeasured, Locals, Fresh
  <2>3. x \in Work
    BY ZenonT(60), <2>1, <2>2 DEF WorkTyped, Work, Phases
  <2> QED BY ZenonT(60), <2>1, <2>2, <2>3, OneWriter DEF WorkTyped, Work, Phases, Locals, Idle, Made, Fresh, Judging, Recording
<1>5. ASSUME NEW a \in Autos, AutoSkipped(a)
      PROVE  WorkTyped' /\ Locals'
  <2>1. a \in Writers
    BY DEF Writers
  <2> QED BY <1>5, <2>1, IdleWorkTyped, OneWriter DEF AutoSkipped, WorkTyped, Work, Phases, Locals, Idle, Made, Fresh, Judging, Recording
<1>6. ASSUME NEW w \in Writers, SessionFails(w)
      PROVE  WorkTyped' /\ Locals'
  <2>1. CASE w \in Commands
    <3>1. /\ [work[w] EXCEPT !.pc = "exit"] \in Work /\ work[w].pc \notin {"idle", "probing"}
          /\ work' = [work EXCEPT ![w] = [work[w] EXCEPT !.pc = "exit"]]
      BY <1>6, <2>1 DEF SessionFails, WorkTyped, Work, Phases
    <3> QED BY <3>1, OneWriter DEF WorkTyped, Work, Phases, Locals, Idle, Made, Fresh, Judging, Recording
  <2>2. CASE w \notin Commands
    BY ZenonT(60), <1>6, <2>2, IdleWorkTyped, OneWriter DEF SessionFails, WorkTyped, Work, Phases, Locals, Idle, Made, Fresh, Judging, Recording
  <2> QED BY <2>1, <2>2
<1>7. ASSUME NEW w \in Writers, ProcessEnds(w)
      PROVE  WorkTyped' /\ Locals'
  BY <1>7, SomeIdle DEF ProcessEnds, Killed
<1>8. CASE ServerCrash
  BY <1>8, SomeIdle DEF ServerCrash
<1>9. CASE Admin \/ Sweep \/ SweepFails \/ Reading
  BY <1>1, <1>9
  DEF Admin, EditKind, DeleteSchedule, DeleteRun, GrowOld, Sweep, SweepTable, SweepCommit,
      SweepFails, Reading, OpenRun, OpenComparison, OpenSeries, OpenPage, ReadParts, ClosePage
<1>10. CASE Measuring
  <2>1. \A w \in Jobs \cup Daemons \cup Commands : w \in Writers
    BY DEF Writers
  <2> QED
    BY <1>3, <1>4, <1>5, <1>10, <2>1
    DEF Measuring, StartJob, StartTest, StartDaemon, StartCommand
<1> QED
  BY <1>1, <1>2, <1>6, <1>7, <1>8, <1>9, <1>10 DEF Next, Ends, vars

-----------------------------------------------------------------------------
(* Statements. *)

LEMMA RunTyped ==
  ASSUME WorkTyped, Locals, NEW w \in Writers, work[w].pc \notin {"idle", "probing"}
  PROVE  RunOf(w) \in Run
  BY DEF RunOf, Run, WorkTyped, Work, Locals, Made

LEMMA PartsTyped ==
  ASSUME NEW run \in Run
  PROVE  PartsOf(run) \in SUBSET Part
  BY DEF PartsOf, Run, Part, Indexes

LEMMA SameDatabase ==
  ASSUME NEW d \in Database, NEW e \in Database,
         d.runs = e.runs, d.parts = e.parts, d.seq = e.seq, d.sched = e.sched
  PROVE  d = e
  BY DEF Database

LEMMA WithRunIs ==
  ASSUME NEW d \in Database, NEW run \in Run
  PROVE  /\ WithRun(d, run) \in Database
         /\ WithRun(d, run).runs = d.runs \cup {run}
         /\ WithRun(d, run).parts = d.parts
         /\ WithRun(d, run).seq = [d.seq EXCEPT ![run.kind] = run.id]
         /\ WithRun(d, run).sched = d.sched
<1>1. /\ d.runs \cup {run} \in SUBSET Run
      /\ [d.seq EXCEPT ![run.kind] = run.id] \in [Kinds -> Nat]
  BY DEF Database, Run
<1> QED BY <1>1 DEF WithRun, Database

LEMMA WithPartsIs ==
  ASSUME NEW d \in Database, NEW run \in Run
  PROVE  /\ WithParts(d, run) \in Database
         /\ WithParts(d, run).runs = d.runs
         /\ WithParts(d, run).parts = d.parts \cup PartsOf(run)
         /\ WithParts(d, run).seq = d.seq
         /\ WithParts(d, run).sched = d.sched
<1>1. d.parts \cup PartsOf(run) \in SUBSET Part
  BY PartsTyped DEF Database
<1> QED BY <1>1 DEF WithParts, Database

LEMMA WithoutIs ==
  ASSUME NEW d \in Database, NEW gone
  PROVE  /\ Without(d, gone) \in Database
         /\ Without(d, gone).runs = d.runs \ gone
         /\ Without(d, gone).parts
              = {p \in d.parts : \A run \in gone : p.kind # run.kind \/ p.id # run.id}
         /\ Without(d, gone).seq = d.seq
         /\ Without(d, gone).sched = d.sched
<1> DEFINE left == {p \in d.parts : \A run \in gone : p.kind # run.kind \/ p.id # run.id}
<1>1. d.runs \ gone \in SUBSET Run /\ left \in SUBSET Part
  BY DEF Database
<1>2. Without(d, gone) = [d EXCEPT !.runs = d.runs \ gone, !.parts = left]
  BY DEF Without
<1> HIDE DEF left
<1>3. /\ Without(d, gone) \in Database
      /\ Without(d, gone).runs = d.runs \ gone
      /\ Without(d, gone).parts = left
      /\ Without(d, gone).seq = d.seq
      /\ Without(d, gone).sched = d.sched
  BY <1>1, <1>2 DEF Database
<1> QED BY <1>3 DEF left

-----------------------------------------------------------------------------
(* Who holds the write lock. *)

InTransaction(w) == work[w].pc \in {"inserted", "filled"}

Held ==
  /\ lock = None => draft = db
  /\ \A w \in Writers : InTransaction(w) <=> lock = w
  /\ sweep # 0 <=> lock = Sweeper

LEMMA NoneIsNobody ==
  None \notin Writers /\ Sweeper \notin Writers /\ None # Sweeper /\ None \notin Kinds
  /\ None \notin Schedules
  BY RunStoreAssumption

LEMMA AfterwardsIsOut ==
  ASSUME WorkTyped, NEW w \in Writers
  PROVE  Afterwards(w).pc \notin {"inserted", "filled"}
  BY IdleWorkTyped DEF Afterwards, WorkTyped, Work

LEMMA HeldStart == Init => Held
  BY NoneIsNobody, IdleWorkTyped DEF Init, Held, InTransaction

\* What a step of w does to the lock and to its program counter.
Others(w) == \A v \in Writers : v # w => work'[v] = work[v]

LEMMA HeldByOthers ==
  ASSUME Held, NEW w \in Writers, Others(w),
         sweep' = sweep, lock' # Sweeper <=> lock # Sweeper,
         work'[w].pc \in {"inserted", "filled"} <=> lock' = w,
         \A v \in Writers : v # w => (lock' = v <=> lock = v),
         lock' = None => draft' = db'
  PROVE  Held'
  BY DEF Held, InTransaction, Others

LEMMA HeldStoreStep ==
  ASSUME WorkTyped, Locals, StoreTyped, Held, NEW w \in Writers, StoreStep(w)
  PROVE  Held'
<1>1. CASE ReadBaseline(w) \/ Compare(w)
  <2>1. Others(w) /\ work'[w].pc \in {"judged", "record"}
    BY ZenonT(60), <1>1 DEF Others, ReadBaseline, Compare, WorkTyped, Work
  <2>2. ~ InTransaction(w) /\ UNCHANGED <<db, draft, lock, sweep>>
    BY <1>1 DEF ReadBaseline, Compare, InTransaction
  <2> QED BY <2>1, <2>2, HeldByOthers DEF Held
<1>2. CASE InsertRun(w)
  <2>1. Others(w) /\ work'[w].pc = "inserted"
    BY <1>2 DEF Others, InsertRun, WorkTyped, Work
  <2>2. lock = None /\ lock' = w /\ sweep' = sweep
    BY <1>2 DEF InsertRun
  <2> QED BY <2>1, <2>2, HeldByOthers, NoneIsNobody
<1>3. CASE InsertParts(w)
  <2>1. Others(w) /\ work'[w].pc = "filled"
    BY <1>3 DEF Others, InsertParts, WorkTyped, Work
  <2>2. lock = w /\ lock' = w /\ sweep' = sweep
    BY <1>3 DEF InsertParts, Held, InTransaction
  <2> QED BY <2>1, <2>2, HeldByOthers, NoneIsNobody
<1>4. CASE Commit(w)
  <2>1. Others(w) /\ work'[w].pc \notin {"inserted", "filled"}
    BY <1>4, AfterwardsIsOut DEF Others, Commit, WorkTyped, Work
  <2>2. lock = w /\ lock' = None /\ sweep' = sweep /\ draft' = db'
    BY <1>4 DEF Commit, Held, InTransaction
  <2> QED BY <2>1, <2>2, HeldByOthers, NoneIsNobody
<1>5. ASSUME NEW a \in Autos, TriggerAuto(w, a)
      PROVE  Held'
  <2>1. a \in Writers /\ work[w].pc = "trigger" /\ work[a].pc = "idle"
        /\ UNCHANGED <<db, draft, lock, sweep>>
    BY <1>5 DEF TriggerAuto, Writers
  <2>2. work'[w].pc \notin {"inserted", "filled"} /\ work'[a].pc \notin {"inserted", "filled"}
    BY <1>5, <2>1, AfterwardsIsOut, IdleWorkTyped DEF TriggerAuto, WorkTyped, Work
  <2>3. \A v \in Writers : v # w /\ v # a => work'[v] = work[v]
    BY <1>5 DEF TriggerAuto, WorkTyped
  <2> QED BY <2>1, <2>2, <2>3 DEF Held, InTransaction
<1>6. CASE NoAuto(w)
  <2>1. Others(w) /\ work'[w].pc \notin {"inserted", "filled"} /\ ~ InTransaction(w)
    BY <1>6, AfterwardsIsOut DEF Others, NoAuto, InTransaction, WorkTyped
  <2>2. UNCHANGED <<db, draft, lock, sweep>>
    BY <1>6 DEF NoAuto
  <2> QED BY <2>1, <2>2, HeldByOthers DEF Held
<1>7. CASE RecordRun(w)
  <2>1. Others(w) /\ work'[w].pc = "idle" /\ ~ InTransaction(w)
    BY <1>7, IdleWorkTyped DEF Others, RecordRun, InTransaction, WorkTyped
  <2>2. lock' = lock /\ sweep' = sweep /\ draft' = db'
    BY <1>7 DEF RecordRun, Write
  <2> QED BY <2>1, <2>2, HeldByOthers DEF Held
<1> QED BY <1>1, <1>2, <1>3, <1>4, <1>5, <1>6, <1>7 DEF StoreStep

\* Some writers end; the lock is released if it was theirs.
LEMMA HeldAfterDeaths ==
  ASSUME Held, NEW ws \in SUBSET Writers, NEW more \in SUBSET {Sweeper},
         work' = [w \in Writers |-> IF w \in ws THEN IdleWork ELSE work[w]],
         IF lock \in ws \cup more THEN lock' = None /\ draft' = db ELSE UNCHANGED <<lock, draft>>,
         db' = db, sweep' = IF Sweeper \in more THEN 0 ELSE sweep
  PROVE  Held'
<1>1. \A v \in Writers : work'[v] = IF v \in ws THEN IdleWork ELSE work[v]
  OBVIOUS
<1>2. CASE lock \in ws \cup more
  BY <1>1, <1>2, IdleWorkTyped, NoneIsNobody DEF Held, InTransaction
<1>3. CASE lock \notin ws \cup more
  BY <1>1, <1>3, IdleWorkTyped, NoneIsNobody DEF Held, InTransaction
<1> QED BY <1>2, <1>3

LEMMA HeldStep ==
  ASSUME WorkTyped, Locals, StoreTyped, Held, [Next]_vars
  PROVE  Held'
<1>1. CASE UNCHANGED <<work, db, draft, lock, sweep>>
  BY <1>1 DEF Held, InTransaction
<1>2. ASSUME NEW w \in Writers, StoreStep(w)
      PROVE  Held'
  BY <1>2, HeldStoreStep
<1>3. ASSUME NEW w \in Writers, NEW k, NEW found, NEW s, Measure(w, k, found, s)
      PROVE  Held'
  <2>1. /\ Others(w) /\ work'[w].pc = "measured"
        /\ ~ InTransaction(w) /\ UNCHANGED <<db, draft, lock, sweep>>
    BY <1>3 DEF Others, Measure, InTransaction, WorkTyped, Work
  <2> QED BY <2>1, HeldByOthers DEF Held
<1>4. ASSUME NEW a \in Autos, AutoSkipped(a) \/ \E found \in Findings : AutoMeasured(a, found)
      PROVE  Held'
  <2>1. Others(a) /\ work'[a].pc \in {"measured", "idle"} /\ a \in Writers
    <3>1. a \in Writers
      BY DEF Writers
    <3>2. CASE AutoSkipped(a)
      BY <3>1, <3>2, IdleWorkTyped DEF Others, AutoSkipped, WorkTyped
    <3>3. ASSUME NEW found \in Findings, AutoMeasured(a, found)
          PROVE  Others(a) /\ work'[a].pc = "measured"
      BY <3>1, <3>3 DEF Others, AutoMeasured, WorkTyped, Work
    <3> QED BY <1>4, <3>1, <3>2, <3>3
  <2>2. ~ InTransaction(a) /\ UNCHANGED <<db, draft, lock, sweep>>
    BY <1>4 DEF AutoMeasured, AutoSkipped, InTransaction
  <2> QED BY <2>1, <2>2, HeldByOthers DEF Held
<1>5. ASSUME NEW w \in Writers, SessionFails(w)
      PROVE  Held'
  <2>1. Others(w) /\ work'[w].pc \in {"exit", "idle"}
    BY <1>5, IdleWorkTyped DEF Others, SessionFails, WorkTyped, Work
  <2>2. CASE lock = w
    <3>1. lock' = None /\ draft' = db' /\ sweep' = sweep
      BY <1>5, <2>2 DEF SessionFails, Keep
    <3> QED BY <2>1, <2>2, <3>1, HeldByOthers, NoneIsNobody
  <2>3. CASE lock # w
    <3>1. UNCHANGED <<db, draft, lock, sweep>>
      BY <1>5, <2>3 DEF SessionFails, Keep
    <3> QED BY <2>1, <2>3, <3>1, HeldByOthers DEF Held
  <2> QED BY <2>2, <2>3
<1>6. ASSUME NEW w \in Writers, ProcessEnds(w)
      PROVE  Held'
  <2>1. {w} \cup AutosOf({w}) \in SUBSET Writers
    BY DEF AutosOf, Writers
  <2> DEFINE ws == {w} \cup AutosOf({w})
  <2>2. /\ work' = [v \in Writers |-> IF v \in ws THEN IdleWork ELSE work[v]]
        /\ IF lock \in ws \cup {} THEN lock' = None /\ draft' = db ELSE UNCHANGED <<lock, draft>>
        /\ db' = db /\ sweep' = IF Sweeper \in {} THEN 0 ELSE sweep
    BY <1>6 DEF ProcessEnds, Killed
  <2> HIDE DEF ws
  <2>3. ws \in SUBSET Writers /\ {} \in SUBSET {Sweeper}
    BY <2>1 DEF ws
  <2> QED BY <2>2, <2>3, HeldAfterDeaths
<1>7. CASE ServerCrash
  <2>1. Jobs \cup AutosOf(Jobs) \in SUBSET Writers
    BY DEF AutosOf, Writers
  <2> DEFINE ws == Jobs \cup AutosOf(Jobs)
  <2>2. /\ work' = [v \in Writers |-> IF v \in ws THEN IdleWork ELSE work[v]]
        /\ IF lock \in ws \cup {Sweeper} THEN lock' = None /\ draft' = db ELSE UNCHANGED <<lock, draft>>
        /\ db' = db /\ sweep' = IF Sweeper \in {Sweeper} THEN 0 ELSE sweep
    BY <1>7 DEF ServerCrash
  <2> HIDE DEF ws
  <2>3. ws \in SUBSET Writers /\ {Sweeper} \in SUBSET {Sweeper}
    BY <2>1 DEF ws
  <2> QED BY <2>2, <2>3, HeldAfterDeaths
<1>8. CASE Admin
  <2>1. UNCHANGED <<work, lock, sweep>> /\ (draft' = db' \/ UNCHANGED <<db, draft>>)
    BY <1>8 DEF Admin, EditKind, DeleteSchedule, DeleteRun, GrowOld, Write
  <2> QED BY <2>1 DEF Held, InTransaction
<1>9. CASE Sweep \/ SweepFails
  <2>1. sweep \in 0..4 /\ work' = work
    BY <1>9 DEF StoreTyped, Sweep, SweepTable, SweepCommit, SweepFails
  <2>2. \/ lock \in {Sweeper, None} /\ lock' = Sweeper /\ sweep' # 0
        \/ lock = Sweeper /\ lock' = None /\ sweep' = 0 /\ draft' = db'
    BY <1>9, <2>1 DEF Sweep, SweepTable, SweepCommit, SweepFails, Held
  <2> QED BY <2>1, <2>2, NoneIsNobody DEF Held, InTransaction
<1>10. CASE Reading
  BY <1>1, <1>10
  DEF Reading, OpenRun, OpenComparison, OpenSeries, OpenPage, ReadParts, ClosePage
<1>11. CASE Measuring
  <2>1. \A w \in Jobs \cup Daemons \cup Commands : w \in Writers
    BY DEF Writers
  <2> QED
    BY <1>3, <1>4, <1>11, <2>1 DEF Measuring, StartJob, StartTest, StartDaemon, StartCommand
<1> QED
  BY <1>1, <1>2, <1>5, <1>6, <1>7, <1>8, <1>9, <1>10, <1>11 DEF Next, Ends, vars

-----------------------------------------------------------------------------
(* Rows of schedules. *)

RowEdits(s) ==
  {[db.sched[s] EXCEPT !.kind = k] : k \in Kinds} \cup {[kind |-> None, last |-> NoRef]}

RowRecords(s) ==
  {[db.sched[s] EXCEPT !.last = OwnRef(w)] :
     w \in {v \in Writers : work[v].pc = "record" /\ work[v].sid = s}}

LEMMA OwnRefTyped ==
  ASSUME WorkTyped, Locals, NEW w \in Writers, work[w].pc = "record"
  PROVE  OwnRef(w) \in Ref /\ OwnRef(w) = [kind |-> work[w].kind, id |-> work[w].id]
  BY DEF OwnRef, RefOf, RunOf, Ref, WorkTyped, Work, Locals, Made

LEMMA RowsTyped ==
  ASSUME WorkTyped, Locals, StoreTyped, NEW s \in Schedules, db.sched[s].kind # None,
         NEW row \in RowEdits(s) \cup RowRecords(s)
  PROVE  row \in ScheduleRow
<1>1. db.sched[s] \in ScheduleRow
  BY DEF StoreTyped, Database
<1>2. ASSUME NEW k \in Kinds PROVE [db.sched[s] EXCEPT !.kind = k] \in ScheduleRow
  BY <1>1 DEF ScheduleRow
<1>3. ASSUME NEW w \in Writers, work[w].pc = "record"
      PROVE  [db.sched[s] EXCEPT !.last = OwnRef(w)] \in ScheduleRow
  BY <1>1, <1>3, OwnRefTyped DEF ScheduleRow
<1>4. [kind |-> None, last |-> NoRef] \in ScheduleRow
  BY DEF ScheduleRow
<1> QED BY <1>2, <1>3, <1>4 DEF RowEdits, RowRecords

-----------------------------------------------------------------------------
(* Steps, by what they do to the database. *)

\* Nothing; and who is in a transaction stays where it is.
LeavesStore ==
  /\ UNCHANGED <<db, draft, lock, sweep>>
  /\ \A w \in Writers : InTransaction(w) => work'[w] = work[w]

WithSchedule(s, row) == [db EXCEPT !.sched = [db.sched EXCEPT ![s] = row]]

\* The end of a job, an edit, a deletion.
WritesSchedule ==
  /\ lock = None /\ draft' = db' /\ UNCHANGED <<lock, sweep>>
  /\ \E s \in Schedules : \E row \in RowEdits(s) \cup RowRecords(s) :
       db.sched[s].kind # None /\ db' = WithSchedule(s, row)

RollsBack == lock # None /\ lock' = None /\ db' = db /\ draft' = db /\ sweep' \in {0, sweep}

StoreChange ==
  \/ LeavesStore \/ WritesSchedule \/ RollsBack
  \/ \E w \in Writers : InsertRun(w) \/ InsertParts(w) \/ Commit(w)
  \/ \E run \in db.runs : DeleteRun(run)
  \/ SweepTable \/ SweepCommit

LEMMA RecordChange ==
  ASSUME WorkTyped, Locals, StoreTyped, Held, NEW w \in Writers, RecordRun(w)
  PROVE  LeavesStore \/ WritesSchedule
<1> DEFINE s == work[w].sid
<1>1. s \in Schedules /\ work[w].pc = "record"
  BY DEF RecordRun, Locals, Recording
<1>2. \A v \in Writers : v # w => work'[v] = work[v]
  BY DEF RecordRun, WorkTyped
<1>3. lock = None /\ draft' = db' /\ lock' = lock /\ sweep' = sweep
  BY DEF RecordRun, Write
<1>4. CASE db.sched[s].kind = None
  <2>1. db' = db
    BY <1>4 DEF RecordRun, Write, UpdateLast
  <2> QED BY <1>1, <1>2, <1>3, <2>1 DEF LeavesStore, Held, InTransaction
<1>5. CASE db.sched[s].kind # None
  <2>1. db' = [db EXCEPT !.sched[s].last = OwnRef(w)]
    BY <1>5 DEF RecordRun, Write, UpdateLast
  <2>2. db' = WithSchedule(s, [db.sched[s] EXCEPT !.last = OwnRef(w)])
    BY <2>1 DEF WithSchedule
  <2>3. [db.sched[s] EXCEPT !.last = OwnRef(w)] \in RowRecords(s)
    BY <1>1 DEF RowRecords
  <2> QED BY <1>1, <1>3, <1>5, <2>2, <2>3 DEF WritesSchedule
<1> QED BY <1>4, <1>5

LEMMA StoreChanges ==
  ASSUME WorkTyped, Locals, StoreTyped, Held, [Next]_vars
  PROVE  StoreChange
<1>1. CASE UNCHANGED <<work, db, draft, lock, sweep>>
  BY <1>1 DEF StoreChange, LeavesStore
<1>2. ASSUME NEW w \in Writers, Others(w), ~ InTransaction(w), UNCHANGED <<db, draft, lock, sweep>>
      PROVE  StoreChange
  BY <1>2 DEF StoreChange, LeavesStore, Others
<1>3. ASSUME NEW w \in Writers, StoreStep(w)
      PROVE  StoreChange
  <2>1. CASE ReadBaseline(w) \/ Compare(w) \/ NoAuto(w)
    BY <1>2, <2>1 DEF ReadBaseline, Compare, NoAuto, Others, InTransaction, WorkTyped
  <2>2. CASE InsertRun(w) \/ InsertParts(w) \/ Commit(w)
    BY <2>2 DEF StoreChange
  <2>3. ASSUME NEW a \in Autos, TriggerAuto(w, a)
        PROVE  StoreChange
    <3>1. \A v \in Writers : v # w /\ v # a => work'[v] = work[v]
      BY <2>3 DEF TriggerAuto, WorkTyped
    <3> QED BY <2>3, <3>1 DEF TriggerAuto, StoreChange, LeavesStore, InTransaction
  <2>4. CASE RecordRun(w)
    BY <2>4, RecordChange DEF StoreChange
  <2> QED BY <1>3, <2>1, <2>2, <2>3, <2>4 DEF StoreStep
<1>4. ASSUME NEW w \in Writers, NEW k, NEW found, NEW s, Measure(w, k, found, s)
      PROVE  StoreChange
  BY <1>2, <1>4 DEF Measure, Others, InTransaction, WorkTyped
<1>5. ASSUME NEW a \in Autos, AutoSkipped(a) \/ \E found \in Findings : AutoMeasured(a, found)
      PROVE  StoreChange
  <2>1. a \in Writers
    BY DEF Writers
  <2> QED BY <1>2, <1>5, <2>1 DEF AutoMeasured, AutoSkipped, Others, InTransaction, WorkTyped
<1>6. ASSUME NEW w \in Writers, SessionFails(w)
      PROVE  StoreChange
  <2>1. CASE lock = w
    <3>1. RollsBack
      BY <1>6, <2>1, NoneIsNobody DEF SessionFails, Keep, AtFailure, RollsBack
    <3> QED BY <3>1 DEF StoreChange
  <2>2. CASE lock # w
    BY <1>2, <1>6, <2>2 DEF SessionFails, Keep, Others, WorkTyped, Held
  <2> QED BY <2>1, <2>2
<1>7. ASSUME NEW w \in Writers, ProcessEnds(w)
      PROVE  StoreChange
  <2>1. CASE lock \in {w} \cup AutosOf({w})
    <3>1. lock # None
      BY <2>1, NoneIsNobody DEF AutosOf, Writers
    <3>2. RollsBack
      BY <1>7, <2>1, <3>1 DEF ProcessEnds, Killed, RollsBack
    <3> QED BY <3>2 DEF StoreChange
  <2>2. CASE lock \notin {w} \cup AutosOf({w})
    <3>1. LeavesStore
      BY <1>7, <2>2 DEF ProcessEnds, Killed, LeavesStore, Held
    <3> QED BY <3>1 DEF StoreChange
  <2> QED BY <2>1, <2>2
<1>8. CASE ServerCrash
  <2>1. CASE lock \in Jobs \cup AutosOf(Jobs) \cup {Sweeper}
    <3>1. lock # None
      BY <2>1, NoneIsNobody DEF AutosOf, Writers
    <3>2. RollsBack
      BY <1>8, <2>1, <3>1 DEF ServerCrash, RollsBack
    <3> QED BY <3>2 DEF StoreChange
  <2>2. CASE lock \notin Jobs \cup AutosOf(Jobs) \cup {Sweeper}
    <3>1. LeavesStore
      BY <1>8, <2>2 DEF ServerCrash, LeavesStore, Held
    <3> QED BY <3>1 DEF StoreChange
  <2> QED BY <2>1, <2>2
<1>9. CASE Admin
  <2>1. ASSUME NEW s \in Schedules, NEW k \in Kinds \ {"tx"}, EditKind(s, k)
        PROVE  StoreChange
    <3>1. db' = WithSchedule(s, [db.sched[s] EXCEPT !.kind = k])
      BY <2>1 DEF EditKind, Write, WithSchedule
    <3>2. [db.sched[s] EXCEPT !.kind = k] \in RowEdits(s)
      BY DEF RowEdits
    <3>3. /\ lock = None /\ draft' = db' /\ lock' = lock /\ sweep' = sweep
          /\ db.sched[s].kind # None
      BY <2>1 DEF EditKind, Write
    <3> QED BY <3>1, <3>2, <3>3 DEF WritesSchedule, StoreChange
  <2>2. ASSUME NEW s \in Schedules, DeleteSchedule(s)
        PROVE  StoreChange
    <3>1. db' = WithSchedule(s, [kind |-> None, last |-> NoRef])
      BY <2>2 DEF DeleteSchedule, Write, WithSchedule
    <3>2. [kind |-> None, last |-> NoRef] \in RowEdits(s)
      BY DEF RowEdits
    <3>3. /\ lock = None /\ draft' = db' /\ lock' = lock /\ sweep' = sweep
          /\ db.sched[s].kind # None
      BY <2>2 DEF DeleteSchedule, Write
    <3> QED BY <3>1, <3>2, <3>3 DEF WritesSchedule, StoreChange
  <2>3. ASSUME NEW run \in db.runs, DeleteRun(run) \/ GrowOld(run)
        PROVE  StoreChange
    BY <1>1, <2>3 DEF GrowOld, StoreChange
  <2> QED BY <1>9, <2>1, <2>2, <2>3 DEF Admin
<1>10. CASE Sweep
  BY <1>10 DEF Sweep, StoreChange
<1>11. CASE SweepFails
  <2>1. RollsBack
    BY <1>11, NoneIsNobody DEF SweepFails, RollsBack, Held
  <2> QED BY <2>1 DEF StoreChange
<1>12. CASE Reading
  BY <1>1, <1>12
  DEF Reading, OpenRun, OpenComparison, OpenSeries, OpenPage, ReadParts, ClosePage
<1>13. CASE Measuring
  <2>1. \A w \in Jobs \cup Daemons \cup Commands : w \in Writers
    BY DEF Writers
  <2> QED
    BY <1>4, <1>5, <1>13, <2>1 DEF Measuring, StartJob, StartTest, StartDaemon, StartCommand
<1> QED
  BY <1>1, <1>3, <1>6, <1>7, <1>8, <1>9, <1>10, <1>11, <1>12, <1>13 DEF Next, Ends, vars

LEMMA StoreStart == Init => StoreTyped
<1> SUFFICES ASSUME Init PROVE StoreTyped
  OBVIOUS
<1>1. PICK kinds \in [Schedules -> Kinds \ {"tx"}] :
        db = [runs |-> {}, parts |-> {}, seq |-> [k \in Kinds |-> 0],
              sched |-> [s \in Schedules |-> [kind |-> kinds[s], last |-> NoRef]]]
  BY DEF Init
<1>2. [s \in Schedules |-> [kind |-> kinds[s], last |-> NoRef]] \in [Schedules -> ScheduleRow]
  BY DEF ScheduleRow
<1>3. db \in Database
  BY <1>1, <1>2 DEF Database
<1> QED BY <1>3 DEF Init, StoreTyped

LEMMA WithScheduleTyped ==
  ASSUME WorkTyped, Locals, StoreTyped, NEW s \in Schedules, db.sched[s].kind # None,
         NEW row \in RowEdits(s) \cup RowRecords(s)
  PROVE  /\ row \in ScheduleRow
         /\ WithSchedule(s, row) \in Database
         /\ WithSchedule(s, row).runs = db.runs /\ WithSchedule(s, row).parts = db.parts
         /\ WithSchedule(s, row).seq = db.seq
         /\ WithSchedule(s, row).sched = [db.sched EXCEPT ![s] = row]
<1>1. row \in ScheduleRow
  BY RowsTyped
<1>2. db \in Database
  BY DEF StoreTyped
<1>3. [db.sched EXCEPT ![s] = row] \in [Schedules -> ScheduleRow]
  BY <1>1, <1>2 DEF Database
<1> QED BY <1>1, <1>2, <1>3 DEF WithSchedule, Database

LEMMA NewRunTyped ==
  ASSUME WorkTyped, Locals, StoreTyped, NEW w \in Writers, InsertRun(w)
  PROVE  /\ RunOf(w)' \in Run /\ RunOf(w)'.kind = work[w].kind
         /\ RunOf(w)'.id = draft.seq[work[w].kind] + 1
         /\ draft' = WithRun(draft, RunOf(w)')
         /\ work'[w].kind = work[w].kind /\ work'[w].id = draft.seq[work[w].kind] + 1
<1> DEFINE id == NextId(draft, work[w].kind)
<1>1. work[w].pc \in {"measured", "judged"} /\ work[w].kind \in Kinds
  BY DEF InsertRun, Locals, Made
<1>2. id \in Nat /\ id = draft.seq[work[w].kind] + 1
  BY <1>1, NextIdTyped DEF StoreTyped
<1>3. RunOf(w) \in Run
  BY <1>1, RunTyped
<1>4. [RunOf(w) EXCEPT !.id = id] \in Run
  BY <1>2, <1>3 DEF Run
<1>5. work' = [work EXCEPT ![w] = [work[w] EXCEPT !.pc = "inserted", !.id = id]]
  BY DEF InsertRun
<1>6. /\ work'[w].kind = work[w].kind /\ work'[w].found = work[w].found
      /\ work'[w].sid = work[w].sid /\ work'[w].id = id
  BY <1>5 DEF WorkTyped, Work
<1>7. RunOf(w)' = [RunOf(w) EXCEPT !.id = id]
  BY <1>6 DEF RunOf
<1>8. draft' = WithRun(draft, [RunOf(w) EXCEPT !.id = id])
  BY DEF InsertRun
<1> QED BY <1>2, <1>4, <1>6, <1>7, <1>8 DEF RunOf

LEMMA StoreTypedStep ==
  ASSUME WorkTyped, Locals, StoreTyped, Held, [Next]_vars
  PROVE  StoreTyped'
<1> db \in Database /\ draft \in Database /\ lock \in Writers \cup {Sweeper, None} /\ sweep \in 0..4
  BY DEF StoreTyped
<1>1. CASE LeavesStore
  BY <1>1 DEF LeavesStore, StoreTyped
<1>2. CASE WritesSchedule
  <2>1. db' \in Database
    BY <1>2, WithScheduleTyped DEF WritesSchedule
  <2> QED BY <1>2, <2>1 DEF WritesSchedule, StoreTyped
<1>3. CASE RollsBack
  BY <1>3 DEF RollsBack, StoreTyped
<1>4. ASSUME NEW w \in Writers, InsertRun(w)
      PROVE  StoreTyped'
  <2>1. PICK run \in Run : draft' = WithRun(draft, run)
    BY <1>4, NewRunTyped
  <2>2. draft' \in Database
    BY <2>1, WithRunIs
  <2> QED BY <1>4, <2>2 DEF InsertRun, StoreTyped
<1>5. ASSUME NEW w \in Writers, InsertParts(w)
      PROVE  StoreTyped'
  <2>1. draft' \in Database
    BY <1>5, RunTyped, WithPartsIs DEF InsertParts
  <2> QED BY <1>5, <2>1 DEF InsertParts, StoreTyped
<1>6. ASSUME NEW w \in Writers, Commit(w)
      PROVE  StoreTyped'
  BY <1>6 DEF Commit, StoreTyped
<1>7. ASSUME NEW run \in db.runs, DeleteRun(run)
      PROVE  StoreTyped'
  <2>1. Without(db, {run}) \in Database
    BY WithoutIs
  <2> QED BY <1>7, <2>1 DEF DeleteRun, Write, StoreTyped
<1>8. CASE SweepTable
  <2>1. draft' \in Database
    BY <1>8, WithoutIs DEF SweepTable
  <2> QED BY <1>8, <2>1 DEF SweepTable, StoreTyped
<1>9. CASE SweepCommit
  BY <1>9 DEF SweepCommit, StoreTyped
<1> QED
  BY <1>1, <1>2, <1>3, <1>4, <1>5, <1>6, <1>7, <1>8, <1>9, StoreChanges DEF StoreChange

-----------------------------------------------------------------------------
(* What the draft is. *)

\* A writer's: the last commit, and its run under the next number.
Inserting(w) ==
  lock = w =>
    /\ work[w].id = db.seq[work[w].kind] + 1
    /\ draft = IF work[w].pc = "inserted" THEN WithRun(db, RunOf(w))
               ELSE WithParts(WithRun(db, RunOf(w)), RunOf(w))

\* Retention's: the last commit without some of its runs.
Sweeping == lock = Sweeper => \E gone \in SUBSET db.runs : draft = Without(db, gone)

DraftIs == Sweeping /\ \A w \in Writers : Inserting(w)

LEMMA DraftStart == Init => DraftIs
  BY NoneIsNobody DEF Init, DraftIs, Sweeping, Inserting

LEMMA WithoutTwice ==
  ASSUME NEW d \in Database, NEW g, NEW h
  PROVE  Without(Without(d, g), h) = Without(d, g \cup h)
<1> DEFINE e == Without(d, g)
           f == Without(d, g \cup h)
<1>1. e \in Database /\ e.runs = d.runs \ g /\ e.seq = d.seq /\ e.sched = d.sched
      /\ e.parts = {p \in d.parts : \A run \in g : p.kind # run.kind \/ p.id # run.id}
  BY WithoutIs
<1>2. f \in Database /\ f.runs = d.runs \ (g \cup h) /\ f.seq = d.seq /\ f.sched = d.sched
      /\ f.parts = {p \in d.parts : \A run \in g \cup h : p.kind # run.kind \/ p.id # run.id}
  BY WithoutIs
<1> HIDE DEF e, f
<1>3. /\ Without(e, h) \in Database
      /\ Without(e, h).runs = e.runs \ h /\ Without(e, h).seq = e.seq /\ Without(e, h).sched = e.sched
      /\ Without(e, h).parts = {p \in e.parts : \A run \in h : p.kind # run.kind \/ p.id # run.id}
  BY <1>1, WithoutIs
<1>4. Without(e, h).runs = f.runs
  BY <1>1, <1>2, <1>3
<1>5. Without(e, h).parts = f.parts
  BY <1>1, <1>2, <1>3
<1>6. Without(e, h).seq = f.seq /\ Without(e, h).sched = f.sched
  BY <1>1, <1>2, <1>3
<1>7. Without(e, h) = f
  BY ZenonT(60), <1>2, <1>3, <1>4, <1>5, <1>6, SameDatabase
<1> QED BY <1>7 DEF e, f

LEMMA DraftStep ==
  ASSUME WorkTyped, Locals, StoreTyped, Held, DraftIs, [Next]_vars
  PROVE  DraftIs'
<1> db \in Database /\ draft \in Database
  BY DEF StoreTyped
<1>1. CASE LeavesStore
  <2>1. Sweeping'
    BY SMTT(60), <1>1 DEF LeavesStore, DraftIs, Sweeping
  <2>2. ASSUME NEW w \in Writers, lock' = w PROVE Inserting(w)'
    <3>1. work'[w] = work[w] /\ lock = w
      BY <1>1, <2>2 DEF LeavesStore, Held
    <3>2. RunOf(w)' = RunOf(w)
      BY <3>1 DEF RunOf
    <3> QED BY <1>1, <3>1, <3>2 DEF LeavesStore, DraftIs, Inserting, WithRun, WithParts
  <2> QED BY <2>1, <2>2 DEF DraftIs, Inserting
<1>2. CASE lock' = None
  BY <1>2, NoneIsNobody DEF DraftIs, Sweeping, Inserting
<1>3. ASSUME NEW w \in Writers, InsertRun(w)
      PROVE  DraftIs'
  <2>1. lock' = w /\ lock = None /\ draft = db /\ db' = db /\ w # Sweeper
    BY <1>3, NoneIsNobody DEF InsertRun, Held
  <2>2. draft' = WithRun(db, RunOf(w)')
    BY <1>3, <2>1, NewRunTyped
  <2>3. work'[w].id = db.seq[work'[w].kind] + 1 /\ work'[w].pc = "inserted"
    BY <1>3, <2>1, NewRunTyped DEF InsertRun, WorkTyped, Work
  <2>4. Inserting(w)'
    BY <2>1, <2>2, <2>3 DEF Inserting, WithRun
  <2> QED BY <2>1, <2>4 DEF DraftIs, Sweeping, Inserting
<1>4. ASSUME NEW w \in Writers, InsertParts(w)
      PROVE  DraftIs'
  <2>1. lock' = w /\ lock = w /\ db' = db /\ w # Sweeper /\ work[w].pc = "inserted"
    BY <1>4, NoneIsNobody DEF InsertParts, Held, InTransaction
  <2>2. work'[w].pc = "filled" /\ work'[w].id = work[w].id /\ work'[w].kind = work[w].kind
        /\ work'[w].found = work[w].found /\ work'[w].sid = work[w].sid
    BY <1>4 DEF InsertParts, WorkTyped, Work
  <2>3. RunOf(w)' = RunOf(w)
    BY <2>2 DEF RunOf
  <2>4. draft' = WithParts(WithRun(db, RunOf(w)), RunOf(w))
    BY <1>4, <2>1 DEF InsertParts, DraftIs, Inserting
  <2>5. work'[w].id = db.seq[work[w].kind] + 1
    BY <2>1, <2>2 DEF DraftIs, Inserting
  <2>6. Inserting(w)'
    BY <2>1, <2>2, <2>3, <2>4, <2>5 DEF Inserting, WithRun, WithParts
  <2> QED BY <2>1, <2>6 DEF DraftIs, Sweeping, Inserting
<1>5. CASE SweepTable
  <2>1. lock' = Sweeper /\ db' = db
    BY <1>5 DEF SweepTable
  <2>2. PICK gone \in SUBSET db.runs : draft = Without(db, gone)
    <3>1. CASE sweep = 0
      <4>1. draft = Without(db, {})
        <5> DEFINE same == Without(db, {})
        <5>1. /\ same \in Database /\ same.seq = db.seq /\ same.sched = db.sched
              /\ same.runs = db.runs \ {}
              /\ same.parts = {p \in db.parts : \A run \in {} : p.kind # run.kind \/ p.id # run.id}
          BY WithoutIs
        <5>2. draft = db
          BY <1>5, <3>1 DEF SweepTable, Held
        <5> HIDE DEF same
        <5>3. same.runs = db.runs /\ same.parts = db.parts
          BY <5>1
        <5>4. same = db
          BY <5>1, <5>3, SameDatabase
        <5> QED BY <5>2, <5>4 DEF same
      <4> QED BY <4>1
    <3>2. CASE sweep # 0
      BY <1>5, <3>2 DEF SweepTable, DraftIs, Sweeping
    <3> QED BY <3>1, <3>2
  <2> DEFINE more == Expired(draft, Swept[sweep + 1])
  <2>3. draft' = Without(db, gone \cup more)
    BY <1>5, <2>2, WithoutTwice DEF SweepTable
  <2>4. gone \cup more \in SUBSET db.runs
    BY SMTT(60), <2>2, WithoutIs DEF Expired
  <2>5. Sweeping'
    BY <2>1, <2>3, <2>4 DEF Sweeping, Without
  <2> QED BY <2>1, <2>5, NoneIsNobody DEF DraftIs, Inserting
<1> QED
  BY <1>1, <1>2, <1>3, <1>4, <1>5, StoreChanges
  DEF StoreChange, WritesSchedule, RollsBack, Commit, DeleteRun, Write, SweepCommit

-----------------------------------------------------------------------------
(* Steps, by what they do to the last commit. *)

\* A run appears, with its parts, under the next number of its table.
Stores(run) ==
  /\ run \in Run /\ run.found \in FoundBy(run.kind) /\ run.id = db.seq[run.kind] + 1
  /\ db'.runs = db.runs \cup {run} /\ db'.parts = db.parts \cup PartsOf(run)
  /\ db'.seq = [db.seq EXCEPT ![run.kind] = run.id]
  /\ db'.sched = db.sched

\* Some runs go, with what carries their numbers.
Removes(gone) ==
  /\ gone \subseteq db.runs /\ db'.runs = db.runs \ gone
  /\ db'.parts = {p \in db.parts : \A run \in gone : p.kind # run.kind \/ p.id # run.id}
  /\ db'.seq = db.seq /\ db'.sched = db.sched

\* A row of schedules is written.
Schedules1(s, row) ==
  /\ row \in RowEdits(s) \cup RowRecords(s) /\ row \in ScheduleRow /\ db.sched[s].kind # None
  /\ db'.runs = db.runs /\ db'.parts = db.parts /\ db'.seq = db.seq
  /\ db'.sched = [db.sched EXCEPT ![s] = row]

StoreInv == WorkTyped /\ Locals /\ StoreTyped /\ Held /\ DraftIs

LEMMA StoreInvStart == Init => StoreInv
  BY WorkStart, StoreStart, HeldStart, DraftStart DEF StoreInv

LEMMA StoreInvStep == StoreInv /\ [Next]_vars => StoreInv'
  BY WorkStep, StoreTypedStep, HeldStep, DraftStep DEF StoreInv

LEMMA CommitStores ==
  ASSUME StoreInv, NEW w \in Writers, Commit(w)
  PROVE  Stores(RunOf(w))
<1> DEFINE run == RunOf(w)
           grown == WithRun(db, run)
<1>1. lock = w /\ work[w].pc = "filled" /\ db' = draft /\ db \in Database
  BY DEF StoreInv, Commit, Held, InTransaction, StoreTyped
<1>2. run \in Run
  BY <1>1, RunTyped DEF StoreInv
<1>3. run.id = db.seq[run.kind] + 1 /\ run.found \in FoundBy(run.kind)
  BY <1>1 DEF StoreInv, DraftIs, Inserting, RunOf, Locals, Made
<1>4. db' = WithParts(grown, run)
  BY <1>1 DEF StoreInv, DraftIs, Inserting
<1>5. /\ grown \in Database /\ grown.runs = db.runs \cup {run} /\ grown.parts = db.parts
      /\ grown.seq = [db.seq EXCEPT ![run.kind] = run.id] /\ grown.sched = db.sched
  BY <1>1, <1>2, WithRunIs
<1> HIDE DEF run, grown
<1>6. /\ db'.runs = grown.runs /\ db'.parts = grown.parts \cup PartsOf(run)
      /\ db'.seq = grown.seq /\ db'.sched = grown.sched
  BY <1>2, <1>4, <1>5, WithPartsIs
<1>7. Stores(run)
  BY <1>2, <1>3, <1>5, <1>6 DEF Stores
<1> QED BY <1>7 DEF run

DbChange ==
  \/ db' = db
  \/ \E run \in Run : Stores(run)
  \/ \E gone \in SUBSET db.runs : Removes(gone)
  \/ \E s \in Schedules, row \in ScheduleRow : Schedules1(s, row)

LEMMA DbChanges ==
  ASSUME StoreInv, [Next]_vars
  PROVE  DbChange
<1> WorkTyped /\ Locals /\ StoreTyped /\ Held /\ DraftIs /\ db \in Database
  BY DEF StoreInv, StoreTyped
<1>1. CASE LeavesStore \/ RollsBack \/ SweepTable
  BY <1>1 DEF LeavesStore, RollsBack, SweepTable, DbChange
<1>2. CASE WritesSchedule
  <2>0. PICK s \in Schedules : \E row \in RowEdits(s) \cup RowRecords(s) :
          db.sched[s].kind # None /\ db' = WithSchedule(s, row)
    BY <1>2 DEF WritesSchedule
  <2>1. PICK row \in RowEdits(s) \cup RowRecords(s) :
          db.sched[s].kind # None /\ db' = WithSchedule(s, row)
    BY <2>0
  <2>2. Schedules1(s, row) /\ row \in ScheduleRow
    BY <2>1, WithScheduleTyped DEF Schedules1
  <2> QED BY <2>2 DEF DbChange
<1>3. ASSUME NEW w \in Writers, InsertRun(w) \/ InsertParts(w)
      PROVE  DbChange
  BY <1>3 DEF InsertRun, InsertParts, DbChange
<1>4. ASSUME NEW w \in Writers, Commit(w)
      PROVE  DbChange
  <2>1. Stores(RunOf(w)) /\ RunOf(w) \in Run
    BY <1>4, CommitStores DEF Stores
  <2> QED BY <2>1 DEF DbChange
<1>5. ASSUME NEW run \in db.runs, DeleteRun(run)
      PROVE  DbChange
  <2> DEFINE gone == {run}
  <2>1. db' = Without(db, gone) /\ gone \in SUBSET db.runs
    BY <1>5 DEF DeleteRun, Write
  <2> HIDE DEF gone
  <2>2. Removes(gone)
    BY <2>1, WithoutIs DEF Removes
  <2> QED BY <2>1, <2>2 DEF DbChange
<1>6. CASE SweepCommit
  <2>1. lock = Sweeper /\ db' = draft
    BY <1>6 DEF SweepCommit, Held
  <2>2. PICK gone \in SUBSET db.runs : draft = Without(db, gone)
    BY <2>1 DEF DraftIs, Sweeping
  <2>3. Removes(gone)
    BY <2>1, <2>2, WithoutIs DEF Removes
  <2> QED BY <2>3 DEF DbChange
<1> QED
  BY <1>1, <1>2, <1>3, <1>4, <1>5, <1>6, StoreChanges DEF StoreChange

-----------------------------------------------------------------------------
(* The tables are whole and their numbers fresh. *)

Numbered ==
  \A run \in db.runs : run.id <= db.seq[run.kind] /\ run.found \in FoundBy(run.kind)

OneOfEach == \A a, b \in db.runs : a.kind = b.kind /\ a.id = b.id => a = b

Tables == WholeRuns /\ Numbered /\ OneOfEach

LEMMA TablesStart == Init => Tables
  BY DEF Init, Tables, WholeRuns, Numbered, OneOfEach

LEMMA PartsCarryNumber ==
  ASSUME NEW run, NEW p \in PartsOf(run)
  PROVE  p.kind = run.kind /\ p.id = run.id
  BY DEF PartsOf

LEMMA TablesStep ==
  ASSUME StoreInv, Tables, [Next]_vars
  PROVE  Tables'
<1> db \in Database
  BY DEF StoreInv, StoreTyped
<1>1. CASE db' = db
  BY <1>1 DEF Tables, WholeRuns, Numbered, OneOfEach
<1>2. ASSUME NEW run \in Run, Stores(run)
      PROVE  Tables'
  <2>1. WholeRuns'
    <3>1. db'.parts = db.parts \cup PartsOf(run) /\ db'.runs = db.runs \cup {run}
      BY <1>2 DEF Stores
    <3>2. db.parts = UNION {PartsOf(r) : r \in db.runs}
      BY DEF Tables, WholeRuns
    <3>3. UNION {PartsOf(r) : r \in db.runs \cup {run}}
            = (UNION {PartsOf(r) : r \in db.runs}) \cup PartsOf(run)
      OBVIOUS
    <3>4. db'.parts = UNION {PartsOf(r) : r \in db'.runs}
      BY <3>1, <3>2, <3>3
    <3> QED BY <3>4 DEF WholeRuns, PartsOf
  <2>2. \A k \in Kinds : db.seq[k] \in Nat /\ db'.seq[k] \in Nat /\ db.seq[k] <= db'.seq[k]
    BY <1>2 DEF Stores, Database, Run
  <2>3. db'.seq[run.kind] = run.id /\ run.id > db.seq[run.kind]
    BY <1>2 DEF Stores, Database, Run
  <2>4. \A r \in db.runs : r.kind \in Kinds /\ r.id \in Nat
    BY DEF Database, Run
  <2>5. db'.runs = db.runs \cup {run} /\ run.found \in FoundBy(run.kind)
    BY <1>2 DEF Stores
  <2>6. Numbered'
    BY <2>2, <2>3, <2>4, <2>5 DEF Tables, Numbered, Run
  <2>7. \A r \in db.runs : r.kind = run.kind => r.id # run.id
    BY <2>2, <2>3, <2>4 DEF Tables, Numbered, Run
  <2>8. OneOfEach'
    BY <2>5, <2>7 DEF Tables, OneOfEach
  <2> QED BY <2>1, <2>6, <2>8 DEF Tables
<1>3. ASSUME NEW gone \in SUBSET db.runs, Removes(gone)
      PROVE  Tables'
  <2>1. Numbered' /\ OneOfEach'
    BY <1>3 DEF Removes, Tables, Numbered, OneOfEach
  <2>2. db.parts = UNION {PartsOf(r) : r \in db.runs}
    BY DEF Tables, WholeRuns
  <2>3. ASSUME NEW p \in db'.parts
        PROVE  \E r \in db'.runs : p \in PartsOf(r)
    <3>1. p \in db.parts /\ \A run \in gone : p.kind # run.kind \/ p.id # run.id
      BY <1>3 DEF Removes
    <3>2. PICK r \in db.runs : p \in PartsOf(r)
      BY <2>2, <3>1
    <3> QED BY <1>3, <3>1, <3>2, PartsCarryNumber DEF Removes
  <2>4. ASSUME NEW r \in db'.runs, NEW p \in PartsOf(r)
        PROVE  p \in db'.parts
    <3>1. r \in db.runs /\ r \notin gone /\ p \in db.parts
      BY <1>3, <2>2 DEF Removes
    <3>2. \A run \in gone : p.kind # run.kind \/ p.id # run.id
      BY <3>1, PartsCarryNumber DEF Tables, OneOfEach
    <3> QED BY <1>3, <3>1, <3>2 DEF Removes
  <2>5. WholeRuns'
    BY <2>3, <2>4 DEF WholeRuns
  <2> QED BY <2>1, <2>5 DEF Tables
<1>4. ASSUME NEW s \in Schedules, NEW row \in ScheduleRow, Schedules1(s, row)
      PROVE  Tables'
  BY <1>4 DEF Schedules1, Tables, WholeRuns, Numbered, OneOfEach
<1> QED BY <1>1, <1>2, <1>3, <1>4, DbChanges DEF DbChange

-----------------------------------------------------------------------------
(* Steps, by what they do to one writer. *)

Moves(w) ==
  \/ work'[w] = work[w]
  \/ work'[w].pc \in {"idle", "probing", "measured", "exit"}
  \/ ReadBaseline(w) \/ InsertRun(w) \/ InsertParts(w) \/ Commit(w) \/ Compare(w)
  \/ work[w].pc = "trigger" /\ work'[w] = Afterwards(w)

LEMMA WriterMoves ==
  ASSUME StoreInv, [Next]_vars, NEW w \in Writers
  PROVE  Moves(w)
<1> work \in [Writers -> Work]
  BY DEF StoreInv, WorkTyped
<1>1. CASE UNCHANGED work
  BY <1>1 DEF Moves
<1>2. ASSUME NEW v \in Writers, StoreStep(v)
      PROVE  Moves(w)
  <2>1. CASE v # w /\ \A a \in Autos : ~ TriggerAuto(v, a)
    <3>1. work'[w] = work[w]
      BY <1>2, <2>1
      DEF StoreStep, ReadBaseline, InsertRun, InsertParts, Commit, NoAuto, Compare, RecordRun
    <3> QED BY <3>1 DEF Moves
  <2>2. CASE v = w /\ \A a \in Autos : ~ TriggerAuto(v, a)
    BY <1>2, <2>2, IdleWorkTyped DEF StoreStep, Moves, NoAuto, RecordRun
  <2>3. ASSUME NEW a \in Autos, TriggerAuto(v, a)
        PROVE  Moves(w)
    <3>1. a \in Writers /\ a # v /\ work[v].pc = "trigger"
      BY <2>3 DEF TriggerAuto, Writers
    <3>2. work'[v] = Afterwards(v) /\ work'[a].pc = "probing"
          /\ \A u \in Writers : u # v /\ u # a => work'[u] = work[u]
      BY <2>3, <3>1, IdleWorkTyped DEF TriggerAuto, Work
    <3> QED BY <3>1, <3>2 DEF Moves
  <2> QED BY <2>1, <2>2, <2>3
<1>3. ASSUME NEW v \in Writers, NEW k, NEW found, NEW s, Measure(v, k, found, s)
      PROVE  Moves(w)
  BY <1>3 DEF Measure, Moves, Work
<1>4. ASSUME NEW a \in Autos, AutoSkipped(a)
      PROVE  Moves(w)
  BY <1>4, IdleWorkTyped DEF AutoSkipped, Moves
<1>5. ASSUME NEW a \in Autos, NEW found \in Findings, AutoMeasured(a, found)
      PROVE  Moves(w)
  BY <1>5 DEF AutoMeasured, Moves, Work
<1>6. ASSUME NEW v \in Writers, SessionFails(v)
      PROVE  Moves(w)
  BY <1>6, IdleWorkTyped DEF SessionFails, Moves, Work
<1>7. ASSUME NEW ws, work' = [v \in Writers |-> IF v \in ws THEN IdleWork ELSE work[v]]
      PROVE  Moves(w)
  BY <1>7, IdleWorkTyped DEF Moves
<1>8. ASSUME NEW v \in Writers, ProcessEnds(v)
      PROVE  Moves(w)
  BY <1>7, <1>8 DEF ProcessEnds, Killed
<1>9. CASE ServerCrash
  BY <1>7, <1>9 DEF ServerCrash
<1>10. CASE Admin \/ Sweep \/ SweepFails \/ Reading
  BY <1>1, <1>10
  DEF Admin, EditKind, DeleteSchedule, DeleteRun, GrowOld, Sweep, SweepTable, SweepCommit,
      SweepFails, Reading, OpenRun, OpenComparison, OpenSeries, OpenPage, ReadParts, ClosePage
<1>11. CASE Measuring
  <2>1. \A v \in Jobs \cup Daemons \cup Commands : v \in Writers
    BY DEF Writers
  <2> QED
    BY <1>3, <1>4, <1>5, <1>11, <2>1
    DEF Measuring, StartJob, StartTest, StartDaemon, StartCommand
<1> QED
  BY <1>1, <1>2, <1>6, <1>8, <1>9, <1>10, <1>11 DEF Next, Ends, vars

LEMMA SeqTyped ==
  ASSUME StoreInv
  PROVE  /\ \A k \in Kinds : db.seq[k] \in Nat
         /\ \A run \in db.runs : run \in Run /\ run.kind \in Kinds /\ run.id \in Nat
         /\ \A s \in Schedules : db.sched[s] \in ScheduleRow
  BY DEF StoreInv, StoreTyped, Database, Run

LEMMA SeqGrows ==
  ASSUME StoreInv, [Next]_vars, NEW k \in Kinds
  PROVE  db'.seq[k] \in Nat /\ db.seq[k] <= db'.seq[k]
<1>1. db.seq \in [Kinds -> Nat] /\ db'.seq \in [Kinds -> Nat]
  BY StoreInvStep DEF StoreInv, StoreTyped, Database
<1>2. ASSUME NEW run \in Run, Stores(run)
      PROVE  db.seq[k] <= db'.seq[k]
  BY <1>1, <1>2 DEF Stores, Run
<1>3. CASE db'.seq = db.seq
  BY <1>1, <1>3
<1> QED BY <1>1, <1>2, <1>3, DbChanges DEF DbChange, Removes, Schedules1

\* A run with the number of one that was there, or of none, was there.
LEMMA RunsAreOld ==
  ASSUME StoreInv, [Next]_vars, NEW run \in db'.runs, run.id <= db.seq[run.kind]
  PROVE  run \in db.runs
<1>1. ASSUME NEW new \in Run, Stores(new)
      PROVE  run \in db.runs
  <2>1. new.id > db.seq[new.kind]
    BY <1>1, SeqTyped DEF Stores, Run
  <2> QED BY <1>1, <2>1, SeqTyped DEF Stores, Run
<1> QED BY <1>1, DbChanges DEF DbChange, Removes, Schedules1

-----------------------------------------------------------------------------
(* What jobs and schedules remember of their runs. *)

\* No run has this number but one the schedule made.
OwnOf(d, k, id, s) ==
  id <= d.seq[k] /\ \A run \in d.runs : run.kind = k /\ run.id = id => run.by = s

JobKnows(w) ==
  work[w].pc \in {"trigger", "compare", "record"} => OwnOf(db, work[w].kind, work[w].id, work[w].sid)

LastKnown ==
  \A s \in Schedules :
    /\ db.sched[s].kind = None => db.sched[s].last = NoRef
    /\ db.sched[s].last # NoRef => OwnOf(db, db.sched[s].last.kind, db.sched[s].last.id, s)

Remembered == LastKnown /\ \A w \in Writers : JobKnows(w)

LEMMA RememberedStart == Init => Remembered
<1> SUFFICES ASSUME Init PROVE Remembered
  OBVIOUS
<1>1. \A s \in Schedules : db.sched[s].last = NoRef
  BY DEF Init
<1>2. \A w \in Writers : work[w].pc = "idle"
  BY IdleWorkTyped DEF Init
<1> QED BY <1>1, <1>2 DEF Remembered, LastKnown, JobKnows

LEMMA OwnStays ==
  ASSUME StoreInv, [Next]_vars, NEW k \in Kinds, NEW id \in Nat, NEW s, OwnOf(db, k, id, s)
  PROVE  OwnOf(db', k, id, s)
<1>1. db.seq[k] \in Nat /\ db'.seq[k] \in Nat /\ db.seq[k] <= db'.seq[k]
  BY SeqTyped, SeqGrows
<1>2. ASSUME NEW run \in db'.runs, run.kind = k, run.id = id
      PROVE  run.by = s
  <2>1. run \in db.runs
    BY <1>2, RunsAreOld DEF OwnOf
  <2> QED BY <1>2, <2>1 DEF OwnOf
<1> QED BY <1>1, <1>2 DEF OwnOf

LEMMA JobKnowsStep ==
  ASSUME StoreInv, Tables, NEW w \in Writers, JobKnows(w), [Next]_vars
  PROVE  JobKnows(w)'
<1> work \in [Writers -> Work]
  BY DEF StoreInv, WorkTyped
<1> SUFFICES ASSUME work'[w].pc \in {"trigger", "compare", "record"}
             PROVE  OwnOf(db', work'[w].kind, work'[w].id, work'[w].sid)
  BY DEF JobKnows
<1> work[w] \in Work
  OBVIOUS
<1>1. CASE work[w].pc \in {"trigger", "compare", "record"} /\ work'[w].kind = work[w].kind
           /\ work'[w].id = work[w].id /\ work'[w].sid = work[w].sid
  <2>1. work[w].kind \in Kinds /\ work[w].id \in Nat
    BY <1>1 DEF StoreInv, Locals, Made, Work
  <2>2. OwnOf(db, work[w].kind, work[w].id, work[w].sid)
    BY <1>1 DEF JobKnows
  <2> QED BY <1>1, <2>1, <2>2, OwnStays
<1>2. CASE Commit(w)
  <2> DEFINE run == RunOf(w)
  <2>1. Stores(run)
    BY <1>2, CommitStores
  <2>2. work'[w].kind = run.kind /\ work'[w].id = run.id /\ work'[w].sid = run.by
    BY <1>2, IdleWorkTyped DEF Commit, Afterwards, RunOf, Work
  <2>3. run.id = db.seq[run.kind] + 1 /\ run.kind \in Kinds
    BY <2>1 DEF Stores, Run
  <2> HIDE DEF run
  <2>4. db'.seq[run.kind] = run.id
    BY <2>1 DEF Stores, StoreInv, StoreTyped, Database, Run
  <2>5. \A r \in db'.runs : r.kind = run.kind /\ r.id = run.id => r = run
    BY <2>1, <2>3, SeqTyped DEF Stores, Tables, Numbered
  <2> QED BY <2>2, <2>4, <2>5, <2>3, SeqTyped DEF OwnOf
<1> QED
  <2>1. CASE work[w].pc = "trigger" /\ work'[w] = Afterwards(w)
    BY <1>1, <2>1, IdleWorkTyped DEF Afterwards, Work
  <2>2. CASE Compare(w)
    BY <1>1, <2>2 DEF Compare, Work
  <2>3. CASE ReadBaseline(w) \/ InsertRun(w) \/ InsertParts(w)
    <3>1. work'[w].pc \in {"judged", "inserted", "filled"}
      BY ZenonT(60), <2>3 DEF ReadBaseline, InsertRun, InsertParts, Work
    <3> QED BY <3>1
  <2> QED BY <1>1, <1>2, <2>1, <2>2, <2>3, WriterMoves DEF Moves

LEMMA LastKnownStep ==
  ASSUME StoreInv, Remembered, [Next]_vars
  PROVE  LastKnown'
<1>1. \A s \in Schedules : db.sched[s] \in ScheduleRow
  BY SeqTyped
<1>2. ASSUME NEW s \in Schedules, db.sched[s].last # NoRef
      PROVE  OwnOf(db', db.sched[s].last.kind, db.sched[s].last.id, s)
  <2>1. OwnOf(db, db.sched[s].last.kind, db.sched[s].last.id, s)
    BY <1>2 DEF Remembered, LastKnown
  <2>2. db.sched[s].last.kind \in Kinds /\ db.sched[s].last.id \in Nat
    BY <1>1, <1>2 DEF ScheduleRow, Ref
  <2> QED BY <2>1, <2>2, OwnStays
<1>3. CASE db'.sched = db.sched
  BY <1>2, <1>3 DEF Remembered, LastKnown
<1>4. ASSUME NEW s \in Schedules, NEW row \in ScheduleRow, Schedules1(s, row)
      PROVE  LastKnown'
  <2>1. db'.sched = [db.sched EXCEPT ![s] = row] /\ db.sched \in [Schedules -> ScheduleRow]
    BY <1>4 DEF Schedules1, StoreInv, StoreTyped, Database
  <2>2. CASE row \in RowEdits(s)
    <3>1. \/ row = [kind |-> None, last |-> NoRef]
          \/ row.kind \in Kinds /\ row.last = db.sched[s].last
      BY <1>1, <2>2 DEF RowEdits, ScheduleRow
    <3>2. /\ row.kind = None => row.last = NoRef
          /\ row.last # NoRef => OwnOf(db', row.last.kind, row.last.id, s)
      BY <1>2, <3>1, NoneIsNobody
    <3> QED BY <1>2, <2>1, <3>2 DEF Remembered, LastKnown
  <2>3. CASE row \in RowRecords(s)
    <3>1. PICK w \in Writers : /\ work[w].pc = "record" /\ work[w].sid = s
                              /\ row = [db.sched[s] EXCEPT !.last = OwnRef(w)]
      BY <2>3 DEF RowRecords
    <3>2. row.kind = db.sched[s].kind /\ row.kind # None /\ row.last = OwnRef(w)
      BY <1>1, <1>4, <3>1 DEF ScheduleRow, Schedules1
    <3>3. OwnRef(w).kind = work[w].kind /\ OwnRef(w).id = work[w].id
          /\ work[w].kind \in Kinds /\ work[w].id \in Nat
      BY <3>1, OwnRefTyped DEF StoreInv, Ref
    <3>4. OwnOf(db, work[w].kind, work[w].id, s)
      BY <3>1 DEF Remembered, JobKnows
    <3>5. OwnOf(db', work[w].kind, work[w].id, s)
      BY <3>3, <3>4, OwnStays
    <3>6. OwnOf(db', row.last.kind, row.last.id, s)
      BY <3>2, <3>3, <3>5
    <3> QED BY <1>2, <2>1, <3>2, <3>6 DEF Remembered, LastKnown
  <2> QED BY <1>4, <2>2, <2>3 DEF Schedules1
<1> QED BY <1>3, <1>4, DbChanges DEF DbChange, Stores, Removes

LEMMA RememberedStep ==
  ASSUME StoreInv, Tables, Remembered, [Next]_vars
  PROVE  Remembered'
  BY JobKnowsStep, LastKnownStep DEF Remembered

LEMMA RememberedIsOwn ==
  ASSUME StoreInv, Remembered
  PROVE  LastRunOwn
<1> SUFFICES ASSUME NEW s \in Schedules, NEW run \in db.runs, RefOf(run) = db.sched[s].last
             PROVE  run.by = s
  BY DEF LastRunOwn
<1>1. db.sched[s].last.kind = run.kind /\ db.sched[s].last.id = run.id /\ run.kind \in Kinds
  BY SeqTyped DEF RefOf
<1>2. db.sched[s].last # NoRef
  BY <1>1, NoneIsNobody DEF NoRef
<1> QED BY <1>1, <1>2 DEF Remembered, LastKnown, OwnOf

-----------------------------------------------------------------------------
(* Judgements. *)

JudgedBelow(w) ==
  /\ work[w].pc = "judged" => \A n \in work[w].base : n <= db.seq[work[w].kind]
  /\ /\ work[w].pc \in {"inserted", "filled", "trigger", "record"}
     /\ w \in Daemons \/ work[w].kind = "mtr"
     => \A n \in work[w].base : n < work[w].id

Judged == \A w \in Writers : JudgedBelow(w)

LEMMA JudgedStart == Init => Judged
  BY IdleWorkTyped DEF Init, Judged, JudgedBelow

LEMMA JudgedStep ==
  ASSUME StoreInv, Tables, Judged, [Next]_vars
  PROVE  Judged'
<1> SUFFICES ASSUME NEW w \in Writers PROVE JudgedBelow(w)'
  BY DEF Judged
<1> work \in [Writers -> Work] /\ work[w] \in Work /\ JudgedBelow(w)
  BY DEF StoreInv, WorkTyped, Judged
<1>1. CASE work'[w] = work[w]
  <2>1. CASE work[w].pc = "judged"
    <3>1. work[w].kind \in Kinds
      BY <2>1 DEF StoreInv, Locals, Made
    <3>2. db.seq[work[w].kind] \in Nat /\ db'.seq[work[w].kind] \in Nat
          /\ db.seq[work[w].kind] <= db'.seq[work[w].kind]
      BY <3>1, SeqGrows, SeqTyped
    <3>3. \A n \in work[w].base : n \in Nat /\ n <= db.seq[work[w].kind]
      BY <2>1 DEF JudgedBelow, Work
    <3>4. \A n \in work[w].base : n <= db'.seq[work[w].kind]
      BY <3>2, <3>3
    <3> QED BY <1>1, <2>1, <3>4 DEF JudgedBelow
  <2>2. CASE work[w].pc # "judged"
    BY <1>1, <2>2 DEF JudgedBelow
  <2> QED BY <2>1, <2>2
<1>2. CASE work'[w].pc \in {"idle", "probing", "measured", "exit"}
  BY <1>2 DEF JudgedBelow
<1>3. CASE ReadBaseline(w)
  <2>1. work'[w].pc = "judged" /\ work'[w].base = IdsIn(db, work[w].kind)
        /\ work'[w].kind = work[w].kind /\ db' = db
    BY <1>3 DEF ReadBaseline, Work
  <2>2. \A n \in IdsIn(db, work[w].kind) : n <= db.seq[work[w].kind]
    BY DEF IdsIn, Tables, Numbered
  <2> QED BY <2>1, <2>2 DEF JudgedBelow
<1>4. CASE InsertRun(w)
  <2>1. lock = None /\ draft = db /\ work'[w].pc = "inserted" /\ work'[w].base = work[w].base
        /\ work[w].pc \in {"measured", "judged"}
    BY <1>4 DEF InsertRun, StoreInv, Held, Work
  <2>2. work[w].kind \in Kinds
    BY <2>1 DEF StoreInv, Locals, Made
  <2>3. work'[w].id = db.seq[work[w].kind] + 1 /\ db.seq[work[w].kind] \in Nat
    BY <1>4, <2>1, <2>2, NewRunTyped, SeqTyped DEF StoreInv
  <2>4. \A n \in work[w].base : n \in Nat /\ n <= db.seq[work[w].kind]
    BY <2>1 DEF StoreInv, Locals, Fresh, JudgedBelow, Work
  <2>5. \A n \in work'[w].base : n < work'[w].id
    BY <2>1, <2>3, <2>4
  <2> QED BY <2>1, <2>5 DEF JudgedBelow
<1>5. CASE InsertParts(w)
  <2>1. work[w].pc = "inserted" /\ work'[w].pc = "filled" /\ work'[w].kind = work[w].kind
        /\ work'[w].base = work[w].base /\ work'[w].id = work[w].id
    BY <1>5 DEF InsertParts, Work
  <2> QED BY <2>1 DEF JudgedBelow
<1>6. CASE work[w].pc \in {"filled", "trigger"}
           /\ (work'[w] = Afterwards(w) \/ work'[w] = [work[w] EXCEPT !.pc = "trigger"])
  <2>1. \/ work'[w].pc \in {"idle", "exit", "compare"}
        \/ /\ work'[w].pc \in {"record", "trigger"} /\ work'[w].kind = work[w].kind
           /\ work'[w].base = work[w].base /\ work'[w].id = work[w].id
    BY <1>6, IdleWorkTyped DEF Afterwards, Work
  <2> QED BY <1>6, <2>1 DEF JudgedBelow
<1>7. CASE Compare(w)
  <2>1. work[w].pc = "compare" /\ work'[w].pc = "record" /\ work'[w].kind = work[w].kind
    BY <1>7 DEF Compare, Work
  <2>2. w \notin Daemons /\ work[w].kind = "s3"
    BY <2>1 DEF StoreInv, Locals, Judging, JudgingPoint
  <2> QED BY <2>1, <2>2 DEF JudgedBelow
<1>8. CASE Commit(w)
  <2>1. work[w].pc = "filled"
        /\ (work'[w] = Afterwards(w) \/ work'[w] = [work[w] EXCEPT !.pc = "trigger"])
    BY <1>8 DEF Commit
  <2> QED BY <1>6, <2>1
<1> QED BY <1>1, <1>2, <1>3, <1>4, <1>5, <1>6, <1>7, <1>8, WriterMoves DEF Moves

-----------------------------------------------------------------------------
(* Pages. *)

\* A run that a page has read is in the database as it was, or not at all, and
\* its number is not given again.
KnownRun(run) ==
  /\ run \in Run /\ run.id <= db.seq[run.kind]
  /\ \A other \in db.runs : other.kind = run.kind /\ other.id = run.id => other = run

Shown(x) ==
  /\ x \in [run : Run, parts : SUBSET Part] /\ KnownRun(x.run)
  /\ x.parts = PartsOf(x.run) \/ (x.parts = {} /\ x.run \notin db.runs)

PageKnows(r) ==
  /\ page[r] = [todo |-> page[r].todo, shown |-> page[r].shown]
  /\ \A run \in page[r].todo : KnownRun(run)
  /\ \A x \in page[r].shown : Shown(x)

Pages == page \in [Readers -> Page] /\ \A r \in Readers : PageKnows(r)

LEMMA NoPageTyped == NoPage \in Page /\ NoPage.todo = {} /\ NoPage.shown = {}
  BY DEF NoPage, Page

LEMMA PagesStart == Init => Pages
  BY NoPageTyped DEF Init, Pages, PageKnows, NoPage

LEMMA KnownStays ==
  ASSUME StoreInv, [Next]_vars, NEW run, KnownRun(run)
  PROVE  KnownRun(run)' /\ (run \notin db.runs => run \notin db'.runs)
<1>1. run \in Run /\ run.kind \in Kinds /\ run.id \in Nat /\ run.id <= db.seq[run.kind]
  BY DEF KnownRun, Run
<1>2. run.id <= db'.seq[run.kind]
  BY <1>1, SeqTyped, SeqGrows
<1>3. ASSUME NEW other \in db'.runs, other.kind = run.kind, other.id = run.id
      PROVE  other = run /\ other \in db.runs
  BY <1>1, <1>3, RunsAreOld DEF KnownRun
<1>4. KnownRun(run)'
  BY <1>1, <1>2, <1>3 DEF KnownRun
<1> QED BY <1>3, <1>4

LEMMA ShownStays ==
  ASSUME StoreInv, [Next]_vars, NEW x, Shown(x)
  PROVE  Shown(x)'
  BY KnownStays DEF Shown, PartsOf

LEMMA PresentIsKnown ==
  ASSUME StoreInv, Tables, NEW run \in db.runs
  PROVE  KnownRun(run)
  BY SeqTyped DEF KnownRun, Tables, Numbered, OneOfEach

\* One SELECT reads all the parts of a run, or none if it has gone.
LEMMA PartsAreShown ==
  ASSUME StoreInv, Tables, NEW run, KnownRun(run)
  PROVE  Shown([run |-> run, parts |-> PartsIn(db, run)])
<1>1. db.parts = UNION {PartsOf(r) : r \in db.runs} /\ db.parts \in SUBSET Part
  BY DEF Tables, WholeRuns, StoreInv, StoreTyped, Database
<1>2. PartsIn(db, run) \in SUBSET Part
  BY <1>1 DEF PartsIn
<1>3. CASE run \in db.runs
  <2>1. ASSUME NEW p \in PartsIn(db, run) PROVE p \in PartsOf(run)
    <3>1. p \in db.parts /\ p.kind = run.kind /\ p.id = run.id
      BY DEF PartsIn
    <3>2. PICK r \in db.runs : p \in PartsOf(r)
      BY <1>1, <3>1
    <3>3. r = run
      BY <3>1, <3>2, PartsCarryNumber DEF KnownRun
    <3> QED BY <3>2, <3>3
  <2>2. ASSUME NEW p \in PartsOf(run) PROVE p \in PartsIn(db, run)
    BY <1>1, <1>3, PartsCarryNumber DEF PartsIn
  <2> QED BY <1>2, <2>1, <2>2 DEF Shown, KnownRun
<1>4. CASE run \notin db.runs
  <2>1. ASSUME NEW p \in PartsIn(db, run) PROVE FALSE
    <3>1. p \in db.parts /\ p.kind = run.kind /\ p.id = run.id
      BY DEF PartsIn
    <3>2. PICK r \in db.runs : p \in PartsOf(r)
      BY <1>1, <3>1
    <3> QED BY <1>4, <3>1, <3>2, PartsCarryNumber DEF KnownRun
  <2> QED BY <1>2, <1>4, <2>1 DEF Shown, KnownRun
<1> QED BY <1>3, <1>4

LEMMA SamePage ==
  ASSUME StoreInv, [Next]_vars, NEW r, PageKnows(r), page'[r] = page[r]
  PROVE  PageKnows(r)'
  BY KnownStays, ShownStays DEF PageKnows

LEMMA PagesStep ==
  ASSUME StoreInv, Tables, Pages, [Next]_vars
  PROVE  Pages'
<1> page \in [Readers -> Page] /\ \A r \in Readers : PageKnows(r)
  BY DEF Pages
<1>1. CASE page' = page
  BY <1>1, SamePage DEF Pages
<1>2. ASSUME NEW r \in Readers, NEW new \in Page, page' = [page EXCEPT ![r] = new], PageKnows(r)'
      PROVE  Pages'
  <2>1. page' \in [Readers -> Page] /\ \A q \in Readers : q # r => page'[q] = page[q]
    BY <1>2
  <2> QED BY <1>2, <2>1, SamePage DEF Pages
<1>3. CASE page' = [r \in Readers |-> NoPage]
  BY <1>3, NoPageTyped DEF Pages, PageKnows, NoPage
<1>4. ASSUME NEW r \in Readers, NEW rows \in SUBSET db.runs, OpenPage(r, rows)
      PROVE  Pages'
  <2> DEFINE new == [todo |-> rows, shown |-> {}]
  <2>1. new \in Page
    BY SeqTyped DEF Page
  <2>2. page' = [page EXCEPT ![r] = new] /\ page'[r] = new
    BY <1>4 DEF OpenPage
  <2>3. \A run \in rows : KnownRun(run)'
    BY PresentIsKnown, KnownStays
  <2>4. PageKnows(r)'
    BY <2>2, <2>3 DEF PageKnows
  <2> HIDE DEF new
  <2> QED BY <1>2, <2>1, <2>2, <2>4
<1>5. ASSUME NEW r \in Readers, NEW run \in page[r].todo, ReadParts(r, run)
      PROVE  Pages'
  <2>1. KnownRun(run) /\ Shown([run |-> run, parts |-> PartsIn(db, run)])
    BY PartsAreShown DEF PageKnows
  <2>2. PICK x : x = [run |-> run, parts |-> PartsIn(db, run)]
    OBVIOUS
  <2>3. Shown(x)' /\ \A y \in page[r].shown : Shown(y)'
    BY <2>1, <2>2, ShownStays DEF PageKnows
  <2>4. \A other \in page[r].todo : KnownRun(other)'
    BY KnownStays DEF PageKnows
  <2>5. PICK new : new = [todo |-> page[r].todo \ {run}, shown |-> page[r].shown \cup {x}]
    OBVIOUS
  <2>6. page' = [page EXCEPT ![r] = new]
    BY <1>5, <2>2, <2>5 DEF ReadParts
  <2>7. x \in [run : Run, parts : SUBSET Part]
    BY <2>1, <2>2 DEF Shown
  <2>8. new \in Page
    BY <2>5, <2>7 DEF Page
  <2>9. page'[r] = new
    BY <2>6
  <2>10. PageKnows(r)'
    BY <2>3, <2>4, <2>5, <2>9 DEF PageKnows
  <2> QED BY <1>2, <2>6, <2>8, <2>10
<1>6. ASSUME NEW r \in Readers, ClosePage(r)
      PROVE  Pages'
  <2>1. page' = [page EXCEPT ![r] = NoPage] /\ page'[r] = NoPage
    BY <1>6 DEF ClosePage
  <2>2. PageKnows(r)'
    BY <2>1, NoPageTyped DEF PageKnows, NoPage
  <2> QED BY <1>2, <2>1, <2>2, NoPageTyped
<1>7. CASE Reading
  <2>1. ASSUME NEW r \in Readers,
               (\E run \in db.runs : OpenRun(r, run)) \/ OpenSeries(r)
                 \/ (\E a, b \in db.runs : OpenComparison(r, a, b))
        PROVE  \E rows \in SUBSET db.runs : OpenPage(r, rows)
    BY <2>1 DEF OpenRun, OpenSeries, OpenComparison
  <2> QED BY <1>4, <1>5, <1>6, <1>7, <2>1 DEF Reading
<1>8. CASE ServerCrash
  BY <1>3, <1>8 DEF ServerCrash
<1>9. CASE Measuring \/ \E w \in Writers : StoreStep(w)
  BY <1>1, <1>9
  DEF Measuring, StartJob, StartTest, StartDaemon, StartCommand, Measure, AutoMeasured, AutoSkipped,
      StoreStep, ReadBaseline, InsertRun, InsertParts, Commit, TriggerAuto, NoAuto, Compare, RecordRun
<1>10. CASE Admin \/ Sweep \/ SweepFails \/ \E w \in Writers : SessionFails(w) \/ ProcessEnds(w)
  BY <1>1, <1>10
  DEF Admin, EditKind, DeleteSchedule, DeleteRun, GrowOld, Sweep, SweepTable, SweepCommit,
      SweepFails, SessionFails, ProcessEnds
<1> QED
  BY <1>1, <1>7, <1>8, <1>9, <1>10 DEF Next, Ends, vars

-----------------------------------------------------------------------------
(* The reader's view. *)

Seen(run) == [kind |-> run.kind, id |-> run.id, parts |-> run.found]
SeenIn(d) == {[kind |-> run.kind, id |-> run.id, parts |-> {p.idx : p \in PartsIn(d, run)}] : run \in d.runs}

LogIs == SeenIn(db) = {Seen(run) : run \in db.runs}

LEMMA AllIsSeen ==
  ASSUME StoreInv, Tables
  PROVE  LogIs
<1>1. ASSUME NEW run \in db.runs
      PROVE  {p.idx : p \in PartsIn(db, run)} = run.found
  <2>1. PartsIn(db, run) = PartsOf(run)
    <3>1. Shown([run |-> run, parts |-> PartsIn(db, run)])
      BY PresentIsKnown, PartsAreShown
    <3> QED BY <3>1 DEF Shown
  <2>2. \A p \in PartsOf(run) : p.idx \in run.found
    BY DEF PartsOf
  <2>3. ASSUME NEW i \in run.found
        PROVE  \E p \in PartsOf(run) : p.idx = i
    <3>1. [kind |-> run.kind, id |-> run.id, idx |-> i] \in PartsOf(run)
      BY DEF PartsOf
    <3> QED BY <3>1
  <2>4. {p.idx : p \in PartsOf(run)} = run.found
    BY <2>2, <2>3
  <2> QED BY <2>1, <2>4
<1> QED BY <1>1 DEF LogIs, SeenIn, Seen

LEMMA LogStep ==
  ASSUME StoreInv, LogIs, LogIs', [Next]_vars
  PROVE  [Log!LogNext]_(Log!logVars)
<1> DEFINE log == SeenIn(db)
           log2 == SeenIn(db')
<1>1. log = {Seen(run) : run \in db.runs} /\ log2 = {Seen(run) : run \in db'.runs}
  BY DEF LogIs, SeenIn, PartsIn, Seen
<1>2. CASE db' = db
  BY <1>2 DEF Log!logVars, PartsIn
<1>3. ASSUME NEW run \in Run, Stores(run)
      PROVE  Log!LogNext
  <2>1. run.kind \in Kinds /\ run.found \in [k \in Kinds |-> FoundBy(k)][run.kind]
    BY <1>3 DEF Stores, Run
  <2>2. db'.seq = [db.seq EXCEPT ![run.kind] = @ + 1] /\ run.id = db.seq[run.kind] + 1
    BY <1>3 DEF Stores
  <2>3. log2 = log \cup {[kind |-> run.kind, id |-> db.seq[run.kind] + 1, parts |-> run.found]}
    BY <1>1, <1>3, <2>2 DEF Stores, Seen
  <2>4. Log!Add(run.kind, run.found)
    BY <2>2, <2>3 DEF Log!Add, SeenIn, PartsIn
  <2> QED BY <2>1, <2>4, Zenon DEF Log!LogNext
<1>4. CASE db'.runs \subseteq db.runs /\ db'.seq = db.seq
  <2>1. log2 \subseteq log
    BY <1>1, <1>4
  <2>2. Log!Drop
    BY <1>4, <2>1 DEF Log!Drop, SeenIn, PartsIn
  <2> QED BY <2>2 DEF Log!LogNext
<1> QED BY <1>2, <1>3, <1>4, DbChanges DEF DbChange, Removes, Schedules1

-----------------------------------------------------------------------------
(* Together *)

Counted == old \subseteq Ref /\ started \in 0..MaxRuns /\ faults \in 0..MaxFaults

LEMMA CountedStep ==
  ASSUME StoreInv, Counted, [Next]_vars
  PROVE  Counted'
<1> USE RunStoreAssumption
<1>1. CASE UNCHANGED <<old, started, faults>>
  BY <1>1 DEF Counted
<1>2. ASSUME NEW run \in db.runs, GrowOld(run)
      PROVE  Counted'
  BY <1>2, SeqTyped DEF GrowOld, Counted, RefOf, Ref
<1>3. CASE UNCHANGED <<old, faults>> /\ started < MaxRuns /\ started' = started + 1
  BY <1>3 DEF Counted
<1>4. CASE UNCHANGED <<old, started>> /\ faults < MaxFaults /\ faults' = faults + 1
  BY SMTT(60), <1>4 DEF Counted
<1>5. CASE Measuring
  BY <1>1, <1>3, <1>5
  DEF Measuring, StartJob, StartTest, StartDaemon, StartCommand, Measure, AutoMeasured, AutoSkipped
<1>6. ASSUME NEW w \in Writers, StoreStep(w)
      PROVE  Counted'
  BY <1>1, <1>6
  DEF StoreStep, ReadBaseline, InsertRun, InsertParts, Commit, TriggerAuto, NoAuto, Compare, RecordRun
<1>7. CASE Ends
  BY <1>1, <1>4, <1>7 DEF Ends, SessionFails, ProcessEnds, ServerCrash
<1>8. CASE Admin
  BY <1>1, <1>2, <1>8 DEF Admin, EditKind, DeleteSchedule, DeleteRun
<1>9. CASE Sweep \/ SweepFails
  BY <1>1, <1>4, <1>9 DEF Sweep, SweepTable, SweepCommit, SweepFails
<1>10. CASE Reading
  BY <1>1, <1>10
  DEF Reading, OpenRun, OpenComparison, OpenSeries, OpenPage, ReadParts, ClosePage
<1> QED
  BY <1>1, <1>5, <1>6, <1>7, <1>8, <1>9, <1>10 DEF Next, vars

Inv == StoreInv /\ Tables /\ Remembered /\ Judged /\ Pages /\ Counted

(***************************************************************************)
(* The inductive invariant: all the layers.                                *)
(***************************************************************************)
THEOREM Invariance == Spec => []Inv
<1>1. Init => Inv
  <2>1. Init => Counted
    BY RunStoreAssumption DEF Init, Counted
  <2> QED BY <2>1, StoreInvStart, TablesStart, RememberedStart, JudgedStart, PagesStart DEF Inv
<1>2. Inv /\ [Next]_vars => Inv'
  BY StoreInvStep, TablesStep, RememberedStep, JudgedStep, PagesStep, CountedStep DEF Inv
<1> QED BY <1>1, <1>2, PTL DEF Spec

(***************************************************************************)
(* The types of the tables, the writers, retention and the pages.          *)
(***************************************************************************)
THEOREM TypeCorrect == Spec => []TypeOK
<1>1. Inv => TypeOK
  BY DEF Inv, StoreInv, StoreTyped, WorkTyped, Remembered, LastKnown, Pages, Counted, TypeOK
<1> QED BY <1>1, Invariance, PTL

(***************************************************************************)
(* What is committed is whole: no crash, failed session, deletion or       *)
(* retention pass leaves a run without its parts or parts without a run.   *)
(***************************************************************************)
THEOREM Whole == Spec => []WholeRuns
<1>1. Inv => WholeRuns
  BY DEF Inv, Tables
<1> QED BY <1>1, Invariance, PTL

(***************************************************************************)
(* A page shows all the parts of a run, or none of a run that has gone.    *)
(***************************************************************************)
THEOREM PagesAreConsistent == Spec => []PageConsistent
<1>1. Inv => PageConsistent
  BY DEF Inv, Pages, PageKnows, Shown, PageConsistent
<1> QED BY <1>1, Invariance, PTL

(***************************************************************************)
(* last_run_id never names a run of another schedule.                      *)
(***************************************************************************)
THEOREM LastRuns == Spec => []LastRunOwn
<1>1. Inv => LastRunOwn
  BY RememberedIsOwn DEF Inv
<1> QED BY <1>1, Invariance, PTL

(***************************************************************************)
(* The mtr job and the daemons judge a run by earlier ones.                *)
(***************************************************************************)
THEOREM Judgements == Spec => []JudgedByEarlier
<1>1. Inv => JudgedByEarlier
  BY DEF Inv, Judged, JudgedBelow, JudgedByEarlier
<1> QED BY <1>1, Invariance, PTL

(***************************************************************************)
(* The tables, with all their users, implement the reader's view: whole    *)
(* runs under numbers never given twice, that are unchanged until they go. *)
(***************************************************************************)
THEOREM Refinement == Spec => ImplementsRunLog
<1>1. Init => Log!LogInit
  BY DEF Init, Log!LogInit
<1>2. Inv => LogIs
  BY AllIsSeen DEF Inv
<1>3. Inv /\ LogIs /\ LogIs' /\ [Next]_vars => [Log!LogNext]_(Log!logVars)
  BY LogStep DEF Inv
<1> QED BY <1>1, <1>2, <1>3, Invariance, PTL DEF Spec, ImplementsRunLog, Log!LogSpec
-----------------------------------------------------------------------------
(* What retention does, apart from the fairness that brings it about.      *)

\* The tables cleaned so far are without x, if x is past the cutoff.
CleanOf(x) ==
  x \in old => \A i \in 1..sweep : \A run \in draft.runs : run.kind = Swept[i] => RefOf(run) # x

(* A pass under way keeps clean what it has cleaned: nobody else writes.   *)
LEMMA CleanStep ==
  ASSUME NEW x, StoreInv, CleanOf(x), [Next]_vars,
         x \notin old /\ x \in old' => sweep = 0
  PROVE  CleanOf(x)'
<1> /\ WorkTyped /\ Locals /\ StoreTyped /\ Held /\ DraftIs
    /\ db \in Database /\ draft \in Database /\ sweep \in 0..4
  BY DEF StoreInv, StoreTyped
<1>1. CASE sweep' = 0
  BY <1>1 DEF CleanOf
<1>2. CASE SweepTable
  <2> DEFINE k == Swept[sweep + 1]
             more == Expired(draft, k)
  <2>1. /\ sweep' = sweep + 1 /\ old' = old /\ draft' = Without(draft, more)
    BY <1>2 DEF SweepTable
  <2>2. draft'.runs = draft.runs \ more
    <3> HIDE DEF more
    <3> QED BY <2>1, WithoutIs
  <2>3. ASSUME x \in old, NEW i \in 1..(sweep + 1), NEW run \in draft'.runs,
               run.kind = Swept[i]
        PROVE  RefOf(run) # x
    <3>1. CASE i = sweep + 1
      BY <2>2, <2>3, <3>1 DEF Expired
    <3>2. CASE i # sweep + 1
      <4>1. i \in 1..sweep
        BY <3>2
      <4> HIDE DEF more
      <4>2. run \in draft.runs
        BY <2>2
      <4> QED BY <2>3, <4>1, <4>2 DEF CleanOf
    <3> QED BY <3>1, <3>2
  <2> QED BY <2>1, <2>3 DEF CleanOf
<1>3. CASE UNCHANGED <<draft, sweep>>
  <2>1. CASE sweep = 0
    BY <1>1, <1>3, <2>1
  <2>2. CASE sweep # 0
    BY <1>3, <2>2 DEF CleanOf
  <2> QED BY <2>1, <2>2
<1>4. CASE lock # Sweeper
  <2>1. sweep = 0
    BY <1>4 DEF Held
  <2>2. sweep' = 0 \/ SweepTable
    BY <2>1, StoreChanges DEF StoreChange, LeavesStore, WritesSchedule, RollsBack, InsertRun,
      InsertParts, Commit, DeleteRun, SweepCommit
  <2> QED BY <1>1, <1>2, <2>2
<1>5. CASE lock = Sweeper
  <2>1. \A w \in Writers : lock # w /\ ~ InTransaction(w)
    BY <1>5, NoneIsNobody DEF Held
  <2>2. lock # None
    BY <1>5, NoneIsNobody
  <2>3. ~ \E w \in Writers : InsertRun(w) \/ InsertParts(w) \/ Commit(w)
    BY <2>1, <2>2 DEF InsertRun, InsertParts, Commit, InTransaction
  <2>4. CASE RollsBack
    <3>1. sweep' = 0
      BY <2>4, HeldStep, NoneIsNobody DEF RollsBack, Held
    <3> QED BY <1>1, <3>1
  <2>5. CASE LeavesStore
    BY <1>3, <2>5 DEF LeavesStore
  <2>6. ~ WritesSchedule /\ ~ \E run \in db.runs : DeleteRun(run)
    BY <2>2 DEF WritesSchedule, DeleteRun, Write
  <2>7. CASE SweepCommit
    BY <1>1, <2>7 DEF SweepCommit
  <2> QED BY <1>2, <2>3, <2>4, <2>5, <2>6, <2>7, StoreChanges DEF StoreChange
<1> QED BY <1>4, <1>5

(* Time is the only one to move the cutoff past a run.                     *)
LEMMA OldChanges ==
  ASSUME [Next]_vars
  PROVE  old' = old \/ \E run \in db.runs : GrowOld(run)
<1>1. CASE Measuring
  BY <1>1
  DEF Measuring, StartJob, StartTest, StartDaemon, StartCommand, Measure, AutoMeasured, AutoSkipped
<1>2. ASSUME NEW w \in Writers, StoreStep(w)
      PROVE  old' = old
  BY <1>2
  DEF StoreStep, ReadBaseline, InsertRun, InsertParts, Commit, TriggerAuto, NoAuto, Compare, RecordRun
<1>3. CASE Ends
  BY <1>3 DEF Ends, SessionFails, ProcessEnds, ServerCrash
<1>4. CASE Admin
  BY <1>4 DEF Admin, EditKind, DeleteSchedule, DeleteRun
<1>5. CASE Sweep \/ SweepFails
  BY <1>5 DEF Sweep, SweepTable, SweepCommit, SweepFails
<1>6. CASE Reading
  BY <1>6
  DEF Reading, OpenRun, OpenComparison, OpenSeries, OpenPage, ReadParts, ClosePage
<1> QED BY <1>1, <1>2, <1>3, <1>4, <1>5, <1>6 DEF Next, vars

\* What is past the cutoff has been given its number.
OldKnown == \A ref \in old : ref \in Ref /\ ref.id <= db.seq[ref.kind]

(* Sequences only grow, and a run that grows old is in its table.          *)
LEMMA OldKnownStep ==
  ASSUME Inv, OldKnown, [Next]_vars
  PROVE  OldKnown'
<1> StoreInv /\ StoreInv' /\ DbChange
  BY StoreInvStep, DbChanges DEF Inv
<1>1. ASSUME NEW ref \in old PROVE ref \in Ref /\ ref.id <= db'.seq[ref.kind]
  <2>1. ref \in Ref /\ ref.id \in Nat /\ ref.kind \in Kinds /\ ref.id <= db.seq[ref.kind]
    BY DEF OldKnown, Ref
  <2>2. db.seq[ref.kind] \in Nat /\ db'.seq[ref.kind] \in Nat
        /\ db.seq[ref.kind] <= db'.seq[ref.kind]
    BY <2>1, SeqTyped, SeqGrows
  <2> QED BY <2>1, <2>2
<1>2. ASSUME NEW run \in db.runs, GrowOld(run)
      PROVE  OldKnown'
  <2>1. old' = old \cup {RefOf(run)} /\ db' = db
    BY <1>2 DEF GrowOld
  <2>2. run \in Run /\ run.id <= db.seq[run.kind]
    BY DEF Inv, StoreInv, StoreTyped, Database, Tables, Numbered
  <2>3. RefOf(run) \in Ref /\ RefOf(run).id <= db.seq[RefOf(run).kind]
    BY <2>2 DEF RefOf, Ref, Run
  <2> QED BY <1>1, <2>1, <2>3 DEF OldKnown
<1>3. old' = old \/ \E run \in db.runs : GrowOld(run)
  BY OldChanges
<1> QED BY <1>1, <1>2, <1>3 DEF OldKnown

(***************************************************************************)
(* A retention pass that commits has removed whatever was past the cutoff  *)
(* when it began, the transactions apart, whoever else was at work: only a *)
(* run that grows old during the pass can be left.                         *)
(***************************************************************************)
THEOREM PassesAreThorough ==
  ASSUME NEW x
  PROVE  Spec /\ [][x \notin old /\ x \in old' => sweep = 0]_vars
           => [][SweepCommit => \A run \in PastCutoff' : RefOf(run) # x]_vars
<1> DEFINE Between == x \notin old /\ x \in old' => sweep = 0
           Gone == SweepCommit => \A run \in PastCutoff' : RefOf(run) # x
<1>1. Init => CleanOf(x)
  BY DEF Init, CleanOf
<1>2. Inv /\ CleanOf(x) /\ [Next]_vars /\ [Between]_vars => CleanOf(x)'
  <2> SUFFICES ASSUME Inv, CleanOf(x), [Next]_vars, [Between]_vars
               PROVE  CleanOf(x)'
    OBVIOUS
  <2>1. Between
    BY DEF vars
  <2> QED BY <2>1, CleanStep DEF Inv
<1>3. Inv /\ CleanOf(x) /\ [Next]_vars => [Gone]_vars
  <2> SUFFICES ASSUME Inv, CleanOf(x), SweepCommit, NEW run \in PastCutoff', RefOf(run) = x
               PROVE  FALSE
    OBVIOUS
  <2>1. db' = draft /\ old' = old /\ sweep = 4
    BY DEF SweepCommit
  <2>2. run \in draft.runs /\ RefOf(run) \in old /\ run.kind # "tx" /\ draft \in Database
    BY <2>1 DEF PastCutoff, Inv, StoreInv, StoreTyped
  <2>3. run.kind \in {"mtr", "http", "s3", "tcp"}
    BY <2>2, RunStoreAssumption DEF Database, Run, AllKinds
  <2>4. \E i \in 1..4 : run.kind = Swept[i]
    BY <2>3 DEF Swept
  <2> QED BY <2>1, <2>2, <2>4 DEF CleanOf
<1> HIDE DEF Between, Gone
<1>4. Spec /\ [][Between]_vars => [][Gone]_vars
  BY <1>1, <1>2, <1>3, Invariance, PTL DEF Spec
<1> QED BY <1>4 DEF Between, Gone

(***************************************************************************)
(* Nothing but time puts a run past the cutoff: no insertion, since        *)
(* AUTOINCREMENT gives no number twice, and no failed pass or crash.       *)
(***************************************************************************)
THEOREM OnlyTimeAges == Spec => [][old' = old => PastCutoff' \subseteq PastCutoff]_vars
<1>1. Init => OldKnown
  BY DEF Init, OldKnown
<1>2. Inv /\ OldKnown /\ [Next]_vars => OldKnown'
  BY OldKnownStep
<1>3. Inv /\ OldKnown /\ [Next]_vars => [old' = old => PastCutoff' \subseteq PastCutoff]_vars
  <2> SUFFICES ASSUME Inv, OldKnown, [Next]_vars, old' = old,
                      NEW run \in db'.runs, RefOf(run) \in old, run \notin db.runs
               PROVE  FALSE
    BY DEF PastCutoff
  <2>1. run.id <= db.seq[run.kind]
    BY DEF OldKnown, RefOf
  <2> QED BY <2>1, RunsAreOld DEF Inv
<1> QED BY <1>1, <1>2, <1>3, Invariance, PTL DEF Spec
=============================================================================
