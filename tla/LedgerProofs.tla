---------------------------- MODULE LedgerProofs -----------------------------
(***************************************************************************)
(* LedgerExact of TrackedObjects, for any number of schedules, buckets,    *)
(* keys and threads.  The ledger can be trusted because a row is held by   *)
(* one job until it is inserted, a key belongs to one row, and what a      *)
(* thread has learned of an object stays true until it has recorded it.    *)
(***************************************************************************)
EXTENDS TrackedObjectsProofs

Deleting(r) == run[r].pc \in {"delete", "deleteReplied"}
OnItsWay(r) == run[r].pc \in {"put", "putReplied"}

\* The rows somebody has read, or could.
Listed ==
  {row \in Row :
     \/ row \in alive \cup marked
     \/ \E p \in Purgers : row \in purge[p].todo
     \/ \E p \in Purgers : purge[p].pc = "replied" /\ row = purge[p].row
     \/ \E r \in Runners : Deleting(r) /\ row = run[r].row}

\* And those still to be inserted.
Fresh == {run[r].row : r \in {q \in Runners : OnItsWay(q)}}

RowsDistinct ==
  /\ \A a, b \in Listed \cup Fresh : a.key = b.key => a = b
  /\ \A r \in Runners : OnItsWay(r) => run[r].row \notin Listed
  /\ \A r, q \in Runners :
       r # q /\ OnItsWay(r) /\ OnItsWay(q) => run[r].row # run[q].row
  /\ alive \cap marked = {}

InPlace == \A a \in Listed \cup Fresh, o \in remote : o[2] = a.key => o = Obj(a)

(***************************************************************************)
(* Which rows there are after a step.                                      *)
(***************************************************************************)
LEMMA ListedGrows ==
  ASSUME Inv, [Next]_vars
  PROVE  \/ Listed' \subseteq Listed
         \/ \E r \in Runners :
              /\ run[r].pc = "putReplied" /\ run'[r].pc = "idle"
              /\ \A q \in Runners \ {r} : run'[q] = run[q]
              /\ Listed' \subseteq Listed \cup {run[r].row}
<1> USE DEF Inv, TypeOK
<1>1. CASE \/ UNCHANGED vars
           \/ \E s \in Schedules, l \in Locs : CreateSchedule(s, l)
           \/ \E s \in Schedules, l \in Locs \cup {None} : EditSchedule(s, l)
           \/ \E old \in SUBSET Expirable : Retention(old)
  BY <1>1 DEF vars, CreateSchedule, EditSchedule, Retention, Listed, Deleting
<1>2. ASSUME NEW r \in Runners, NEW s \in Schedules, LoadJob(r, s)
      PROVE  Listed' \subseteq Listed
  <2>1. run'[r].pc = "loaded" /\ \A q \in Runners \ {r} : run'[q] = run[q]
    BY <1>2 DEF LoadJob, Job
  <2> QED BY <1>2, <2>1 DEF LoadJob, Listed, Deleting
<1>3. ASSUME NEW r \in Runners, NEW k \in Keys, PickPut(r, k)
      PROVE  Listed' \subseteq Listed
  <2>1. run'[r].pc = "put" /\ \A q \in Runners \ {r} : run'[q] = run[q]
    BY <1>3 DEF PickPut, Job
  <2> QED BY <1>3, <2>1 DEF PickPut, Listed, Deleting
<1>4. ASSUME NEW r \in Runners, NEW row \in alive, PickDelete(r, row)
      PROVE  Listed' \subseteq Listed
  <2>1. run'[r].row = row /\ \A q \in Runners \ {r} : run'[q] = run[q]
    BY <1>4 DEF PickDelete, Job
  <2> QED BY <1>4, <2>1 DEF PickDelete, Listed, Deleting
<1>5. ASSUME NEW r \in Runners, ReadOnly(r)
      PROVE  Listed' \subseteq Listed
  <2>1. run'[r].pc = "idle" /\ \A q \in Runners \ {r} : run'[q] = run[q]
    BY <1>5 DEF ReadOnly, IdleJob
  <2> QED BY <1>5, <2>1 DEF ReadOnly, Listed, Deleting
<1>6. ASSUME NEW r \in Runners, NEW reply \in JobReplies, CallPut(r, reply)
      PROVE  Listed' \subseteq Listed
  <2>1. run'[r].pc = "putReplied" /\ \A q \in Runners \ {r} : run'[q] = run[q]
    BY <1>6 DEF CallPut, Job
  <2> QED BY <1>6, <2>1 DEF CallPut, Listed, Deleting
<1>7. ASSUME NEW r \in Runners, NEW reply \in JobReplies, CallDelete(r, reply)
      PROVE  Listed' \subseteq Listed
  <2>1. /\ run[r].pc = "delete" /\ run'[r].row = run[r].row
        /\ \A q \in Runners \ {r} : run'[q] = run[q]
    BY <1>7 DEF CallDelete, Job
  <2> QED BY <1>7, <2>1 DEF CallDelete, Listed, Deleting
<1>8. ASSUME NEW r \in Runners, RecordPut(r)
      PROVE  /\ run[r].pc = "putReplied" /\ run'[r].pc = "idle"
             /\ \A q \in Runners \ {r} : run'[q] = run[q]
             /\ Listed' \subseteq Listed \cup {run[r].row}
  <2>1. /\ run[r].pc = "putReplied" /\ run'[r].pc = "idle"
        /\ \A q \in Runners \ {r} : run'[q] = run[q]
    BY <1>8 DEF RecordPut, IdleJob
  <2> QED BY <1>8, <2>1 DEF RecordPut, Listed, Deleting
<1>9. ASSUME NEW r \in Runners, RecordDelete(r)
      PROVE  Listed' \subseteq Listed
  <2>1. run'[r].pc = "idle" /\ \A q \in Runners \ {r} : run'[q] = run[q]
    BY <1>9 DEF RecordDelete, IdleJob
  <2>2. alive' \cup marked' \subseteq alive \cup marked
    BY <1>9 DEF RecordDelete, MarkDeleted
  <2> QED BY <1>9, <2>1, <2>2 DEF RecordDelete, Listed, Deleting
<1>10. ASSUME NEW p \in Purgers, NEW s \in Schedules,
              BeginPurge(p, s) \/ \E withPurge \in BOOLEAN : BeginDelete(p, s, withPurge)
       PROVE  Listed' \subseteq Listed
  <2>1. /\ purge'[p].todo \subseteq alive /\ purge'[p].pc = "working"
        /\ \A q \in Purgers \ {p} : purge'[q] = purge[q]
        /\ UNCHANGED <<alive, marked, run>>
    <3>1. CASE BeginPurge(p, s)
      BY <3>1 DEF BeginPurge, PurgeRequest, AliveOf
    <3>2. ASSUME NEW withPurge \in BOOLEAN, BeginDelete(p, s, withPurge)
          PROVE  <2>1!:
      BY <3>2 DEF BeginDelete, PurgeRequest, AliveOf
    <3> QED BY <1>10, <3>1, <3>2
  <2> QED BY <2>1 DEF Listed, Deleting
<1>11. ASSUME NEW p \in Purgers, NEW row \in purge[p].todo, NEW reply \in Replies,
              PurgeCall(p, row, reply)
       PROVE  Listed' \subseteq Listed
  <2>1. /\ purge'[p].todo = purge[p].todo /\ purge'[p].row = row
        /\ \A q \in Purgers \ {p} : purge'[q] = purge[q]
        /\ UNCHANGED <<alive, marked, run>>
    BY <1>11 DEF PurgeCall, PurgeRequest
  <2> QED BY <2>1 DEF Listed, Deleting
<1>12. ASSUME NEW p \in Purgers, PurgeRecord(p) \/ FinishPurge(p)
       PROVE  Listed' \subseteq Listed
  <2>1. /\ purge'[p].todo \subseteq purge[p].todo /\ purge'[p].pc # "replied"
        /\ \A q \in Purgers \ {p} : purge'[q] = purge[q]
        /\ alive' \cup marked' \subseteq alive \cup marked /\ run' = run
    <3>1. CASE PurgeRecord(p)
      BY <3>1 DEF PurgeRecord, MarkDeleted, AfterReply, IdlePurge, PurgeRequest
    <3>2. CASE FinishPurge(p)
      BY <3>2 DEF FinishPurge, IdlePurge, PurgeRequest
    <3> QED BY <1>12, <3>1, <3>2
  <2> QED BY <2>1 DEF Listed, Deleting
<1>13. CASE Crash
  BY <1>13 DEF Crash, IdleJob, IdlePurge, Listed, Deleting
<1> QED
  BY <1>1, <1>2, <1>3, <1>4, <1>5, <1>6, <1>7, <1>8, <1>9, <1>10, <1>11, <1>12, <1>13,
     NextCases

(***************************************************************************)
(* A PUT starts with a key that no row and no object has; otherwise no     *)
(* job gets a PUT on its way that had none.                                *)
(***************************************************************************)
LEMMA OthersStay ==
  ASSUME Inv, [Next]_vars, ~ \E r \in Runners, k \in Keys : PickPut(r, k)
  PROVE  \A r \in Runners : OnItsWay(r)' => OnItsWay(r) /\ run'[r].row = run[r].row
<1> DEFINE Goal == \A r \in Runners : OnItsWay(r)' => OnItsWay(r) /\ run'[r].row = run[r].row
<1> USE DEF Inv, TypeOK, OnItsWay
<1>1. CASE UNCHANGED run
  BY <1>1
<1>2. ASSUME NEW r \in Runners, NEW s \in Schedules, LoadJob(r, s)
      PROVE  Goal
  BY <1>2 DEF LoadJob, Job
<1>3. ASSUME NEW r \in Runners, NEW row \in alive, PickDelete(r, row)
      PROVE  Goal
  BY <1>3 DEF PickDelete, Job
<1>4. ASSUME NEW r \in Runners, ReadOnly(r) \/ RecordPut(r) \/ RecordDelete(r)
      PROVE  Goal
  BY <1>4 DEF ReadOnly, RecordPut, RecordDelete, IdleJob
<1>5. ASSUME NEW r \in Runners, NEW reply \in JobReplies,
             CallPut(r, reply) \/ CallDelete(r, reply)
      PROVE  Goal
  <2>1. CASE CallPut(r, reply)
    BY <2>1 DEF CallPut, Job
  <2>2. CASE CallDelete(r, reply)
    BY <2>2 DEF CallDelete, Job
  <2> QED BY <1>5, <2>1, <2>2
<1>6. CASE Crash
  BY <1>6 DEF Crash, IdleJob
<1> QED
  BY <1>1, <1>2, <1>3, <1>4, <1>5, <1>6, NextCases
  DEF vars, CreateSchedule, EditSchedule, BeginPurge, BeginDelete, PurgeCall,
      PurgeRecord, FinishPurge, Retention

LEMMA KnownOwned ==
  ASSUME Inv
  PROVE  \A a \in Listed \cup Fresh : a \in Row /\ a.key \in used
<1>1. Fresh \subseteq Row /\ \A a \in Fresh : a.key \in used
  BY DEF Inv, JobShape, RowsOwned, Fresh, OnItsWay
<1>2. ASSUME NEW a \in Listed
      PROVE  a.key \in used
  BY <1>2 DEF Inv, RowsOwned, Listed, Deleting
<1>3. Listed \subseteq Row
  BY DEF Listed
<1> QED BY <1>1, <1>2, <1>3

LEMMA NewKey ==
  ASSUME Inv, NEW r \in Runners, NEW k \in Keys, PickPut(r, k)
  PROVE  /\ run'[r].row.key = k /\ run'[r].pc = "put" /\ run[r].pc = "loaded"
         /\ \A q \in Runners \ {r} : run'[q] = run[q]
         /\ UNCHANGED <<remote, alive, marked, purge>>
         /\ \A a \in Listed \cup Fresh : a.key # k
         /\ \A o \in remote : o[2] # k
<1>1. /\ run'[r].row.key = k /\ run'[r].pc = "put" /\ run[r].pc = "loaded"
      /\ \A q \in Runners \ {r} : run'[q] = run[q]
      /\ UNCHANGED <<remote, alive, marked, purge>>
  BY DEF PickPut, Inv, TypeOK, Job
<1>2. k \notin used /\ \A l \in Locs : <<l, k>> \notin UserObjects
  BY DEF PickPut, FreshKey
<1>3. \A o \in remote : o[2] # k
  <2> SUFFICES ASSUME NEW o \in remote, o[2] = k PROVE FALSE
    OBVIOUS
  <2>1. o \in UserObjects
    BY <1>2 DEF Inv, KeysOwned
  <2>2. o \in Objects
    BY DEF Inv, TypeOK
  <2>3. PICK l \in Locs, j \in Keys : o = <<l, j>>
    BY <2>2 DEF Objects
  <2> QED BY <1>2, <2>1, <2>3
<1> QED BY <1>1, <1>2, <1>3, KnownOwned

LEMMA DistinctStep ==
  ASSUME Inv, RowsDistinct, [Next]_vars
  PROVE  RowsDistinct'
<1>1. alive' \cap marked' = {}
  <2>1. CASE \E r \in Runners : RecordPut(r)
    <3>1. PICK r \in Runners : RecordPut(r)
      BY <2>1
    <3>2. run[r].row \notin marked
      BY SMTT(60), <3>1 DEF RecordPut, RowsDistinct, OnItsWay, Listed, Inv, JobShape
    <3> QED BY <3>1, <3>2 DEF RecordPut, RowsDistinct
  <2>2. CASE ~ \E r \in Runners : RecordPut(r)
    BY <2>2, NextCases
    DEF RowsDistinct, vars, CreateSchedule, EditSchedule, LoadJob, PickPut, PickDelete,
        ReadOnly, CallPut, CallDelete, RecordDelete, BeginPurge, BeginDelete, PurgeCall,
        PurgeRecord, FinishPurge, Retention, Crash, MarkDeleted
  <2> QED BY <2>1, <2>2
<1>2. ASSUME NEW r \in Runners, NEW k \in Keys, PickPut(r, k)
      PROVE  RowsDistinct'
  <2>1. Listed' \subseteq Listed
    BY <1>2, NewKey, ListedGrows
  <2>2. Fresh' \subseteq Fresh \cup {run'[r].row}
    BY <1>2, NewKey DEF Fresh, OnItsWay
  <2>3. \A a, b \in Listed' \cup Fresh' : a.key = b.key => a = b
    BY <1>2, <2>1, <2>2, NewKey DEF RowsDistinct
  <2>4. \A q \in Runners : OnItsWay(q)' => run'[q].row \notin Listed'
    BY <1>2, <2>1, NewKey DEF RowsDistinct, OnItsWay
  <2>5. \A q \in Runners \ {r} : OnItsWay(q)' => run'[q].row \in Fresh
    BY <1>2, NewKey DEF OnItsWay, Fresh
  <2>6. \A p, q \in Runners :
          p # q /\ OnItsWay(p)' /\ OnItsWay(q)' => run'[p].row # run'[q].row
    BY <1>2, <2>5, NewKey DEF RowsDistinct, OnItsWay
  <2> QED BY <1>1, <2>3, <2>4, <2>6 DEF RowsDistinct
<1>3. CASE ~ \E r \in Runners, k \in Keys : PickPut(r, k)
  <2>1. \A r \in Runners : OnItsWay(r)' => OnItsWay(r) /\ run'[r].row = run[r].row
    BY <1>3, OthersStay
  <2>2. Fresh' \subseteq Fresh
    BY <2>1 DEF Fresh
  <2>3. Listed' \subseteq Listed \cup Fresh
    BY ListedGrows DEF Fresh, OnItsWay
  <2>4. \A r \in Runners : OnItsWay(r)' => run'[r].row \notin Listed'
    <3>1. CASE Listed' \subseteq Listed
      BY <2>1, <3>1 DEF RowsDistinct
    <3>2. ASSUME NEW q \in Runners, run[q].pc = "putReplied", run'[q].pc = "idle",
                 Listed' \subseteq Listed \cup {run[q].row}
          PROVE  \A r \in Runners : OnItsWay(r)' => run'[r].row \notin Listed'
      BY <2>1, <3>2 DEF RowsDistinct, OnItsWay
    <3> QED BY <3>1, <3>2, ListedGrows
  <2> QED BY <1>1, <2>1, <2>2, <2>3, <2>4 DEF RowsDistinct
<1> QED BY <1>2, <1>3

(***************************************************************************)
(* What a step does to the buckets, told by the rows it is about.          *)
(***************************************************************************)
LEMMA RemoteStep ==
  ASSUME Inv, [Next]_vars
  PROVE  \/ remote' = remote
         \/ \E r \in Runners :
              run[r].pc = "put" /\ run'[r].pc = "putReplied" /\ remote' = remote \cup {Obj(run[r].row)}
         \/ \E l \in Locs, a \in Listed : remote' = remote \ {<<l, a.key>>}
<1> DEFINE Goal ==
      \/ remote' = remote
      \/ \E r \in Runners :
           run[r].pc = "put" /\ run'[r].pc = "putReplied" /\ remote' = remote \cup {Obj(run[r].row)}
      \/ \E l \in Locs, a \in Listed : remote' = remote \ {<<l, a.key>>}
<1>1. CASE UNCHANGED remote
  BY <1>1
<1>2. ASSUME NEW r \in Runners, NEW reply \in JobReplies, CallPut(r, reply)
      PROVE  Goal
  BY <1>2 DEF CallPut, ServerPut, Inv, TypeOK, Job
<1>3. ASSUME NEW r \in Runners, NEW reply \in JobReplies, CallDelete(r, reply)
      PROVE  Goal
  <2>1. /\ run[r].loc \in Locs /\ run[r].row \in Listed
        /\ DeleteCall(r) = <<run[r].loc, run[r].row.key>>
    BY <1>3 DEF CallDelete, DeleteCall, Inv, JobShape, Listed, Deleting
  <2> QED BY <1>3, <2>1 DEF CallDelete, ServerDelete
<1>4. ASSUME NEW p \in Purgers, NEW row \in purge[p].todo, NEW reply \in Replies,
             PurgeCall(p, row, reply)
      PROVE  Goal
  <2>1. row \in Row
    BY DEF Inv, TypeOK, PurgeRequest
  <2>2. row \in Listed /\ row.loc \in Locs /\ Obj(row) = <<row.loc, row.key>>
    BY <2>1 DEF Listed, Row, Obj
  <2> QED BY <1>4, <2>2 DEF PurgeCall, ServerDelete
<1> QED
  BY <1>1, <1>2, <1>3, <1>4, NextCases
  DEF vars, CreateSchedule, EditSchedule, LoadJob, PickPut, PickDelete, ReadOnly,
      RecordPut, RecordDelete, BeginPurge, BeginDelete, PurgeRecord, FinishPurge,
      Retention, Crash

LEMMA InPlaceStep ==
  ASSUME Inv, RowsDistinct, InPlace, [Next]_vars
  PROVE  InPlace'
<1>1. ASSUME NEW r \in Runners, NEW k \in Keys, PickPut(r, k)
      PROVE  InPlace'
  <2>1. Listed' \subseteq Listed /\ Fresh' \subseteq Fresh \cup {run'[r].row}
    BY <1>1, NewKey, ListedGrows DEF Fresh, OnItsWay
  <2>2. \A a \in Listed' \cup Fresh', o \in remote' : o[2] = a.key => o = Obj(a)
    BY <1>1, <2>1, NewKey DEF InPlace
  <2> QED BY <2>2 DEF InPlace, Obj
<1>2. CASE ~ \E r \in Runners, k \in Keys : PickPut(r, k)
  <2>1. Listed' \cup Fresh' \subseteq Listed \cup Fresh
    BY <1>2, OthersStay, ListedGrows DEF Fresh, OnItsWay
  <2>2. ASSUME NEW r \in Runners, run[r].pc = "put"
        PROVE  \A a \in Listed \cup Fresh : Obj(run[r].row)[2] = a.key => Obj(run[r].row) = Obj(a)
    <3>1. run[r].row \in Fresh /\ Obj(run[r].row)[2] = run[r].row.key
      BY <2>2 DEF Fresh, OnItsWay, Obj
    <3> QED BY <3>1 DEF RowsDistinct
  <2>3. \A a \in Listed' \cup Fresh', o \in remote' : o[2] = a.key => o = Obj(a)
    BY <2>1, <2>2, RemoteStep DEF InPlace
  <2> QED BY <2>3 DEF InPlace, Obj
<1> QED BY <1>1, <1>2

-----------------------------------------------------------------------------
(* What a thread has learned of an object, and has yet to record.          *)

Witnessed ==
  /\ \A r \in Runners :
       /\ run[r].pc = "put" => Obj(run[r].row) \notin remote
       /\ run[r].pc \in {"putReplied", "deleteReplied"} => run[r].reply \in JobReplies
       /\ run[r].pc = "putReplied" /\ run[r].reply = "ok" => Obj(run[r].row) \in remote
       /\ run[r].pc = "putReplied" /\ run[r].reply = "refused" => Obj(run[r].row) \notin remote
       /\ /\ run[r].pc = "deleteReplied" /\ run[r].reply = "ok"
          /\ DeleteCall(r) = Obj(run[r].row)
          => Obj(run[r].row) \notin remote
  /\ \A p \in Purgers :
       purge[p].pc = "replied" /\ purge[p].reply \in {"ok", "notfound"}
         => Obj(purge[p].row) \notin remote

(* Nobody else stores or removes the object of a PUT on its way.           *)
LEMMA PutsKept ==
  ASSUME Inv, RowsDistinct, [Next]_vars,
         NEW r \in Runners, OnItsWay(r), run'[r] = run[r]
  PROVE  Obj(run[r].row) \in remote' <=> Obj(run[r].row) \in remote
<1>1. run[r].row \in Fresh /\ run[r].row \notin Listed
  BY DEF Fresh, RowsDistinct
<1>2. ASSUME NEW q \in Runners, run[q].pc = "put", run'[q].pc = "putReplied"
      PROVE  Obj(run[q].row) # Obj(run[r].row)
  <2>1. q # r /\ OnItsWay(q) /\ run[q].row \in Fresh
    BY <1>2 DEF OnItsWay, Fresh
  <2>2. run[q].row.key # run[r].row.key
    BY <1>1, <2>1 DEF RowsDistinct
  <2> QED BY <2>2 DEF Obj
<1>3. \A l \in Locs, a \in Listed : <<l, a.key>> # Obj(run[r].row)
  BY <1>1 DEF RowsDistinct, Obj
<1> QED BY <1>2, <1>3, RemoteStep

(* Nobody stores the object of a row again.                                *)
LEMMA GoneStays ==
  ASSUME Inv, RowsDistinct, [Next]_vars, NEW a \in Listed, Obj(a) \notin remote
  PROVE  Obj(a) \notin remote'
<1>1. ASSUME NEW q \in Runners, run[q].pc = "put"
      PROVE  Obj(run[q].row) # Obj(a)
  <2>1. run[q].row \in Fresh /\ run[q].row \notin Listed
    BY <1>1 DEF RowsDistinct, OnItsWay, Fresh
  <2> QED BY <2>1 DEF RowsDistinct, Obj
<1> QED BY <1>1, RemoteStep

(* How a thread gets to where it has something to record.                  *)
LEMMA JobArrivals ==
  ASSUME Inv, [Next]_vars, NEW r \in Runners
  PROVE  \/ run'[r].pc \notin {"put", "putReplied", "deleteReplied"}
         \/ run'[r] = run[r]
         \/ \E k \in Keys : PickPut(r, k)
         \/ \E reply \in JobReplies : CallPut(r, reply) \/ CallDelete(r, reply)
<1> DEFINE Goal ==
      \/ run'[r].pc \notin {"put", "putReplied", "deleteReplied"}
      \/ run'[r] = run[r]
      \/ \E k \in Keys : PickPut(r, k)
      \/ \E reply \in JobReplies : CallPut(r, reply) \/ CallDelete(r, reply)
<1>1. CASE UNCHANGED run
  BY <1>1
<1>2. ASSUME NEW q \in Runners, NEW s \in Schedules, LoadJob(q, s)
      PROVE  Goal
  BY <1>2 DEF LoadJob, Job, Inv, TypeOK
<1>3. ASSUME NEW q \in Runners, NEW row \in alive, PickDelete(q, row)
      PROVE  Goal
  BY <1>3 DEF PickDelete, Job, Inv, TypeOK
<1>4. ASSUME NEW q \in Runners, ReadOnly(q) \/ RecordPut(q) \/ RecordDelete(q)
      PROVE  Goal
  BY <1>4 DEF ReadOnly, RecordPut, RecordDelete, IdleJob, Inv, TypeOK
<1>5. ASSUME NEW q \in Runners, NEW k \in Keys, PickPut(q, k)
      PROVE  Goal
  <2>1. q = r \/ run'[r] = run[r]
    BY <1>5 DEF PickPut, Inv, TypeOK
  <2> QED BY <1>5, <2>1
<1>6. ASSUME NEW q \in Runners, NEW reply \in JobReplies,
             CallPut(q, reply) \/ CallDelete(q, reply)
      PROVE  Goal
  <2>1. q = r \/ run'[r] = run[r]
    BY <1>6 DEF CallPut, CallDelete, Inv, TypeOK
  <2> QED BY <1>6, <2>1
<1>7. CASE Crash
  BY <1>7 DEF Crash, IdleJob
<1> QED
  BY <1>1, <1>2, <1>3, <1>4, <1>5, <1>6, <1>7, NextCases
  DEF vars, CreateSchedule, EditSchedule, BeginPurge, BeginDelete, PurgeCall,
      PurgeRecord, FinishPurge, Retention

LEMMA PurgeArrivals ==
  ASSUME Inv, [Next]_vars, NEW p \in Purgers
  PROVE  \/ purge'[p].pc # "replied"
         \/ purge'[p] = purge[p]
         \/ \E row \in purge[p].todo, reply \in Replies : PurgeCall(p, row, reply)
<1> DEFINE Goal ==
      \/ purge'[p].pc # "replied"
      \/ purge'[p] = purge[p]
      \/ \E row \in purge[p].todo, reply \in Replies : PurgeCall(p, row, reply)
<1>1. CASE UNCHANGED purge
  BY <1>1
<1>2. ASSUME NEW q \in Purgers, NEW s \in Schedules, BeginPurge(q, s)
      PROVE  Goal
  BY <1>2 DEF BeginPurge, PurgeRequest, Inv, TypeOK
<1>3. ASSUME NEW q \in Purgers, NEW s \in Schedules, NEW withPurge \in BOOLEAN,
             BeginDelete(q, s, withPurge)
      PROVE  Goal
  BY <1>3 DEF BeginDelete, PurgeRequest, Inv, TypeOK
<1>4. ASSUME NEW q \in Purgers, NEW row \in purge[q].todo, NEW reply \in Replies,
             PurgeCall(q, row, reply)
      PROVE  Goal
  <2>1. q = p \/ purge'[p] = purge[p]
    BY <1>4 DEF PurgeCall, Inv, TypeOK
  <2> QED BY <1>4, <2>1
<1>5. ASSUME NEW q \in Purgers, PurgeRecord(q)
      PROVE  Goal
  BY <1>5 DEF PurgeRecord, AfterReply, IdlePurge, PurgeRequest, Inv, TypeOK
<1>6. ASSUME NEW q \in Purgers, FinishPurge(q)
      PROVE  Goal
  BY <1>6 DEF FinishPurge, IdlePurge, PurgeRequest, Inv, TypeOK
<1>7. CASE Crash
  BY <1>7 DEF Crash, IdlePurge
<1> QED
  BY <1>1, <1>2, <1>3, <1>4, <1>5, <1>6, <1>7, NextCases
  DEF vars, CreateSchedule, EditSchedule, LoadJob, PickPut, PickDelete, ReadOnly, CallPut,
      CallDelete, RecordPut, RecordDelete, Retention

LEMMA WitnessedStep ==
  ASSUME Inv, RowsDistinct, InPlace, Witnessed, [Next]_vars
  PROVE  Witnessed'
<1> DEFINE ForJob(r) ==
       /\ run'[r].pc = "put" => Obj(run'[r].row) \notin remote'
       /\ run'[r].pc \in {"putReplied", "deleteReplied"} => run'[r].reply \in JobReplies
       /\ run'[r].pc = "putReplied" /\ run'[r].reply = "ok" => Obj(run'[r].row) \in remote'
       /\ run'[r].pc = "putReplied" /\ run'[r].reply = "refused" => Obj(run'[r].row) \notin remote'
       /\ /\ run'[r].pc = "deleteReplied" /\ run'[r].reply = "ok"
          /\ <<run'[r].loc, run'[r].row.key>> = Obj(run'[r].row)
          => Obj(run'[r].row) \notin remote'
<1>1. ASSUME NEW r \in Runners
      PROVE  ForJob(r)
  <2>1. CASE run'[r].pc \notin {"put", "putReplied", "deleteReplied"}
    BY <2>1
  <2>2. CASE run'[r] = run[r]
    <3>1. CASE OnItsWay(r)
      BY <2>2, <3>1, PutsKept DEF Witnessed, OnItsWay
    <3>2. CASE run[r].pc = "deleteReplied"
      <4>1. run[r].row \in Listed
        BY <3>2 DEF Listed, Deleting, Inv, JobShape
      <4> QED BY <2>2, <3>2, <4>1, GoneStays DEF Witnessed, DeleteCall
    <3>3. CASE run[r].pc \notin {"put", "putReplied", "deleteReplied"}
      BY <2>2, <3>3
    <3> QED BY <3>1, <3>2, <3>3 DEF OnItsWay
  <2>3. ASSUME NEW k \in Keys, PickPut(r, k)
        PROVE  ForJob(r)
    BY <2>3, NewKey DEF Obj
  <2>4. ASSUME NEW reply \in JobReplies, CallPut(r, reply)
        PROVE  ForJob(r)
    <3>1. /\ run[r].pc = "put" /\ run'[r].pc = "putReplied" /\ run'[r].reply = reply
          /\ run'[r].row = run[r].row
      BY <2>4 DEF CallPut, Inv, TypeOK, Job
    <3>2. Obj(run[r].row) \notin remote
      BY <3>1 DEF Witnessed
    <3> QED BY <2>4, <3>1, <3>2 DEF CallPut, ServerPut, Inconclusive
  <2>5. ASSUME NEW reply \in JobReplies, CallDelete(r, reply)
        PROVE  ForJob(r)
    <3>1. /\ run[r].pc = "delete" /\ run'[r].pc = "deleteReplied" /\ run'[r].reply = reply
          /\ run'[r].row = run[r].row /\ run'[r].loc = run[r].loc
      BY <2>5 DEF CallDelete, Inv, TypeOK, Job
    <3> QED BY <2>5, <3>1 DEF CallDelete, ServerDelete, DeleteCall
  <2> QED BY <2>1, <2>2, <2>3, <2>4, <2>5, JobArrivals
<1>2. ASSUME NEW p \in Purgers
      PROVE  purge'[p].pc = "replied" /\ purge'[p].reply \in {"ok", "notfound"}
               => Obj(purge'[p].row) \notin remote'
  <2>1. CASE purge'[p] = purge[p]
    <3>1. CASE purge[p].pc = "replied"
      <4>1. purge[p].row \in Listed
        BY <3>1 DEF Listed, Inv, JobShape
      <4> QED BY <2>1, <4>1, GoneStays DEF Witnessed
    <3> QED BY <2>1, <3>1
  <2>2. ASSUME NEW row \in purge[p].todo, NEW reply \in Replies, PurgeCall(p, row, reply)
        PROVE  purge'[p].pc = "replied" /\ purge'[p].reply \in {"ok", "notfound"}
                 => Obj(purge'[p].row) \notin remote'
    <3>1. purge'[p].row = row /\ purge'[p].reply = reply
      BY <2>2 DEF PurgeCall, Inv, TypeOK, PurgeRequest
    <3> QED BY <2>2, <3>1 DEF PurgeCall, ServerDelete
  <2> QED BY <2>1, <2>2, PurgeArrivals
<1> QED BY <1>1, <1>2 DEF Witnessed, Obj, DeleteCall

-----------------------------------------------------------------------------
(* The ledger, tightened: a refused call has changed nothing, so its       *)
(* object is already in order.                                             *)

Acted ==
  {o \in Objects :
     \/ \E r \in Runners :
          /\ run[r].pc \in {"putReplied", "deleteReplied"} /\ run[r].reply # "refused"
          /\ o = Obj(run[r].row)
     \/ \E p \in Purgers :
          /\ purge[p].pc = "replied" /\ purge[p].reply # "refused"
          /\ o = Obj(purge[p].row)}

InOrder(o) == o \in remote <=> \E row \in alive : Obj(row) = o

Settled == \A o \in Objects \ (UserObjects \cup gap \cup Acted) : InOrder(o)

LEMMA SettledIsExact == ASSUME Settled PROVE LedgerExact
<1>1. Acted \subseteq Unrecorded
  BY DEF Acted, Unrecorded
<1> QED BY <1>1 DEF Settled, InOrder, LedgerExact

LEMMA JobDepartures ==
  ASSUME Inv, [Next]_vars, NEW r \in Runners, run[r].pc \in {"putReplied", "deleteReplied"}
  PROVE  run'[r] = run[r] \/ RecordPut(r) \/ RecordDelete(r) \/ Crash
<1> DEFINE Goal == run'[r] = run[r] \/ RecordPut(r) \/ RecordDelete(r) \/ Crash
<1>1. ASSUME NEW q \in Runners, NEW s \in Schedules, LoadJob(q, s)
      PROVE  Goal
  BY <1>1 DEF LoadJob, Inv, TypeOK
<1>2. ASSUME NEW q \in Runners, NEW k \in Keys, PickPut(q, k)
      PROVE  Goal
  BY <1>2 DEF PickPut, Inv, TypeOK
<1>3. ASSUME NEW q \in Runners, NEW row \in alive, PickDelete(q, row)
      PROVE  Goal
  BY <1>3 DEF PickDelete, Inv, TypeOK
<1>4. ASSUME NEW q \in Runners, ReadOnly(q)
      PROVE  Goal
  BY <1>4 DEF ReadOnly, Inv, TypeOK
<1>5. ASSUME NEW q \in Runners, NEW reply \in JobReplies,
             CallPut(q, reply) \/ CallDelete(q, reply)
      PROVE  Goal
  BY <1>5 DEF CallPut, CallDelete, Inv, TypeOK
<1>6. ASSUME NEW q \in Runners, RecordPut(q) \/ RecordDelete(q)
      PROVE  Goal
  <2>1. q = r \/ run'[r] = run[r]
    BY <1>6 DEF RecordPut, RecordDelete, Inv, TypeOK
  <2> QED BY <1>6, <2>1
<1>7. CASE UNCHANGED run
  BY <1>7
<1> QED
  BY <1>1, <1>2, <1>3, <1>4, <1>5, <1>6, <1>7, NextCases
  DEF vars, CreateSchedule, EditSchedule, BeginPurge, BeginDelete, PurgeCall, PurgeRecord,
      FinishPurge, Retention

LEMMA PurgeDepartures ==
  ASSUME Inv, [Next]_vars, NEW p \in Purgers, purge[p].pc = "replied"
  PROVE  purge'[p] = purge[p] \/ PurgeRecord(p) \/ Crash
<1> DEFINE Goal == purge'[p] = purge[p] \/ PurgeRecord(p) \/ Crash
<1>1. ASSUME NEW q \in Purgers, NEW s \in Schedules, BeginPurge(q, s)
      PROVE  Goal
  BY <1>1 DEF BeginPurge, Inv, TypeOK
<1>2. ASSUME NEW q \in Purgers, NEW s \in Schedules, NEW withPurge \in BOOLEAN,
             BeginDelete(q, s, withPurge)
      PROVE  Goal
  BY <1>2 DEF BeginDelete, Inv, TypeOK
<1>3. ASSUME NEW q \in Purgers, NEW row \in purge[q].todo, NEW reply \in Replies,
             PurgeCall(q, row, reply)
      PROVE  Goal
  BY <1>3 DEF PurgeCall, Inv, TypeOK
<1>4. ASSUME NEW q \in Purgers, PurgeRecord(q)
      PROVE  Goal
  <2>1. q = p \/ purge'[p] = purge[p]
    BY <1>4 DEF PurgeRecord, Inv, TypeOK
  <2> QED BY <1>4, <2>1
<1>5. ASSUME NEW q \in Purgers, FinishPurge(q)
      PROVE  Goal
  BY <1>5 DEF FinishPurge, Inv, TypeOK
<1>6. CASE UNCHANGED purge
  BY <1>6
<1> QED
  BY <1>1, <1>2, <1>3, <1>4, <1>5, <1>6, NextCases
  DEF vars, CreateSchedule, EditSchedule, LoadJob, PickPut, PickDelete, ReadOnly, CallPut,
      CallDelete, RecordPut, RecordDelete, Retention

(* What was acted upon stays so until it is recorded, or the process dies. *)
LEMMA ActedStays ==
  ASSUME Inv, [Next]_vars, NEW o \in Acted, o \notin Acted'
  PROVE  \/ \E r \in Runners :
              /\ run[r].pc \in {"putReplied", "deleteReplied"} /\ run[r].reply # "refused"
              /\ o = Obj(run[r].row)
              /\ RecordPut(r) \/ RecordDelete(r)
         \/ \E p \in Purgers :
              /\ purge[p].pc = "replied" /\ purge[p].reply # "refused"
              /\ o = Obj(purge[p].row) /\ PurgeRecord(p)
         \/ Crash
<1>1. ASSUME NEW r \in Runners, run[r].pc \in {"putReplied", "deleteReplied"},
             run[r].reply # "refused", o = Obj(run[r].row)
      PROVE  RecordPut(r) \/ RecordDelete(r) \/ Crash
  <2>1. run'[r] # run[r]
    BY ZenonT(60), <1>1 DEF Acted, Obj
  <2> QED BY SMTT(60), <1>1, <2>1, JobDepartures
<1>2. ASSUME NEW p \in Purgers, purge[p].pc = "replied", purge[p].reply # "refused",
             o = Obj(purge[p].row)
      PROVE  PurgeRecord(p) \/ Crash
  <2>1. purge'[p] # purge[p]
    BY <1>2 DEF Acted, Obj
  <2> QED BY <1>2, <2>1, PurgeDepartures
<1> QED BY <1>1, <1>2 DEF Acted

(* The row of an object that is in nobody's hands is marked when, and only *)
(* when, the object is gone.                                               *)
LEMMA Recorded ==
  ASSUME Inv, RowsDistinct, Witnessed, [Next]_vars,
         NEW o \in Acted, o \notin Acted', o \notin gap'
  PROVE  InOrder(o)'
<1>1. ASSUME NEW a \in Listed, Obj(a) = o, Obj(a) \notin remote', a \notin alive',
             alive' \subseteq Listed
      PROVE  InOrder(o)'
  <2>1. \A b \in alive' : Obj(b) = o => b.key = a.key
    BY <1>1 DEF Obj
  <2>2. ~ \E b \in alive' : Obj(b) = o
    BY <1>1, <2>1 DEF RowsDistinct
  <2> QED BY <1>1, <2>2 DEF InOrder, Obj
<1>2. ASSUME NEW r \in Runners, run[r].pc = "putReplied", run[r].reply # "refused",
             o = Obj(run[r].row), RecordPut(r)
      PROVE  InOrder(o)'
  <2>1. run[r].reply = "ok"
    BY <1>2 DEF RecordPut, Witnessed, JobReplies, Inconclusive
  <2>2. o \in remote' /\ run[r].row \in alive'
    BY <1>2, <2>1 DEF RecordPut, Witnessed
  <2> QED BY <1>2, <2>2 DEF InOrder, Obj
<1>3. ASSUME NEW r \in Runners, run[r].pc = "deleteReplied", run[r].reply # "refused",
             o = Obj(run[r].row), RecordDelete(r)
      PROVE  InOrder(o)'
  <2>1. run[r].reply = "ok" /\ DeleteCall(r) = Obj(run[r].row)
    BY <1>3 DEF RecordDelete, Witnessed, JobReplies, Inconclusive
  <2>2. o \notin remote' /\ alive' = alive \ {run[r].row}
    BY <1>3, <2>1 DEF RecordDelete, Witnessed, MarkDeleted
  <2>3. run[r].row \in Listed /\ alive \subseteq Listed
    BY <1>3 DEF Listed, Deleting, Inv, JobShape, TypeOK
  <2> QED BY <1>1, <1>3, <2>2, <2>3
<1>4. ASSUME NEW p \in Purgers, purge[p].pc = "replied", purge[p].reply # "refused",
             o = Obj(purge[p].row), PurgeRecord(p)
      PROVE  InOrder(o)'
  <2>1. purge[p].reply \in Replies
    BY DEF Inv, TypeOK, PurgeRequest
  <2>2. purge[p].reply \in {"ok", "notfound"}
    BY <1>4, <2>1 DEF PurgeRecord, Replies, Inconclusive
  <2>3. o \notin remote' /\ alive' = alive \ {purge[p].row}
    BY <1>4, <2>2 DEF PurgeRecord, Witnessed, MarkDeleted, CountsAsPurged
  <2>4. purge[p].row \in Listed /\ alive \subseteq Listed
    BY <1>4 DEF Listed, Inv, JobShape, TypeOK
  <2> QED BY <1>1, <1>4, <2>3, <2>4
<1>5. ~Crash
  BY DEF Crash, Acted, Unrecorded
<1> QED BY <1>2, <1>3, <1>4, <1>5, ActedStays DEF RecordPut, RecordDelete

(* A step touches only what it acts upon.                                  *)
LEMMA Untouched ==
  ASSUME Inv, RowsDistinct, InPlace, [Next]_vars,
         NEW o \in Objects, o \notin Acted, o \notin Acted'
  PROVE  InOrder(o)' = InOrder(o)
<1> DEFINE SameRemote == o \in remote' <=> o \in remote
           SameRows == (\E row \in alive' : Obj(row) = o) <=> (\E row \in alive : Obj(row) = o)
<1>1. SameRemote
  <2>1. CASE UNCHANGED remote
    BY <2>1
  <2>2. ASSUME NEW r \in Runners, NEW reply \in JobReplies, CallPut(r, reply)
        PROVE  SameRemote
    <3>1. /\ run'[r].pc = "putReplied" /\ run'[r].reply = reply /\ run'[r].row = run[r].row
      BY <2>2 DEF CallPut, Inv, TypeOK, Job
    <3>2. reply = "refused" \/ o # Obj(run[r].row)
      BY <3>1 DEF Acted, Obj
    <3> QED BY <2>2, <3>2 DEF CallPut, ServerPut, Inconclusive
  <2>3. ASSUME NEW r \in Runners, NEW reply \in JobReplies, CallDelete(r, reply)
        PROVE  SameRemote
    <3>1. /\ run[r].pc = "delete" /\ run'[r].pc = "deleteReplied" /\ run'[r].reply = reply
          /\ run'[r].row = run[r].row /\ run[r].row \in Listed
      BY <2>3 DEF CallDelete, Inv, TypeOK, Job, JobShape, Listed, Deleting
    <3>2. reply = "refused" \/ o # Obj(run[r].row)
      BY <3>1 DEF Acted, Obj
    <3>3. o \in remote /\ o = DeleteCall(r) => o = Obj(run[r].row)
      BY <3>1 DEF InPlace, DeleteCall
    <3> QED BY <2>3, <3>2, <3>3 DEF CallDelete, ServerDelete, Inconclusive
  <2>4. ASSUME NEW p \in Purgers, NEW row \in purge[p].todo, NEW reply \in Replies,
               PurgeCall(p, row, reply)
        PROVE  SameRemote
    <3>1. purge'[p].pc = "replied" /\ purge'[p].reply = reply /\ purge'[p].row = row
      BY <2>4 DEF PurgeCall, Inv, TypeOK, PurgeRequest
    <3>2. reply = "refused" \/ o # Obj(row)
      BY SMTT(60), <3>1 DEF Acted, Obj
    <3> QED BY <2>4, <3>2 DEF PurgeCall, ServerDelete, Inconclusive
  <2> QED
    BY <2>1, <2>2, <2>3, <2>4, NextCases
    DEF vars, CreateSchedule, EditSchedule, LoadJob, PickPut, PickDelete, ReadOnly,
        RecordPut, RecordDelete, BeginPurge, BeginDelete, PurgeRecord, FinishPurge,
        Retention, Crash
<1>2. SameRows
  <2>1. CASE UNCHANGED alive
    BY <2>1
  <2>2. ASSUME NEW r \in Runners, RecordPut(r)
        PROVE  SameRows
    <3>1. run[r].reply = "ok" => o # Obj(run[r].row)
      BY <2>2 DEF RecordPut, Acted
    <3> QED BY <2>2, <3>1 DEF RecordPut
  <2>3. ASSUME NEW r \in Runners, RecordDelete(r)
        PROVE  SameRows
    <3>1. run[r].reply = "ok" => o # Obj(run[r].row)
      BY <2>3 DEF RecordDelete, Acted
    <3> QED BY <2>3, <3>1 DEF RecordDelete, MarkDeleted
  <2>4. ASSUME NEW p \in Purgers, PurgeRecord(p)
        PROVE  SameRows
    <3>1. purge[p].reply # "refused" => o # Obj(purge[p].row)
      BY <2>4 DEF PurgeRecord, Acted
    <3> QED BY <2>4, <3>1 DEF PurgeRecord, MarkDeleted, CountsAsPurged
  <2>5. ASSUME NEW old \in SUBSET Expirable, Retention(old)
        PROVE  SameRows
    <3>1. alive' = alive
      BY SMTT(60), <2>5 DEF Retention, Expirable, RowsDistinct
    <3> QED BY <3>1
  <2> QED
    BY <2>1, <2>2, <2>3, <2>4, <2>5, NextCases
    DEF vars, CreateSchedule, EditSchedule, LoadJob, PickPut, PickDelete, ReadOnly, CallPut,
        CallDelete, BeginPurge, BeginDelete, PurgeCall, FinishPurge, Crash
<1> QED BY <1>1, <1>2 DEF InOrder, Obj

LEMMA GapGrows == ASSUME [Next]_vars PROVE gap \subseteq gap'
  BY NextCases
  DEF vars, CreateSchedule, EditSchedule, LoadJob, PickPut, PickDelete, ReadOnly, CallPut,
      CallDelete, RecordPut, RecordDelete, BeginPurge, BeginDelete, PurgeCall, PurgeRecord,
      FinishPurge, Retention, Crash

LEMMA SettledStep ==
  ASSUME Inv, RowsDistinct, InPlace, Witnessed, Settled, [Next]_vars
  PROVE  Settled'
<1>1. ASSUME NEW o \in Objects, o \notin UserObjects, o \notin gap', o \notin Acted'
      PROVE  InOrder(o)'
  <2>1. CASE o \in Acted
    BY <1>1, <2>1, Recorded
  <2>2. CASE o \notin Acted
    <3>1. InOrder(o)
      BY <1>1, <2>2, GapGrows DEF Settled
    <3> QED BY <1>1, <2>2, <3>1, Untouched
  <2> QED BY <2>1, <2>2
<1> QED BY <1>1 DEF Settled, InOrder, Obj

(***************************************************************************)
(* Rows are marked on the word of the bucket: the object is gone, and      *)
(* nobody brings it back while the row is there.                           *)
(***************************************************************************)
MarkedIsGone == \A row \in marked : Obj(row) \in remote => Obj(row) \in gap

(* Where the marked rows of a step come from.                              *)
LEMMA NewlyMarked ==
  ASSUME Inv, [Next]_vars, NEW row \in marked', row \notin marked
  PROVE  \/ \E r \in Runners :
              RecordDelete(r) /\ run[r].reply = "ok" /\ row = run[r].row
         \/ \E p \in Purgers :
              PurgeRecord(p) /\ CountsAsPurged(purge[p].reply) /\ row = purge[p].row
<1>1. ~UNCHANGED marked
  OBVIOUS
<1>2. ~ \E old \in SUBSET Expirable : Retention(old)
  BY DEF Retention
<1>3. \/ \E r \in Runners : RecordDelete(r)
      \/ \E p \in Purgers : PurgeRecord(p)
  BY <1>1, <1>2, NextCases
  DEF vars, CreateSchedule, EditSchedule, LoadJob, PickPut, PickDelete, ReadOnly, CallPut,
      CallDelete, RecordPut, BeginPurge, BeginDelete, PurgeCall, FinishPurge, Crash
<1>4. ASSUME NEW r \in Runners, RecordDelete(r)
      PROVE  run[r].reply = "ok" /\ row = run[r].row
  BY <1>4 DEF RecordDelete, MarkDeleted
<1>5. ASSUME NEW p \in Purgers, PurgeRecord(p)
      PROVE  CountsAsPurged(purge[p].reply) /\ row = purge[p].row
  BY <1>5 DEF PurgeRecord, MarkDeleted
<1> QED
  BY <1>3, <1>4, <1>5

LEMMA MarkedStep ==
  ASSUME Inv, RowsDistinct, Witnessed, MarkedIsGone, [Next]_vars
  PROVE  MarkedIsGone'
<1> SUFFICES ASSUME NEW row \in marked', Obj(row) \in remote', Obj(row) \notin gap'
             PROVE  FALSE
  BY DEF MarkedIsGone, Obj
<1>1. CASE row \in marked
  <2>1. row \in Listed /\ Obj(row) \notin remote
    BY <1>1, GapGrows DEF Listed, Inv, TypeOK, MarkedIsGone
  <2> QED
    BY <2>1, GoneStays
<1>2. ASSUME NEW r \in Runners, RecordDelete(r), run[r].reply = "ok", row = run[r].row
      PROVE  FALSE
  <2>1. DeleteCall(r) = Obj(run[r].row)
    BY <1>2 DEF RecordDelete
  <2>2. Obj(row) \notin remote /\ remote' = remote
    BY <1>2, <2>1 DEF RecordDelete, Witnessed
  <2> QED
    BY <2>2
<1>3. ASSUME NEW p \in Purgers, PurgeRecord(p), CountsAsPurged(purge[p].reply),
             row = purge[p].row
      PROVE  FALSE
  <2>1. purge[p].reply \in {"ok", "notfound"}
    BY <1>3 DEF PurgeRecord, CountsAsPurged, Inconclusive
  <2>2. Obj(row) \notin remote /\ remote' = remote
    BY <1>3, <2>1 DEF PurgeRecord, Witnessed
  <2> QED
    BY <2>2
<1> QED
  BY <1>1, <1>2, <1>3, NewlyMarked

(* Only the retention drops rows, and only marked ones.                    *)
LEMMA Dropped ==
  ASSUME Inv, [Next]_vars, NEW row \in (alive \cup marked) \ (alive' \cup marked')
  PROVE  row \in marked
<1>1. ASSUME NEW old \in SUBSET Expirable, Retention(old)
      PROVE  row \in marked
  BY <1>1 DEF Retention, Expirable
<1>2. CASE \/ \E r \in Runners : RecordPut(r) \/ RecordDelete(r)
           \/ \E p \in Purgers : PurgeRecord(p)
  BY <1>2 DEF RecordPut, RecordDelete, PurgeRecord, MarkDeleted
<1> QED
  BY <1>1, <1>2, NextCases
  DEF vars, CreateSchedule, EditSchedule, LoadJob, PickPut, PickDelete, ReadOnly, CallPut,
      CallDelete, BeginPurge, BeginDelete, PurgeCall, FinishPurge, Crash

-----------------------------------------------------------------------------
(* The theorems *)

LedgerInv == RowsDistinct /\ InPlace /\ Witnessed /\ Settled /\ MarkedIsGone

LEMMA LedgerInvariance == Spec => [](Inv /\ LedgerInv)
<1>1. Init => LedgerInv
  <2> SUFFICES ASSUME Init PROVE LedgerInv
    OBVIOUS
  <2>1. /\ Listed = {} /\ Fresh = {} /\ Acted = {} /\ remote = UserObjects /\ alive = {}
        /\ marked = {} /\ \A r \in Runners : run[r].pc = "idle"
        /\ \A p \in Purgers : purge[p].pc = "idle"
    BY DEF Init, Listed, Fresh, Acted, Deleting, OnItsWay, IdleJob, IdlePurge
  <2> QED
    BY <2>1 DEF LedgerInv, RowsDistinct, InPlace, Witnessed, Settled, InOrder, OnItsWay,
                MarkedIsGone
<1>2. Inv /\ LedgerInv /\ [Next]_vars => LedgerInv'
  BY DistinctStep, InPlaceStep, WitnessedStep, SettledStep, MarkedStep DEF LedgerInv
<1> QED
  BY <1>1, <1>2, Invariance, PTL DEF Spec

(***************************************************************************)
(* The ledger is exact but for the named gaps, for any number of jobs,     *)
(* purges, edits, crashes and passes of the retention.                     *)
(***************************************************************************)
THEOREM Ledger == Spec => []LedgerExact
<1>1. LedgerInv => LedgerExact
  BY SettledIsExact DEF LedgerInv
<1> QED
  BY <1>1, LedgerInvariance, PTL

(***************************************************************************)
(* No row is dropped while its object is there, but for the named gaps.    *)
(***************************************************************************)
THEOREM NothingLeaks == Spec => DroppedIsGone
<1>1. Inv /\ LedgerInv /\ [Next]_vars =>
        [\A row \in (alive \cup marked) \ (alive' \cup marked') :
           Obj(row) \in remote => Obj(row) \in gap]_vars
  BY Dropped DEF LedgerInv, MarkedIsGone
<1> QED
  BY <1>1, LedgerInvariance, PTL DEF Spec, DroppedIsGone
=============================================================================
