------------------------ MODULE TrackedObjectsProofs ------------------------
(***************************************************************************)
(* Proofs about TrackedObjects, for any number of schedules, buckets, keys *)
(* and threads.                                                            *)
(***************************************************************************)
EXTENDS TrackedObjects, FiniteSetTheorems, TLAPS

(***************************************************************************)
(* Every step is one of the seventeen handlers.  The proofs below split on *)
(* them.                                                                   *)
(***************************************************************************)
LEMMA NextCases ==
  ASSUME Next
  PROVE  \/ \E s \in Schedules, l \in Locs : CreateSchedule(s, l)
         \/ \E s \in Schedules, l \in Locs \cup {None} : EditSchedule(s, l)
         \/ \E r \in Runners, s \in Schedules : LoadJob(r, s)
         \/ \E r \in Runners, k \in Keys : PickPut(r, k)
         \/ \E r \in Runners, row \in alive : PickDelete(r, row)
         \/ \E r \in Runners : ReadOnly(r)
         \/ \E r \in Runners, reply \in JobReplies : CallPut(r, reply)
         \/ \E r \in Runners, reply \in JobReplies : CallDelete(r, reply)
         \/ \E r \in Runners : RecordPut(r)
         \/ \E r \in Runners : RecordDelete(r)
         \/ \E p \in Purgers, s \in Schedules : BeginPurge(p, s)
         \/ \E p \in Purgers, s \in Schedules, withPurge \in BOOLEAN :
              BeginDelete(p, s, withPurge)
         \/ \E p \in Purgers : \E row \in purge[p].todo, reply \in Replies :
              PurgeCall(p, row, reply)
         \/ \E p \in Purgers : PurgeRecord(p)
         \/ \E p \in Purgers : FinishPurge(p)
         \/ \E old \in SUBSET Expirable : Retention(old)
         \/ Crash
  BY DEF Next, RunnerStep, PurgerStep, PurgeWork, Deletable, AliveOf

(***************************************************************************)
(* What a job and a request look like after each kind of update, stated    *)
(* once so that the step proofs need not take the records apart.           *)
(***************************************************************************)
LEMMA JobUpdate ==
  ASSUME NEW j \in Job
  PROVE  /\ IdleJob \in Job
         /\ \A s \in Schedules, l \in Locs :
              [j EXCEPT !.pc = "loaded", !.sid = s, !.loc = l] \in Job
         /\ \A row \in Row : [j EXCEPT !.pc = "put", !.row = row] \in Job
         /\ \A row \in Row : [j EXCEPT !.pc = "delete", !.row = row] \in Job
         /\ \A reply \in JobReplies : [j EXCEPT !.pc = "putReplied", !.reply = reply] \in Job
         /\ \A reply \in JobReplies : [j EXCEPT !.pc = "deleteReplied", !.reply = reply] \in Job
  BY ZenonT(60) DEF Job, IdleJob, JobPhases, JobReplies, Replies

LEMMA PurgeUpdate ==
  ASSUME NEW q \in PurgeRequest
  PROVE  /\ IdlePurge \in PurgeRequest
         /\ \A s \in Schedules, rows \in SUBSET Row :
              /\ [q EXCEPT !.pc = "working", !.sid = s, !.todo = rows] \in PurgeRequest
              /\ [q EXCEPT !.pc = "working", !.sid = s, !.drop = TRUE, !.todo = rows]
                   \in PurgeRequest
         /\ \A row \in Row, reply \in Replies :
              [q EXCEPT !.pc = "replied", !.row = row, !.reply = reply] \in PurgeRequest
  BY DEF PurgeRequest, IdlePurge, Replies

LEMMA InitInv == Init => Inv
  BY TrackedAssumption
  DEF Init, Inv, TypeOK, JobShape, RowsOwned, KeysOwned, PutsDistinct, UserObjectsKept,
      IdleJob, IdlePurge, Job, PurgeRequest, JobPhases, Replies, Objects

(***************************************************************************)
(* Type correctness is kept by every step.                                 *)
(***************************************************************************)
LEMMA TypeStep ==
  ASSUME TypeOK, JobShape, [Next]_vars
  PROVE  TypeOK'
<1> USE DEF TypeOK
<1>1. CASE UNCHANGED vars
  BY <1>1 DEF vars
<1>2. CASE \E s \in Schedules, l \in Locs : CreateSchedule(s, l)
  BY <1>2 DEF CreateSchedule
<1>3. CASE \E s \in Schedules, l \in Locs \cup {None} : EditSchedule(s, l)
  BY <1>3 DEF EditSchedule
<1>4. ASSUME NEW r \in Runners, NEW s \in Schedules, LoadJob(r, s)
      PROVE  TypeOK'
  <2>1. target[s] \in Locs
    BY <1>4 DEF LoadJob, HasCredentials
  <2>2. [run[r] EXCEPT !.pc = "loaded", !.sid = s, !.loc = target[s]] \in Job
    BY <2>1, JobUpdate
  <2> QED BY <1>4, <2>2 DEF LoadJob
<1>5. ASSUME NEW r \in Runners, NEW k \in Keys, PickPut(r, k)
      PROVE  TypeOK'
  <2>1. [sid |-> run[r].sid, loc |-> run[r].loc, key |-> k] \in Row
    BY <1>5 DEF PickPut, JobShape, Row
  <2> QED BY <1>5, <2>1, JobUpdate DEF PickPut
<1>6. ASSUME NEW r \in Runners, NEW row \in alive, PickDelete(r, row)
      PROVE  TypeOK'
  <2>1. [run[r] EXCEPT !.pc = "delete", !.row = row] \in Job
    BY JobUpdate
  <2> QED BY <1>6, <2>1 DEF PickDelete
<1>7. CASE \E r \in Runners : ReadOnly(r)
  BY <1>7, JobUpdate DEF ReadOnly
<1>8. ASSUME NEW r \in Runners, NEW reply \in JobReplies, CallPut(r, reply)
      PROVE  TypeOK'
  <2>1. Obj(run[r].row) \in Objects
    BY <1>8 DEF CallPut, JobShape, Row, Obj, Objects
  <2>2. remote' \subseteq Objects
    BY <1>8, <2>1 DEF CallPut, ServerPut
  <2> QED BY <1>8, <2>2, JobUpdate DEF CallPut
<1>9. ASSUME NEW r \in Runners, NEW reply \in JobReplies, CallDelete(r, reply)
      PROVE  TypeOK'
  <2>1. [run[r] EXCEPT !.pc = "deleteReplied", !.reply = reply] \in Job
    BY JobUpdate
  <2>2. remote' \subseteq Objects
    BY <1>9 DEF CallDelete, ServerDelete
  <2> QED BY <1>9, <2>1, <2>2 DEF CallDelete
<1>10. ASSUME NEW r \in Runners, RecordPut(r)
       PROVE  TypeOK'
  <2>1. run[r].row \in Row /\ Obj(run[r].row) \in Objects
    BY <1>10 DEF RecordPut, JobShape, Row, Obj, Objects
  <2> QED BY <1>10, <2>1, JobUpdate DEF RecordPut
<1>11. ASSUME NEW r \in Runners, RecordDelete(r)
       PROVE  TypeOK'
  <2>1. run[r].row \in Row /\ Obj(run[r].row) \in Objects
    BY <1>11 DEF RecordDelete, JobShape, Row, Obj, Objects
  <2> QED BY <1>11, <2>1, JobUpdate DEF RecordDelete, MarkDeleted
<1>12. ASSUME NEW p \in Purgers, NEW s \in Schedules, BeginPurge(p, s)
       PROVE  TypeOK'
  <2>1. AliveOf(s) \subseteq Row
    BY DEF AliveOf
  <2>2. [purge[p] EXCEPT !.pc = "working", !.sid = s, !.todo = AliveOf(s)] \in PurgeRequest
    BY <2>1, PurgeUpdate
  <2> QED BY <1>12, <2>2 DEF BeginPurge
<1>13. ASSUME NEW p \in Purgers, NEW s \in Schedules, NEW withPurge \in BOOLEAN,
              BeginDelete(p, s, withPurge)
       PROVE  TypeOK'
  <2> DEFINE rows == IF withPurge /\ target[s] # None THEN AliveOf(s) ELSE {}
  <2>1. rows \subseteq Row
    BY DEF AliveOf
  <2> HIDE DEF rows
  <2>2. [purge[p] EXCEPT !.pc = "working", !.sid = s, !.drop = TRUE, !.todo = rows]
          \in PurgeRequest
    BY <2>1, PurgeUpdate
  <2>3. purge' = [purge EXCEPT ![p] = [purge[p] EXCEPT !.pc = "working", !.sid = s,
                                         !.drop = TRUE, !.todo = rows]]
    BY <1>13 DEF BeginDelete, rows
  <2> QED BY <1>13, <2>2, <2>3 DEF BeginDelete
<1>14. ASSUME NEW p \in Purgers, NEW row \in purge[p].todo, NEW reply \in Replies,
              PurgeCall(p, row, reply)
       PROVE  TypeOK'
  <2>1. row \in Row
    BY DEF PurgeRequest
  <2>2. [purge[p] EXCEPT !.pc = "replied", !.row = row, !.reply = reply] \in PurgeRequest
    BY <2>1, PurgeUpdate
  <2>3. remote' \subseteq Objects
    BY <1>14 DEF PurgeCall, ServerDelete
  <2> QED BY <1>14, <2>2, <2>3 DEF PurgeCall
<1>15. ASSUME NEW p \in Purgers, PurgeRecord(p)
       PROVE  TypeOK'
  <2>1. purge[p].row \in Row /\ Obj(purge[p].row) \in Objects
    BY <1>15 DEF PurgeRecord, JobShape, Row, Obj, Objects
  <2>2. AfterReply(p) \in PurgeRequest /\ IdlePurge \in PurgeRequest
    BY DEF AfterReply, IdlePurge, PurgeRequest, Replies
  <2> QED BY <1>15, <2>1, <2>2 DEF PurgeRecord, MarkDeleted
<1>16. CASE \E p \in Purgers : FinishPurge(p)
  BY <1>16 DEF FinishPurge, IdlePurge, PurgeRequest, Replies
<1>17. CASE \E old \in SUBSET Expirable : Retention(old)
  BY <1>17 DEF Retention
<1>18. CASE Crash
  <2>1. Unrecorded \subseteq Objects
    BY DEF Unrecorded, JobShape, Row, Obj, Objects
  <2>2. IdleJob \in Job /\ IdlePurge \in PurgeRequest
    BY DEF IdleJob, IdlePurge, Job, JobPhases, PurgeRequest, Replies
  <2> QED BY <1>18, <2>1, <2>2 DEF Crash
<1> QED
  BY <1>1, <1>2, <1>3, <1>4, <1>5, <1>6, <1>7, <1>8, <1>9, <1>10, <1>11, <1>12,
     <1>13, <1>14, <1>15, <1>16, <1>17, <1>18, NextCases

(***************************************************************************)
(* A thread past a phase holds that phase's data.                          *)
(***************************************************************************)
LEMMA ShapeStep ==
  ASSUME TypeOK, JobShape, [Next]_vars
  PROVE  JobShape'
<1> USE DEF TypeOK, JobShape
<1>1. CASE \/ UNCHANGED vars
           \/ \E s \in Schedules, l \in Locs : CreateSchedule(s, l)
           \/ \E s \in Schedules, l \in Locs \cup {None} : EditSchedule(s, l)
           \/ \E old \in SUBSET Expirable : Retention(old)
  BY <1>1 DEF vars, CreateSchedule, EditSchedule, Retention
<1>2. ASSUME NEW r \in Runners, NEW s \in Schedules, LoadJob(r, s)
      PROVE  JobShape'
  BY <1>2 DEF LoadJob, HasCredentials, Job
<1>3. ASSUME NEW r \in Runners, NEW k \in Keys, PickPut(r, k)
      PROVE  JobShape'
  BY <1>3 DEF PickPut, Job, Row
<1>4. ASSUME NEW r \in Runners, NEW row \in alive, PickDelete(r, row)
      PROVE  JobShape'
  BY <1>4 DEF PickDelete, Job
<1>5. ASSUME NEW r \in Runners, ReadOnly(r) \/ RecordPut(r) \/ RecordDelete(r)
      PROVE  JobShape'
  BY <1>5 DEF ReadOnly, RecordPut, RecordDelete, IdleJob
<1>6. ASSUME NEW r \in Runners, NEW reply \in JobReplies,
             CallPut(r, reply) \/ CallDelete(r, reply)
      PROVE  JobShape'
  <2>1. CASE CallPut(r, reply)
    BY <2>1 DEF CallPut, Job
  <2>2. CASE CallDelete(r, reply)
    BY <2>2 DEF CallDelete, Job
  <2> QED BY <1>6, <2>1, <2>2
<1>7. ASSUME NEW p \in Purgers, NEW s \in Schedules,
             BeginPurge(p, s) \/ \E withPurge \in BOOLEAN : BeginDelete(p, s, withPurge)
      PROVE  JobShape'
  <2>1. CASE BeginPurge(p, s)
    BY <2>1 DEF BeginPurge, PurgeRequest
  <2>2. ASSUME NEW withPurge \in BOOLEAN, BeginDelete(p, s, withPurge)
        PROVE  JobShape'
    BY <2>2 DEF BeginDelete, PurgeRequest
  <2> QED BY <1>7, <2>1, <2>2
<1>8. ASSUME NEW p \in Purgers, NEW row \in purge[p].todo, NEW reply \in Replies,
             PurgeCall(p, row, reply)
      PROVE  JobShape'
  BY <1>8 DEF PurgeCall, PurgeRequest
<1>9. ASSUME NEW p \in Purgers, PurgeRecord(p) \/ FinishPurge(p)
      PROVE  JobShape'
  <2>1. CASE PurgeRecord(p)
    <3>1. run' = run /\ purge' \in [Purgers -> PurgeRequest]
      BY <2>1, TypeStep DEF PurgeRecord
    <3>2. \A q \in Purgers \ {p} : purge'[q] = purge[q]
      BY <2>1 DEF PurgeRecord
    <3>3. purge'[p].pc # "replied"
          /\ (purge'[p].pc = "working" => purge'[p].sid = purge[p].sid)
      BY <2>1 DEF PurgeRecord, AfterReply, IdlePurge, PurgeRequest
    <3>4. purge[p].sid \in Schedules /\ purge'[p].pc \in {"idle", "working", "replied"}
      BY <2>1, <3>1 DEF PurgeRecord, PurgeRequest
    <3> QED BY <3>1, <3>2, <3>3, <3>4
  <2>2. CASE FinishPurge(p)
    BY <2>2 DEF FinishPurge, IdlePurge, PurgeRequest
  <2> QED BY <1>9, <2>1, <2>2
<1>10. CASE Crash
  BY <1>10 DEF Crash, IdleJob, IdlePurge
<1> QED
  BY <1>1, <1>2, <1>3, <1>4, <1>5, <1>6, <1>7, <1>8, <1>9, <1>10, NextCases

(***************************************************************************)
(* Every row anybody holds has a key of our own.                           *)
(***************************************************************************)
LEMMA RowsOwnedStep ==
  ASSUME TypeOK, JobShape, RowsOwned, [Next]_vars
  PROVE  RowsOwned'
<1> USE DEF TypeOK, RowsOwned
<1>1. CASE \/ UNCHANGED vars
           \/ \E s \in Schedules, l \in Locs : CreateSchedule(s, l)
           \/ \E s \in Schedules, l \in Locs \cup {None} : EditSchedule(s, l)
           \/ \E old \in SUBSET Expirable : Retention(old)
  BY <1>1 DEF vars, CreateSchedule, EditSchedule, Retention
<1>2. ASSUME NEW r \in Runners, NEW s \in Schedules, LoadJob(r, s)
      PROVE  RowsOwned'
  BY <1>2 DEF LoadJob, HasCredentials, Job
<1>3. ASSUME NEW r \in Runners, NEW k \in Keys, PickPut(r, k)
      PROVE  RowsOwned'
  BY <1>3 DEF PickPut, Job
<1>4. ASSUME NEW r \in Runners, NEW row \in alive, PickDelete(r, row)
      PROVE  RowsOwned'
  BY <1>4 DEF PickDelete, Job
<1>5. ASSUME NEW r \in Runners, ReadOnly(r)
      PROVE  RowsOwned'
  BY <1>5 DEF ReadOnly, IdleJob
<1>6. ASSUME NEW r \in Runners, NEW reply \in JobReplies,
             CallPut(r, reply) \/ CallDelete(r, reply)
      PROVE  RowsOwned'
  <2>1. CASE CallPut(r, reply)
    BY <2>1 DEF CallPut, Job
  <2>2. CASE CallDelete(r, reply)
    BY <2>2 DEF CallDelete, Job
  <2> QED BY <1>6, <2>1, <2>2
<1>7. ASSUME NEW r \in Runners, RecordPut(r)
      PROVE  RowsOwned'
  BY <1>7 DEF RecordPut, IdleJob
<1>8. ASSUME NEW r \in Runners, RecordDelete(r)
      PROVE  RowsOwned'
  BY <1>8 DEF RecordDelete, MarkDeleted, IdleJob
<1>9. ASSUME NEW p \in Purgers, NEW s \in Schedules, BeginPurge(p, s)
      PROVE  RowsOwned'
  BY <1>9 DEF BeginPurge, AliveOf, PurgeRequest
<1>10. ASSUME NEW p \in Purgers, NEW s \in Schedules, NEW withPurge \in BOOLEAN,
              BeginDelete(p, s, withPurge)
       PROVE  RowsOwned'
  BY <1>10 DEF BeginDelete, AliveOf, PurgeRequest
<1>11. ASSUME NEW p \in Purgers, NEW row \in purge[p].todo, NEW reply \in Replies,
              PurgeCall(p, row, reply)
       PROVE  RowsOwned'
  BY <1>11 DEF PurgeCall, PurgeRequest
<1>12. ASSUME NEW p \in Purgers, PurgeRecord(p)
       PROVE  RowsOwned'
  BY <1>12 DEF PurgeRecord, MarkDeleted, AfterReply, IdlePurge, PurgeRequest
<1>13. ASSUME NEW p \in Purgers, FinishPurge(p)
       PROVE  RowsOwned'
  BY <1>13 DEF FinishPurge, IdlePurge, PurgeRequest
<1>14. CASE Crash
  BY <1>14 DEF Crash, IdleJob, IdlePurge
<1> QED
  BY <1>1, <1>2, <1>3, <1>4, <1>5, <1>6, <1>7, <1>8, <1>9, <1>10, <1>11, <1>12,
     <1>13, <1>14, NextCases

(***************************************************************************)
(* What a DELETE can remove: only objects with a key of our own.           *)
(***************************************************************************)
LEMMA BucketStep ==
  ASSUME TypeOK, JobShape, RowsOwned, [Next]_vars
  PROVE  \/ remote' = remote
         \/ \E r \in Runners : run[r].pc = "put" /\ remote' = remote \cup {Obj(run[r].row)}
         \/ \E o \in Objects : o[2] \in used /\ remote' = remote \ {o}
<1> DEFINE Goal ==
      \/ remote' = remote
      \/ \E r \in Runners : run[r].pc = "put" /\ remote' = remote \cup {Obj(run[r].row)}
      \/ \E o \in Objects : o[2] \in used /\ remote' = remote \ {o}
<1>1. CASE UNCHANGED remote
  BY <1>1
<1>2. ASSUME NEW r \in Runners, NEW reply \in JobReplies, CallPut(r, reply)
      PROVE  Goal
  BY <1>2 DEF CallPut, ServerPut
<1>3. ASSUME NEW r \in Runners, NEW reply \in JobReplies, CallDelete(r, reply)
      PROVE  Goal
  <2>1. DeleteCall(r) \in Objects /\ DeleteCall(r)[2] \in used
    BY <1>3 DEF CallDelete, DeleteCall, JobShape, RowsOwned, Row, Objects
  <2> QED BY <1>3, <2>1 DEF CallDelete, ServerDelete
<1>4. ASSUME NEW p \in Purgers, NEW row \in purge[p].todo, NEW reply \in Replies,
             PurgeCall(p, row, reply)
      PROVE  Goal
  <2>1. Obj(row) \in Objects /\ Obj(row)[2] \in used
    BY DEF TypeOK, PurgeRequest, RowsOwned, Obj, Row, Objects
  <2> QED BY <1>4, <2>1 DEF PurgeCall, ServerDelete
<1> QED
  BY <1>1, <1>2, <1>3, <1>4, NextCases
  DEF vars, CreateSchedule, EditSchedule, LoadJob, PickPut, PickDelete, ReadOnly,
      RecordPut, RecordDelete, BeginPurge, BeginDelete, PurgeRecord, FinishPurge,
      Retention, Crash

(***************************************************************************)
(* Only PickPut enters the phase in which a PUT is on its way; everybody   *)
(* else leaves the runners in that phase, and the keys drawn, as they are. *)
(***************************************************************************)
LEMMA PutPhase ==
  ASSUME TypeOK, [Next]_vars,
         ~ \E r \in Runners, k \in Keys : PickPut(r, k)
  PROVE  /\ used' = used
         /\ \A q \in Runners : run'[q].pc = "put" => run'[q] = run[q]
<1> DEFINE Goal == /\ used' = used
                   /\ \A q \in Runners : run'[q].pc = "put" => run'[q] = run[q]
<1> USE DEF TypeOK
<1>1. CASE UNCHANGED <<used, run>>
  BY <1>1
<1>2. ASSUME NEW r \in Runners, NEW s \in Schedules, LoadJob(r, s)
      PROVE  Goal
  BY <1>2 DEF LoadJob, HasCredentials, Job
<1>3. ASSUME NEW r \in Runners, NEW row \in alive, PickDelete(r, row)
      PROVE  Goal
  BY <1>3 DEF PickDelete, Job
<1>4. ASSUME NEW r \in Runners, ReadOnly(r) \/ RecordPut(r) \/ RecordDelete(r)
      PROVE  Goal
  BY <1>4 DEF ReadOnly, RecordPut, RecordDelete, IdleJob
<1>5. ASSUME NEW r \in Runners, NEW reply \in JobReplies, CallPut(r, reply)
      PROVE  Goal
  BY <1>5 DEF CallPut, Job
<1>6. ASSUME NEW r \in Runners, NEW reply \in JobReplies, CallDelete(r, reply)
      PROVE  Goal
  BY <1>6 DEF CallDelete, Job
<1>7. CASE Crash
  BY <1>7 DEF Crash, IdleJob
<1> QED
  BY <1>1, <1>2, <1>3, <1>4, <1>5, <1>6, <1>7, NextCases
  DEF vars, CreateSchedule, EditSchedule, BeginPurge, BeginDelete, PurgeCall,
      PurgeRecord, FinishPurge, Retention

LEMMA KeysStep ==
  ASSUME Inv, [Next]_vars
  PROVE  KeysOwned' /\ PutsDistinct' /\ UserObjectsKept'
<1> USE DEF Inv, TypeOK
<1>1. UserObjectsKept' /\ \A o \in remote' : o \in UserObjects \/ o[2] \in used
  BY BucketStep DEF UserObjectsKept, KeysOwned, RowsOwned, JobShape, Row, Obj, Objects
<1>2. ASSUME NEW r \in Runners, NEW k \in Keys, PickPut(r, k)
      PROVE  KeysOwned' /\ PutsDistinct'
  <2>1. used' = used \cup {k} /\ k \notin used /\ \A l \in Locs : <<l, k>> \notin UserObjects
    BY <1>2 DEF PickPut, FreshKey
  <2>2. KeysOwned'
    BY <1>1, <2>1 DEF KeysOwned
  <2>3. run'[r].row.key = k /\ \A q \in Runners \ {r} : run'[q] = run[q]
    BY <1>2 DEF PickPut, Job
  <2>4. \A q \in Runners : run[q].pc = "put" => run[q].row.key \in used
    BY DEF RowsOwned
  <2>5. PutsDistinct'
    BY <2>1, <2>3, <2>4 DEF PutsDistinct
  <2> QED BY <2>2, <2>5
<1>3. CASE ~ \E r \in Runners, k \in Keys : PickPut(r, k)
  <2>1. /\ used' = used
        /\ \A q \in Runners : run'[q].pc = "put" => run'[q] = run[q]
    BY <1>3, PutPhase
  <2> QED BY <1>1, <2>1 DEF KeysOwned, PutsDistinct
<1> QED BY <1>1, <1>2, <1>3

LEMMA InvStep ==
  ASSUME Inv, [Next]_vars
  PROVE  Inv'
  BY TypeStep, ShapeStep, RowsOwnedStep, KeysStep DEF Inv

THEOREM Invariance == Spec => []Inv
<1>1. Inv /\ [Next]_vars => Inv'
  BY InvStep
<1> QED BY <1>1, InitInv, PTL DEF Spec

(***************************************************************************)
(* The state always has the declared shape.                                *)
(***************************************************************************)
THEOREM TypeCorrect == Spec => []TypeOK
<1>1. Inv => TypeOK
  BY DEF Inv
<1> QED BY <1>1, Invariance, PTL

(***************************************************************************)
(* random_ops never deletes an object it did not create: proved from the   *)
(* freshness of the keys it draws, whatever the limits of the pool, the    *)
(* edits of the bucket, the purges and the crashes.                        *)
(***************************************************************************)
THEOREM SafeDelete == Spec => []UserObjectsKept
<1>1. Inv => UserObjectsKept
  BY DEF Inv
<1> QED BY <1>1, Invariance, PTL

-----------------------------------------------------------------------------
(* Refinement: random_ops implements OwnedStore. *)

OnTheWay == {Obj(run[r].row) : r \in {q \in Runners : run[q].pc = "put"}}

LEMMA StoreStep ==
  ASSUME Inv, [Next]_vars
  PROVE  [Owned!Next]_(Owned!vars)
<1> USE DEF Inv, TypeOK
<1>1. ASSUME NEW r \in Runners, NEW k \in Keys, PickPut(r, k)
      PROVE  Owned!Mint(run[r].loc, k)
  <2>1. run[r].loc \in Locs
    BY <1>1 DEF PickPut, JobShape
  <2>2. \A m \in Locs : <<m, k>> \notin remote
    BY <1>1 DEF PickPut, FreshKey, KeysOwned
  <2>3. /\ run'[r].pc = "put" /\ Obj(run'[r].row) = <<run[r].loc, k>>
        /\ run[r].pc # "put"
        /\ \A q \in Runners \ {r} : run'[q] = run[q]
    BY <1>1 DEF PickPut, Job, Obj
  <2>4. OnTheWay' = OnTheWay \cup {<<run[r].loc, k>>}
    BY <2>3 DEF OnTheWay
  <2> QED BY <1>1, <2>1, <2>2, <2>4 DEF Owned!Mint, PickPut, FreshKey, OnTheWay
<1>2. ASSUME NEW r \in Runners, NEW reply \in JobReplies, CallPut(r, reply),
             NEW o \in OnTheWay, o = Obj(run[r].row)
      PROVE  Owned!Store(o) \/ Owned!Abandon({o})
  <2>1. /\ run[r].pc = "put" /\ run'[r].pc # "put"
        /\ \A q \in Runners \ {r} : run'[q] = run[q]
    BY <1>2 DEF CallPut, Job
  <2>2. \A q \in Runners \ {r} : run[q].pc = "put" => Obj(run[q].row) # o
    BY <1>2, <2>1 DEF PutsDistinct, Obj
  <2>3. o \in OnTheWay /\ OnTheWay' = OnTheWay \ {o}
    BY <1>2, <2>1, <2>2 DEF OnTheWay
  <2>4. used' = used /\ (remote' = remote \cup {o} \/ remote' = remote)
    BY <1>2 DEF CallPut, ServerPut
  <2> QED BY <2>3, <2>4 DEF Owned!Store, Owned!Abandon, OnTheWay
<1>3. ASSUME NEW o \in Objects, o[2] \in used, UNCHANGED used, OnTheWay' = OnTheWay,
             remote' = remote \/ remote' = remote \ {o}
      PROVE  [Owned!Next]_(Owned!vars)
  BY <1>3 DEF Owned!Next, Owned!Remove, Owned!vars, OnTheWay
<1>4. ASSUME NEW r \in Runners, NEW reply \in JobReplies, CallDelete(r, reply)
      PROVE  [Owned!Next]_(Owned!vars)
  <2>1. DeleteCall(r) \in Objects /\ DeleteCall(r)[2] \in used
    BY <1>4 DEF CallDelete, DeleteCall, JobShape, RowsOwned, Row, Objects
  <2>2. /\ run[r].pc # "put" /\ run'[r].pc # "put"
        /\ \A q \in Runners \ {r} : run'[q] = run[q]
    BY <1>4 DEF CallDelete, Job
  <2>3. OnTheWay' = OnTheWay
    BY <2>2 DEF OnTheWay
  <2> QED BY <1>3, <1>4, <2>1, <2>3 DEF CallDelete, ServerDelete
<1>5. ASSUME NEW p \in Purgers, NEW row \in purge[p].todo, NEW reply \in Replies,
             PurgeCall(p, row, reply)
      PROVE  [Owned!Next]_(Owned!vars)
  <2>1. Obj(row) \in Objects /\ Obj(row)[2] \in used
    BY DEF PurgeRequest, RowsOwned, Obj, Row, Objects
  <2>2. OnTheWay' = OnTheWay
    BY <1>5 DEF PurgeCall, OnTheWay
  <2> QED BY <1>3, <1>5, <2>1, <2>2 DEF PurgeCall, ServerDelete
<1>6. ASSUME UNCHANGED remote, ~ \E r \in Runners, k \in Keys : PickPut(r, k)
      PROVE  [Owned!Next]_(Owned!vars)
  <2>1. used' = used /\ OnTheWay' \subseteq OnTheWay
    BY <1>6, PutPhase DEF OnTheWay
  <2>2. PICK gone \in SUBSET OnTheWay : OnTheWay' = OnTheWay \ gone
    <3> WITNESS OnTheWay \ OnTheWay' \in SUBSET OnTheWay
    <3> QED BY <2>1
  <2>3. Owned!Abandon(gone)
    BY <1>6, <2>1, <2>2 DEF Owned!Abandon, OnTheWay
  <2> QED BY <2>2, <2>3, Zenon DEF Owned!Next, OnTheWay
<1>7. CASE \E r \in Runners, k \in Keys : PickPut(r, k)
  <2>1. PICK r \in Runners, k \in Keys : PickPut(r, k)
    BY <1>7
  <2>2. Owned!Mint(run[r].loc, k) /\ run[r].loc \in Locs
    BY <1>1, <2>1 DEF PickPut, JobShape
  <2> QED BY <2>2, Zenon DEF Owned!Next
<1>8. CASE \E r \in Runners, reply \in JobReplies : CallPut(r, reply)
  <2>1. PICK r \in Runners, reply \in JobReplies : CallPut(r, reply)
    BY <1>8
  <2>2. PICK o \in OnTheWay : o = Obj(run[r].row)
    BY <2>1 DEF CallPut, OnTheWay
  <2>3. (Owned!Store(o) \/ Owned!Abandon({o})) /\ {o} \in SUBSET OnTheWay
    BY <1>2, <2>1, <2>2
  <2> QED BY <2>2, <2>3, Zenon DEF Owned!Next, OnTheWay
<1>9. \/ UNCHANGED remote
      \/ \E r \in Runners, k \in Keys : PickPut(r, k)
      \/ \E r \in Runners, reply \in JobReplies : CallPut(r, reply)
      \/ \E r \in Runners, reply \in JobReplies : CallDelete(r, reply)
      \/ \E p \in Purgers : \E row \in purge[p].todo, reply \in Replies :
            PurgeCall(p, row, reply)
  BY NextCases
  DEF vars, CreateSchedule, EditSchedule, LoadJob, PickDelete, ReadOnly,
      RecordPut, RecordDelete, BeginPurge, BeginDelete, PurgeRecord, FinishPurge,
      Retention, Crash
<1> QED BY <1>4, <1>5, <1>6, <1>7, <1>8, <1>9, Zenon

(***************************************************************************)
(* Every behaviour of the jobs, purges, edits and crashes is a behaviour   *)
(* of OwnedStore: the names are new, used once, and only they are removed. *)
(***************************************************************************)
THEOREM Refinement == Spec => ImplementsOwnedStore
<1>1. Init => Owned!Init
  BY DEF Init, Owned!Init, IdleJob
<1>2. Inv /\ [Next]_vars => [Owned!Next]_(Owned!vars)
  BY StoreStep
<1> QED BY <1>1, <1>2, Invariance, PTL DEF Spec, ImplementsOwnedStore, Owned!Spec

-----------------------------------------------------------------------------
(* The bound on the pool. *)

Load(s) == Cardinality(AliveOf(s)) + Cardinality(Putting(s))

LEMMA PoolFinite ==
  ASSUME IsFiniteSet(alive), NEW s
  PROVE  /\ IsFiniteSet(AliveOf(s)) /\ Cardinality(AliveOf(s)) \in Nat
         /\ IsFiniteSet(Putting(s)) /\ Cardinality(Putting(s)) \in Nat
         /\ Cardinality(Putting(s)) <= Cardinality(Runners)
         /\ Cardinality(Runners) \in Nat /\ Ceiling \in Nat
<1>1. AliveOf(s) \in SUBSET alive /\ Putting(s) \in SUBSET Runners
  BY DEF AliveOf, Putting
<1>2. IsFiniteSet(Runners)
  BY TrackedAssumption
<1>3. Ceiling \in Nat
  BY TrackedAssumption DEF Ceiling, Larger
<1> QED BY <1>1, <1>2, <1>3, FS_Subset, FS_CardinalityType

(***************************************************************************)
(* pick_random_op chooses PUT only while the pool has room.                *)
(***************************************************************************)
LEMMA RoomToPut ==
  ASSUME NEW n \in Nat, MayPut(n)
  PROVE  n < Ceiling
  BY TrackedAssumption DEF MayPut, PickableOps, Ceiling, Larger

(***************************************************************************)
(* A step that adds no row and starts no PUT cannot break the bound.       *)
(***************************************************************************)
LEMMA PoolShrinks ==
  ASSUME IsFiniteSet(alive), PoolBounded, alive' \subseteq alive,
         \A s \in Schedules : Putting(s)' \subseteq Putting(s)
  PROVE  IsFiniteSet(alive)' /\ PoolBounded'
<1>1. IsFiniteSet(alive')
  BY FS_Subset
<1>2. ASSUME NEW s \in Schedules
      PROVE  (Load(s) < Ceiling + Cardinality(Runners))'
  <2>1. AliveOf(s)' \in SUBSET AliveOf(s) /\ Putting(s)' \in SUBSET Putting(s)
    BY DEF AliveOf
  <2>2. /\ Cardinality(AliveOf(s)') <= Cardinality(AliveOf(s))
        /\ Cardinality(Putting(s)') <= Cardinality(Putting(s))
        /\ Cardinality(AliveOf(s)') \in Nat /\ Cardinality(Putting(s)') \in Nat
    BY <2>1, PoolFinite, FS_Subset, FS_CardinalityType
  <2> QED BY <2>2, PoolFinite DEF PoolBounded, Load
<1> QED BY <1>1, <1>2 DEF PoolBounded, Load

LEMMA PoolStep ==
  ASSUME Inv, IsFiniteSet(alive), PoolBounded, [Next]_vars
  PROVE  IsFiniteSet(alive)' /\ PoolBounded'
<1> USE DEF Inv, TypeOK
<1>1. ASSUME NEW r \in Runners, NEW k \in Keys, PickPut(r, k)
      PROVE  IsFiniteSet(alive)' /\ PoolBounded'
  <2>1. alive' = alive /\ \A s \in Schedules : AliveOf(s)' = AliveOf(s)
    BY <1>1 DEF PickPut, AliveOf
  <2>2. \A q \in Runners \ {r} : run'[q] = run[q]
    BY <1>1 DEF PickPut
  <2>3. run'[r].sid = run[r].sid
    BY <1>1 DEF PickPut, Job
  <2>4. ASSUME NEW s \in Schedules
        PROVE  (Load(s) < Ceiling + Cardinality(Runners))'
    <3>1. CASE s = run[r].sid
      <4>1. Cardinality(AliveOf(s)) < Ceiling
        BY <1>1, <3>1, PoolFinite, RoomToPut DEF PickPut
      <4>2. Putting(s)' \in SUBSET Runners
        BY DEF Putting
      <4>3. /\ Cardinality(Putting(s)') \in Nat
            /\ Cardinality(Putting(s)') <= Cardinality(Runners)
        BY <4>2, TrackedAssumption, FS_Subset, FS_CardinalityType
      <4> QED BY <2>1, <4>1, <4>3, PoolFinite DEF Load
    <3>2. CASE s # run[r].sid
      <4>1. Putting(s)' = Putting(s)
        BY <2>2, <2>3, <3>2 DEF Putting
      <4> QED BY <2>1, <4>1, PoolFinite DEF PoolBounded, Load
    <3> QED BY <3>1, <3>2
  <2> QED BY <2>1, <2>4 DEF PoolBounded, Load
<1>2. ASSUME NEW r \in Runners, RecordPut(r)
      PROVE  IsFiniteSet(alive)' /\ PoolBounded'
  <2>1. /\ run'[r].pc = "idle" /\ run[r].pc = "putReplied"
        /\ \A q \in Runners \ {r} : run'[q] = run[q]
    BY <1>2 DEF RecordPut, IdleJob
  <2>2. \A s \in Schedules :
          Putting(s)' = IF s = run[r].sid THEN Putting(s) \ {r} ELSE Putting(s)
    BY <2>1 DEF Putting
  <2>3. CASE alive' = alive
    <3>1. \A s \in Schedules : Putting(s)' \subseteq Putting(s)
      BY <2>2
    <3> QED BY <2>3, <3>1, PoolShrinks
  <2>4. CASE alive' = alive \cup {run[r].row}
    <3>1. IsFiniteSet(alive')
      BY <2>4, FS_AddElement
    <3>2. ASSUME NEW s \in Schedules
          PROVE  (Load(s) < Ceiling + Cardinality(Runners))'
      <4>1. CASE s = run[r].sid
        <5>1. run[r].row.sid = s
          BY <2>1, <4>1 DEF JobShape
        <5>2. AliveOf(s)' = AliveOf(s) \cup {run[r].row}
          BY <2>4, <5>1 DEF AliveOf
        <5>3. r \in Putting(s) /\ Putting(s)' = Putting(s) \ {r}
          BY <2>1, <2>2, <4>1 DEF Putting
        <5>a. IsFiniteSet(AliveOf(s)) /\ Cardinality(AliveOf(s)) \in Nat
          BY PoolFinite
        <5>b. /\ IsFiniteSet(AliveOf(s) \cup {run[r].row})
              /\ Cardinality(AliveOf(s) \cup {run[r].row}) \in
                   {Cardinality(AliveOf(s)), Cardinality(AliveOf(s)) + 1}
          BY <5>a, FS_AddElement
        <5>4. /\ Cardinality(AliveOf(s)') \in Nat
              /\ Cardinality(AliveOf(s)') <= Cardinality(AliveOf(s)) + 1
          BY <5>2, <5>a, <5>b
        <5>5. Cardinality(Putting(s)') = Cardinality(Putting(s)) - 1
          BY <5>3, PoolFinite, FS_RemoveElement
        <5>6. Load(s) < Ceiling + Cardinality(Runners) /\ Load(s) \in Nat
          BY PoolFinite DEF PoolBounded, Load
        <5>7. Load(s)' <= Load(s)
          BY <5>4, <5>5, PoolFinite DEF Load
        <5>8. Load(s)' \in Nat
          BY <5>4, <5>5, <5>3, PoolFinite, FS_RemoveElement, FS_CardinalityType DEF Load
        <5> QED BY <5>6, <5>7, <5>8, PoolFinite DEF Ceiling, Larger
      <4>2. CASE s # run[r].sid
        <5>1. run[r].row.sid # s
          BY <2>1, <4>2 DEF JobShape
        <5>2. AliveOf(s)' = AliveOf(s) /\ Putting(s)' = Putting(s)
          BY <2>2, <2>4, <4>2, <5>1 DEF AliveOf
        <5> QED BY <5>2, PoolFinite DEF PoolBounded, Load
      <4> QED BY <4>1, <4>2
    <3> QED BY <3>1, <3>2 DEF PoolBounded, Load
  <2> QED BY <1>2, <2>3, <2>4 DEF RecordPut
<1>3. ASSUME NEW r \in Runners, NEW s \in Schedules, LoadJob(r, s)
      PROVE  alive' \subseteq alive /\ \A t \in Schedules : Putting(t)' \subseteq Putting(t)
  BY <1>3 DEF LoadJob, Putting, Job
<1>4. ASSUME NEW r \in Runners, NEW row \in alive, PickDelete(r, row)
      PROVE  alive' \subseteq alive /\ \A t \in Schedules : Putting(t)' \subseteq Putting(t)
  BY <1>4 DEF PickDelete, Putting, Job
<1>5. ASSUME NEW r \in Runners, ReadOnly(r) \/ RecordDelete(r)
      PROVE  alive' \subseteq alive /\ \A t \in Schedules : Putting(t)' \subseteq Putting(t)
  BY <1>5 DEF ReadOnly, RecordDelete, MarkDeleted, Putting, IdleJob
<1>6. ASSUME NEW r \in Runners, NEW reply \in JobReplies, CallPut(r, reply)
      PROVE  alive' \subseteq alive /\ \A t \in Schedules : Putting(t)' \subseteq Putting(t)
  BY <1>6 DEF CallPut, Putting, Job
<1>7. ASSUME NEW r \in Runners, NEW reply \in JobReplies, CallDelete(r, reply)
      PROVE  alive' \subseteq alive /\ \A t \in Schedules : Putting(t)' \subseteq Putting(t)
  BY <1>7 DEF CallDelete, Putting, Job
<1>8. ASSUME NEW p \in Purgers, PurgeRecord(p)
      PROVE  alive' \subseteq alive /\ UNCHANGED run
  BY <1>8 DEF PurgeRecord, MarkDeleted
<1>9. CASE Crash
  BY <1>9, PoolShrinks DEF Crash, Putting, IdleJob
<1>10. CASE alive' \subseteq alive /\ UNCHANGED run
  <2>1. \A t \in Schedules : Putting(t)' = Putting(t)
    BY <1>10 DEF Putting
  <2> QED BY <1>10, <2>1, PoolShrinks
<1> QED
  BY <1>1, <1>2, <1>3, <1>4, <1>5, <1>6, <1>7, <1>8, <1>9, <1>10, PoolShrinks, NextCases
  DEF vars, CreateSchedule, EditSchedule, BeginPurge, BeginDelete, PurgeCall,
      FinishPurge, Retention

(* The rows alive are finitely many at any time, and within the bound.     *)
LEMMA PoolInvariance == Spec => [](Inv /\ IsFiniteSet(alive) /\ PoolBounded)
<1>1. Init => IsFiniteSet(alive) /\ PoolBounded
  <2> SUFFICES ASSUME Init PROVE IsFiniteSet(alive) /\ PoolBounded
    OBVIOUS
  <2>1. alive = {} /\ IsFiniteSet(alive)
    BY FS_EmptySet DEF Init
  <2>2. \A s \in Schedules : AliveOf(s) = {} /\ Putting(s) = {}
    BY <2>1 DEF Init, AliveOf, Putting, IdleJob
  <2>3. Ceiling > 0 /\ Ceiling \in Nat
    BY TrackedAssumption DEF Ceiling, Larger
  <2>4. Cardinality(Runners) \in Nat
    BY TrackedAssumption, FS_CardinalityType
  <2>5. \A s \in Schedules : Cardinality(AliveOf(s)) = 0 /\ Cardinality(Putting(s)) = 0
    BY <2>2, FS_EmptySet
  <2> QED BY <2>1, <2>3, <2>4, <2>5 DEF PoolBounded
<1>2. Inv /\ IsFiniteSet(alive) /\ PoolBounded /\ [Next]_vars
        => IsFiniteSet(alive)' /\ PoolBounded'
  BY PoolStep
<1> QED BY <1>1, <1>2, Invariance, PTL DEF Spec

(***************************************************************************)
(* However many jobs run at once, a schedule's pool (rows plus PUTs on     *)
(* their way) exceeds its limit by less than the number of threads.        *)
(***************************************************************************)
THEOREM PoolBound == Spec => []PoolBounded
  BY PoolInvariance, PTL

-----------------------------------------------------------------------------
(* How far a purge has come                                                *)

\* The steps a request has before it: two for each row of its list and one at the end.
Left(p) ==
  IF purge[p].pc = "idle" THEN 0
  ELSE IF purge[p].pc = "working" THEN 2 * Cardinality(purge[p].todo) + 1
  ELSE 2 * Cardinality(purge[p].todo)

ListShape ==
  \A p \in Purgers :
    /\ IsFiniteSet(purge[p].todo)
    /\ purge[p].pc = "idle" => purge[p] = IdlePurge
    /\ purge[p].pc = "replied" => purge[p].row \in purge[p].todo

(* The fate of a request, step by step.                                    *)
LEMMA PurgeMoves ==
  ASSUME Inv, IsFiniteSet(alive), ListShape, [Next]_vars, NEW p \in Purgers
  PROVE  \/ purge'[p] = purge[p]
         \/ purge'[p] = IdlePurge /\ purge[p].pc \in {"working", "replied"}
         \/ /\ purge[p].pc = "idle" /\ purge'[p].pc = "working"
            /\ IsFiniteSet(purge'[p].todo)
         \/ /\ purge[p].pc = "working" /\ purge'[p].pc = "replied"
            /\ purge'[p].todo = purge[p].todo /\ purge'[p].row \in purge[p].todo
         \/ /\ purge[p].pc = "replied" /\ purge'[p].pc = "working"
            /\ purge'[p].todo = purge[p].todo \ {purge[p].row}
<1> USE DEF Inv, TypeOK
<1> DEFINE Goal ==
         \/ purge'[p] = purge[p]
         \/ purge'[p] = IdlePurge /\ purge[p].pc \in {"working", "replied"}
         \/ /\ purge[p].pc = "idle" /\ purge'[p].pc = "working"
            /\ IsFiniteSet(purge'[p].todo)
         \/ /\ purge[p].pc = "working" /\ purge'[p].pc = "replied"
            /\ purge'[p].todo = purge[p].todo /\ purge'[p].row \in purge[p].todo
         \/ /\ purge[p].pc = "replied" /\ purge'[p].pc = "working"
            /\ purge'[p].todo = purge[p].todo \ {purge[p].row}
<1>1. \A s \in Schedules : IsFiniteSet(AliveOf(s)) /\ IsFiniteSet({})
  BY FS_EmptySet, PoolFinite
<1>2. ASSUME NEW q \in Purgers, NEW s \in Schedules,
             \/ BeginPurge(q, s)
             \/ \E withPurge \in BOOLEAN : BeginDelete(q, s, withPurge)
      PROVE  Goal
  <2>1. q # p => purge'[p] = purge[p]
    BY <1>2 DEF BeginPurge, BeginDelete
  <2>2. ASSUME q = p
        PROVE  /\ purge[p].pc = "idle" /\ purge'[p].pc = "working"
               /\ purge'[p].todo \in {AliveOf(s), {}}
    <3>1. purge[p] \in PurgeRequest
      OBVIOUS
    <3>2. CASE BeginPurge(p, s)
      BY <3>1, <3>2 DEF BeginPurge, PurgeRequest
    <3>3. ASSUME NEW withPurge \in BOOLEAN, BeginDelete(p, s, withPurge)
          PROVE  /\ purge[p].pc = "idle" /\ purge'[p].pc = "working"
                 /\ purge'[p].todo \in {AliveOf(s), {}}
      BY <3>1, <3>3 DEF BeginDelete, PurgeRequest
    <3> QED
      BY <1>2, <2>2, <3>2, <3>3
  <2> QED
    BY <1>1, <2>1, <2>2
<1>3. ASSUME NEW q \in Purgers, NEW row \in purge[q].todo, NEW reply \in Replies,
             PurgeCall(q, row, reply)
      PROVE  Goal
  <2>1. q # p => purge'[p] = purge[p]
    BY <1>3 DEF PurgeCall
  <2>2. ASSUME q = p
        PROVE  /\ purge[p].pc = "working" /\ purge'[p].pc = "replied"
               /\ purge'[p].todo = purge[p].todo /\ purge'[p].row = row
    BY <1>3, <2>2 DEF PurgeCall, PurgeRequest
  <2> QED
    BY <1>3, <2>1, <2>2
<1>4. ASSUME NEW q \in Purgers, PurgeRecord(q)
      PROVE  Goal
  <2>1. q # p => purge'[p] = purge[p]
    BY <1>4 DEF PurgeRecord
  <2>2. ASSUME q = p
        PROVE  /\ purge[p].pc = "replied"
               /\ \/ purge'[p] = IdlePurge
                  \/ /\ purge'[p].pc = "working"
                     /\ purge'[p].todo = purge[p].todo \ {purge[p].row}
    BY <1>4, <2>2 DEF PurgeRecord, AfterReply, PurgeRequest
  <2> QED
    BY <2>1, <2>2
<1>5. ASSUME NEW q \in Purgers, FinishPurge(q)
      PROVE  Goal
  BY <1>5 DEF FinishPurge
<1>6. CASE Crash
  <2>1. purge'[p] = IdlePurge
    BY <1>6 DEF Crash
  <2>2. purge[p].pc \in {"idle", "working", "replied"}
    BY DEF PurgeRequest
  <2> QED
    BY <2>1, <2>2 DEF ListShape
<1>7. CASE UNCHANGED purge
  BY <1>7
<1> QED
  BY <1>2, <1>3, <1>4, <1>5, <1>6, <1>7, NextCases
  DEF vars, CreateSchedule, EditSchedule, LoadJob, PickPut, PickDelete, ReadOnly, CallPut,
      CallDelete, RecordPut, RecordDelete, Retention
LEMMA ListStep ==
  ASSUME Inv, IsFiniteSet(alive), ListShape, [Next]_vars
  PROVE  ListShape'
<1> SUFFICES ASSUME NEW p \in Purgers
             PROVE  /\ IsFiniteSet(purge'[p].todo)
                    /\ purge'[p].pc = "idle" => purge'[p] = IdlePurge
                    /\ purge'[p].pc = "replied" => purge'[p].row \in purge'[p].todo
  BY DEF ListShape, IdlePurge
<1>1. CASE purge'[p] = purge[p]
  BY <1>1 DEF ListShape
<1>2. CASE purge'[p] = IdlePurge
  BY <1>2, FS_EmptySet DEF IdlePurge
<1>3. IsFiniteSet(purge[p].todo \ {purge[p].row})
  BY FS_RemoveElement DEF ListShape
<1> QED
  BY <1>1, <1>2, <1>3, PurgeMoves DEF ListShape

(* Each step of a request leaves it less to do.                            *)
LEMMA LeftShrinks ==
  ASSUME Inv, IsFiniteSet(alive), ListShape, [Next]_vars, NEW p \in Purgers,
         purge[p].pc # "idle", purge'[p] # purge[p]
  PROVE  Left(p)' \in Nat /\ Left(p) \in Nat /\ Left(p)' < Left(p)
<1> DEFINE n == Cardinality(purge[p].todo)
<1>1. /\ IsFiniteSet(purge[p].todo) /\ n \in Nat
      /\ purge[p].pc \in {"working", "replied"}
  BY FS_CardinalityType DEF ListShape, Inv, TypeOK, PurgeRequest
<1>2. purge[p].pc = "replied" =>
        Cardinality(purge[p].todo \ {purge[p].row}) = n - 1 /\ n - 1 \in Nat
  <2> SUFFICES ASSUME purge[p].pc = "replied"
               PROVE  Cardinality(purge[p].todo \ {purge[p].row}) = n - 1 /\ n - 1 \in Nat
    OBVIOUS
  <2>1. purge[p].row \in purge[p].todo
    BY DEF ListShape
  <2>2. /\ IsFiniteSet(purge[p].todo \ {purge[p].row})
        /\ Cardinality(purge[p].todo \ {purge[p].row}) = n - 1
    BY <1>1, <2>1, FS_RemoveElement
  <2> QED
    BY <2>2, FS_CardinalityType
<1>3. Left(p)' = IF purge'[p].pc = "idle" THEN 0
                 ELSE IF purge'[p].pc = "working" THEN 2 * Cardinality(purge'[p].todo) + 1
                 ELSE 2 * Cardinality(purge'[p].todo)
  BY DEF Left
<1>4. purge[p].pc = "replied" => n > 0
  BY <1>1, <1>2
<1>5. CASE purge'[p] = IdlePurge
  <2>1. Left(p)' = 0
    BY <1>3, <1>5 DEF IdlePurge
  <2> QED
    BY <1>1, <1>4, <2>1 DEF Left
<1>6. CASE /\ purge[p].pc = "working" /\ purge'[p].pc = "replied"
           /\ purge'[p].todo = purge[p].todo
  BY <1>1, <1>3, <1>6 DEF Left
<1>7. CASE /\ purge[p].pc = "replied" /\ purge'[p].pc = "working"
           /\ purge'[p].todo = purge[p].todo \ {purge[p].row}
  BY <1>1, <1>2, <1>3, <1>7 DEF Left
<1> QED
  BY <1>1, <1>5, <1>6, <1>7, PurgeMoves

(***************************************************************************)
(* A purge or delete request has a finite list, which nothing adds to: as  *)
(* long as it is not idle, whatever step changes it, one of its own or a   *)
(* crash, leaves it less to do.  With the fairness of FairSpec this is why *)
(* PurgeEnds holds.                                                        *)
(***************************************************************************)
THEOREM PurgeAdvances ==
  Spec => [][\A p \in Purgers :
               purge[p].pc # "idle" /\ purge'[p] # purge[p] =>
                 Left(p)' \in Nat /\ Left(p)' < Left(p)]_vars
<1>1. Init => ListShape
  <2> SUFFICES ASSUME Init, NEW p \in Purgers
               PROVE  /\ IsFiniteSet(purge[p].todo)
                      /\ purge[p].pc = "idle" => purge[p] = IdlePurge
                      /\ purge[p].pc = "replied" => purge[p].row \in purge[p].todo
    BY DEF ListShape
  <2>1. purge[p] = IdlePurge
    BY DEF Init
  <2> QED
    BY <2>1, FS_EmptySet DEF IdlePurge
<1>2. Inv /\ IsFiniteSet(alive) /\ ListShape /\ [Next]_vars => ListShape'
  BY ListStep
<1>3. Inv /\ IsFiniteSet(alive) /\ ListShape /\ [Next]_vars =>
        [\A p \in Purgers :
           purge[p].pc # "idle" /\ purge'[p] # purge[p] =>
             Left(p)' \in Nat /\ Left(p)' < Left(p)]_vars
  BY LeftShrinks
<1> QED
  BY <1>1, <1>2, <1>3, PoolInvariance, PTL DEF Spec
=============================================================================
