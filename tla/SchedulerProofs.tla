-------------------------- MODULE SchedulerProofs ---------------------------
(***************************************************************************)
(* Proofs about Scheduler, for any number of schedules and requests, any   *)
(* submitted configurations, any horizon and any bound on faults.          *)
(***************************************************************************)
EXTENDS Scheduler, TLAPS

(***************************************************************************)
(* Every step is one of the handlers.  The proofs below split on them.     *)
(***************************************************************************)
LEMMA NextCases ==
  ASSUME Next
  PROVE  \/ \E s \in Schedules, c \in Inputs, enabled \in BOOLEAN : CreateSchedule(s, c, enabled)
         \/ \E s \in Schedules, c \in Inputs, enabled \in BOOLEAN : EditSchedule(s, c, enabled)
         \/ \E s \in Schedules : DeleteSchedule(s)
         \/ \E q \in Requests, s \in Schedules : ToggleRead(q, s)
         \/ \E q \in Requests : ToggleWrite(q)
         \/ \E q \in Requests, s \in Schedules : RunNow(q, s)
         \/ Start \/ InitDb \/ ReadDue \/ EndTick
         \/ \E e \in batch : StartNext(e)
         \/ \E t \in Threads : Execute(t)
         \/ \E t \in Threads : Finalize(t)
         \/ \E t \in Threads : Notify(t)
         \/ \E t \in Threads : PostWebhook(t)
         \/ \E t \in Threads : RecordFailure(t)
         \/ ClockTick
         \/ Crash
  BY DEF Next, Client, RequestStep, TickerStep, JobStep, Threads

(***************************************************************************)
(* A validated configuration always has a next interval, and none shorter  *)
(* than the least one.  The defaults are never used.                       *)
(***************************************************************************)
LEMMA IntervalFloor ==
  ASSUME NEW c \in Inputs, Valid(c)
  PROVE  /\ NextInterval(c) # {}
         /\ \A delay \in NextInterval(c) : delay \in Nat /\ delay >= MinInterval
<1>1. c.interval \in Nat /\ c.min \in Nat /\ c.max \in Nat /\ c.mode \in {"fixed", "random"}
  BY SchedulerAssumption DEF Conf
<1>2. CASE c.mode = "fixed"
  <2>1. c.interval >= MinInterval /\ c.interval # 0
    BY <1>1, <1>2, SchedulerAssumption DEF Valid
  <2>2. NextInterval(c) = {c.interval}
    BY <1>2, <2>1 DEF NextInterval, OrDefault
  <2> QED BY <1>1, <2>1, <2>2
<1>3. CASE c.mode = "random"
  <2>1. c.min >= MinInterval /\ c.max >= c.min /\ c.min # 0 /\ c.max # 0
    BY <1>1, <1>3, SchedulerAssumption DEF Valid
  <2>2. NextInterval(c) = c.min .. c.max
    BY <1>3, <2>1 DEF NextInterval, OrDefault
  <2>3. c.min \in c.min .. c.max
    BY <1>1, <2>1
  <2> QED BY <1>1, <2>1, <2>2, <2>3, SchedulerAssumption
<1> QED BY <1>1, <1>2, <1>3

LEMMA ResultKinds ==
  ASSUME NEW kind \in {"s3", "http", "mtr", "tcp"}
  PROVE  Results(kind) \subseteq AnyResult
<1>1. CASE kind = "s3"   BY <1>1 DEF Results, AnyResult
<1>2. CASE kind = "http" BY <1>2 DEF Results, AnyResult
<1>3. CASE kind = "mtr"  BY <1>3 DEF Results, AnyResult
<1>4. CASE kind = "tcp"  BY <1>4 DEF Results, AnyResult
<1> QED BY <1>1, <1>2, <1>3, <1>4

(***************************************************************************)
(* Every executor's status begins with a known head.                       *)
(***************************************************************************)
LEMMA StatusHead ==
  ASSUME NEW kind \in {"s3", "http", "mtr", "tcp"}, NEW r \in Results(kind)
  PROVE  StatusOf(r)[1] \in Heads
<1>1. CASE kind = "s3"
  <2>1. r \in S3Results /\ r.kind = "s3"
    BY <1>1 DEF Results, S3Results
  <2>2. S3Status(r)[1] \in {"err", "unknown", "ok", "http"}
    BY DEF S3Status
  <2>3. StatusOf(r) = StatusWithCompare(S3Status(r), r.stages)
    BY <2>1 DEF StatusOf
  <2>4. <<Worst(r.stages), "stage">>[1] \in Severities
    BY DEF Worst, Severities
  <2> QED BY <2>2, <2>3, <2>4 DEF StatusWithCompare, Heads, Severities
<1>2. CASE kind = "http"
  <2>1. StatusOf(r) = HttpStatus(r)
    BY <1>2 DEF Results, HttpResults, StatusOf
  <2> QED BY <2>1 DEF HttpStatus, Heads
<1>3. CASE kind = "mtr"
  <2>1. StatusOf(r) = MtrStatus(r)
    BY <1>3 DEF Results, MtrResults, StatusOf
  <2> QED BY <2>1 DEF MtrStatus, Worst, Heads
<1>4. CASE kind = "tcp"
  <2>1. StatusOf(r) = TcpStatus(r)
    BY <1>4 DEF Results, TcpResults, StatusOf
  <2> QED BY <2>1 DEF TcpStatus, Heads
<1> QED BY <1>1, <1>2, <1>3, <1>4

LEMMA InitInv == Init => Inv
  BY SchedulerAssumption
  DEF Init, Inv, TypeOK, JobShape, BatchShape, LateShape, RestShape, NoRow, GoneRow,
      IdleJob, Row, Job, On, Threads

(***************************************************************************)
(* The row and the job after each kind of update, stated once so that the  *)
(* step proofs need not take the records apart.                            *)
(***************************************************************************)
LEMMA RowUpdate ==
  ASSUME NEW r \in Row
  PROVE  /\ NoRow \in Row /\ GoneRow \in Row
         /\ NoRow.life = "unused" /\ GoneRow.life = "gone"
         /\ \A n \in Nat, b \in BOOLEAN : [r EXCEPT !.enabled = b, !.due = n] \in Row
         /\ \A n \in Nat, h \in Heads : [r EXCEPT !.due = n, !.status = h] \in Row
         /\ \A n \in Nat : [r EXCEPT !.due = n] \in Row
         /\ \A b \in BOOLEAN, c \in Inputs :
              /\ [r EXCEPT !.enabled = b, !.due = 0, !.conf = c] \in Row
              /\ [NoRow EXCEPT !.life = "live", !.enabled = b, !.conf = c] \in Row
  BY DEF Row, NoRow, GoneRow

LEMMA JobUpdate ==
  ASSUME NEW j \in Job
  PROVE  /\ IdleJob \in Job /\ IdleJob.pc = "idle"
         /\ \A s \in Schedules, c \in Inputs :
              [j EXCEPT !.pc = "exec", !.sid = s, !.conf = c] \in Job
         /\ \A r \in AnyResult : [j EXCEPT !.pc = "record", !.result = r] \in Job
         /\ [j EXCEPT !.pc = "failed"] \in Job
         /\ [j EXCEPT !.pc = "notify"] \in Job
         /\ [j EXCEPT !.pc = "post"] \in Job
  BY DEF Job, IdleJob

\* An UPDATE touches one row, and that only while it is there.
LEMMA UpdateEffect ==
  ASSUME row \in [Schedules -> Row], NEW s \in Schedules, NEW new \in Row, UpdateRow(s, new)
  PROVE  /\ row' \in [Schedules -> Row]
         /\ row[s].life # "live" => row' = row
         /\ row[s].life = "live" => row'[s] = new
         /\ \A x \in Schedules \ {s} : row'[x] = row[x]
  BY DEF UpdateRow

\* What a job's end does: a row and a rest, or neither.
LEMMA RecordEffect ==
  ASSUME TypeOK, JobShape, NEW t \in Threads, Finalize(t) \/ RecordFailure(t)
  PROVE  /\ job[t].sid \in Schedules
         /\ \/ row' = row /\ rest' = rest
            \/ /\ \E delay \in Nat, head \in Heads :
                    /\ delay >= MinInterval
                    /\ UpdateRow(job[t].sid, [row[job[t].sid] EXCEPT !.due = delay, !.status = head])
               /\ Rested(t)
         /\ faults' \in 0..MaxFaults
         /\ UNCHANGED <<thread, toggle, crashes, late>>
<1>1. /\ job[t].sid \in Schedules /\ job[t].conf \in Inputs /\ Valid(job[t].conf)
      /\ job[t].pc = "record" => job[t].result \in Results(job[t].conf.kind)
  BY DEF Finalize, RecordFailure, JobShape
<1>2. \A delay \in Datable(job[t].conf) : delay \in Nat /\ delay >= MinInterval
  BY <1>1, IntervalFloor DEF Datable
<1>3. faults' = faults \/ Fault
  BY DEF Finalize, RecordFailure
<1>4. faults' \in 0..MaxFaults
  BY <1>3, SchedulerAssumption DEF Fault, TypeOK
<1>5. UNCHANGED <<thread, toggle, crashes, late>>
  BY DEF Finalize, RecordFailure
<1>6. CASE Finalize(t)
  <2>1. StatusOf(job[t].result)[1] \in Heads
    BY ZenonT(60), <1>1, <1>6, StatusHead, SchedulerAssumption DEF Finalize, Conf
  <2>2. \/ row' = row /\ rest' = rest
        \/ /\ \E delay \in Datable(job[t].conf) :
                UpdateRow(job[t].sid, [row[job[t].sid] EXCEPT
                  !.due = delay, !.status = StatusOf(job[t].result)[1]])
           /\ Rested(t)
    BY <1>6 DEF Finalize
  <2> QED BY <1>1, <1>2, <1>4, <1>5, <2>1, <2>2
<1>7. CASE RecordFailure(t)
  <2>1. "err" \in Heads
    BY DEF Heads
  <2>2. \/ row' = row /\ rest' = rest
        \/ /\ \E delay \in Datable(job[t].conf) : UpdateRow(job[t].sid, FailedRow(t, delay))
           /\ Rested(t)
    BY <1>7 DEF RecordFailure
  <2> QED BY <1>1, <1>2, <1>4, <1>5, <2>1, <2>2 DEF FailedRow
<1> QED BY <1>6, <1>7

\* The types of what a job's end writes.
LEMMA RecordTypes ==
  ASSUME TypeOK, JobShape, NEW t \in Threads, Finalize(t) \/ RecordFailure(t)
  PROVE  /\ row' \in [Schedules -> Row]
         /\ \A x \in Schedules : IF row'[x].life = "live" THEN row'[x].conf \in Inputs
                                                          ELSE row'[x] \in {NoRow, GoneRow}
         /\ rest' \in [Schedules -> 0..MinInterval]
<1> DEFINE s == job[t].sid
<1>1. /\ s \in Schedules
      /\ \/ row' = row /\ rest' = rest
         \/ /\ \E delay \in Nat, head \in Heads :
                 UpdateRow(s, [row[s] EXCEPT !.due = delay, !.status = head])
            /\ Rested(t)
  BY RecordEffect
<1>2. CASE row' = row /\ rest' = rest
  BY <1>2 DEF TypeOK
<1>3. ASSUME NEW delay \in Nat, NEW head \in Heads, Rested(t),
             UpdateRow(s, [row[s] EXCEPT !.due = delay, !.status = head])
      PROVE  /\ row' \in [Schedules -> Row]
             /\ \A x \in Schedules : IF row'[x].life = "live" THEN row'[x].conf \in Inputs
                                                              ELSE row'[x] \in {NoRow, GoneRow}
             /\ rest' \in [Schedules -> 0..MinInterval]
  <2> DEFINE new == [row[s] EXCEPT !.due = delay, !.status = head]
  <2>1. row[s] \in Row
    BY <1>1 DEF TypeOK
  <2>2. new \in Row /\ new.life = row[s].life /\ new.conf = row[s].conf
    BY <2>1 DEF Row
  <2>3. UpdateRow(s, new)
    BY <1>3
  <2> HIDE DEF new
  <2>4. s \in Schedules
    BY <1>1
  <2> HIDE DEF s
  <2>5. /\ row' \in [Schedules -> Row]
        /\ row[s].life # "live" => row' = row
        /\ row[s].life = "live" => row'[s] = new
        /\ \A x \in Schedules \ {s} : row'[x] = row[x]
    BY <2>2, <2>3, <2>4, UpdateEffect DEF TypeOK
  <2>6. ASSUME NEW x \in Schedules
        PROVE  IF row'[x].life = "live" THEN row'[x].conf \in Inputs
                                        ELSE row'[x] \in {NoRow, GoneRow}
    <3>1. CASE row[s].life = "live" /\ x = s
      BY <2>2, <2>4, <2>5, <3>1 DEF TypeOK
    <3>2. CASE row[s].life # "live" \/ x # s
      BY <2>4, <2>5, <3>2 DEF TypeOK
    <3> QED BY <3>1, <3>2
  <2>7. rest' = rest \/ rest' = [rest EXCEPT ![s] = MinInterval]
    BY <1>3 DEF Rested, s
  <2>8. rest' \in [Schedules -> 0..MinInterval]
    BY <2>4, <2>7, SchedulerAssumption DEF TypeOK
  <2> QED BY <2>5, <2>6, <2>8
<1> QED BY <1>1, <1>2, <1>3

(***************************************************************************)
(* Type correctness is kept by every step.                                 *)
(***************************************************************************)
LEMMA TypeStep ==
  ASSUME TypeOK, JobShape, [Next]_vars
  PROVE  TypeOK'
<1> USE SchedulerAssumption DEF TypeOK
<1>1. CASE UNCHANGED vars
  BY <1>1 DEF vars
<1>2. ASSUME NEW s \in Schedules, NEW c \in Inputs, NEW enabled \in BOOLEAN,
             CreateSchedule(s, c, enabled)
      PROVE  TypeOK'
  <2>1. [NoRow EXCEPT !.life = "live", !.enabled = enabled, !.conf = c] \in Row
    BY RowUpdate
  <2> QED BY <1>2, <2>1 DEF CreateSchedule, NoRow
<1>3. ASSUME NEW s \in Schedules, NEW c \in Inputs, NEW enabled \in BOOLEAN,
             EditSchedule(s, c, enabled)
      PROVE  TypeOK'
  <2>1. [row[s] EXCEPT !.enabled = enabled, !.due = 0, !.conf = c] \in Row
    BY ZenonT(60), RowUpdate
  <2> QED BY SMTT(60), <1>3, <2>1 DEF EditSchedule, Row
<1>4. CASE \E s \in Schedules : DeleteSchedule(s)
  BY ZenonT(60), <1>4, RowUpdate DEF DeleteSchedule
<1>5. ASSUME NEW q \in Requests, NEW s \in Schedules, ToggleRead(q, s)
      PROVE  TypeOK'
  <2>1. [sid |-> s, enabled |-> row[s].enabled, due |-> row[s].due] \in PendingToggle
    BY DEF PendingToggle, Row
  <2> QED BY <1>5, <2>1 DEF ToggleRead
<1>6. ASSUME NEW q \in Requests, ToggleWrite(q)
      PROVE  TypeOK'
  <2>1. toggle[q] \in PendingToggle
    BY <1>6 DEF ToggleWrite
  <2>2. /\ toggle[q].sid \in Schedules /\ (~toggle[q].enabled) \in BOOLEAN
        /\ (IF ~toggle[q].enabled THEN 0 ELSE toggle[q].due) \in Nat
    BY <2>1 DEF PendingToggle
  <2>3. [row[toggle[q].sid] EXCEPT !.enabled = ~toggle[q].enabled,
                                   !.due = IF ~toggle[q].enabled THEN 0 ELSE toggle[q].due] \in Row
    BY <2>2, RowUpdate
  <2> QED BY <1>6, <2>2, <2>3 DEF ToggleWrite, UpdateRow, Row
<1>7. ASSUME NEW q \in Requests, NEW s \in Schedules, RunNow(q, s)
      PROVE  TypeOK'
  <2>1. row[s].conf \in Inputs /\ q \in Threads
    BY <1>7 DEF RunNow, Threads
  <2> QED BY <1>7, <2>1, JobUpdate DEF RunNow
<1>8. CASE Start \/ InitDb \/ EndTick
  BY <1>8 DEF Start, InitDb, EndTick, Fault
<1>9. CASE ReadDue
  <2>1. DueSchedules \subseteq Entry
    BY DEF DueSchedules, Entry, On
  <2> QED BY <1>9, <2>1 DEF ReadDue, Fault
<1>10. ASSUME NEW e \in batch, StartNext(e)
       PROVE  TypeOK'
  <2>1. e.sid \in Schedules /\ e.conf \in Inputs /\ Ticker \in Threads
    BY DEF Entry, Threads
  <2>2. [job[Ticker] EXCEPT !.pc = "exec", !.sid = e.sid, !.conf = e.conf] \in Job
    BY <2>1, JobUpdate
  <2>3. job' \in [Threads -> Job]
    BY <1>10, <2>1, <2>2 DEF StartNext
  <2>4. late' \in [Schedules -> 0..2]
    BY <1>10, <2>1 DEF StartNext
  <2> QED BY <1>10, <2>3, <2>4 DEF StartNext
<1>11. ASSUME NEW t \in Threads, Execute(t)
       PROVE  TypeOK'
  <2>1. job[t].conf \in Conf
    BY <1>11 DEF Execute, JobShape
  <2>2. \A r \in Results(job[t].conf.kind) : r \in AnyResult
    BY <2>1, ResultKinds DEF Conf
  <2>3. /\ \A r \in Results(job[t].conf.kind) : [job[t] EXCEPT !.pc = "record", !.result = r] \in Job
        /\ [job[t] EXCEPT !.pc = "failed"] \in Job
    BY <2>2, JobUpdate
  <2>4. job' \in [Threads -> Job]
    BY <1>11, <2>3 DEF Execute
  <2> QED BY <1>11, <2>4 DEF Execute
<1>12. ASSUME NEW t \in Threads, Finalize(t)
       PROVE  TypeOK'
  <2>1. /\ [job[t] EXCEPT !.pc = "notify"] \in Job
        /\ [job[t] EXCEPT !.pc = "failed"] \in Job
    BY JobUpdate
  <2>2. job' \in [Threads -> Job] /\ batch' = batch
    BY ZenonT(60), <1>12, <2>1 DEF Finalize
  <2> QED BY <1>12, <2>2, RecordEffect, RecordTypes
<1>13. ASSUME NEW t \in Threads, Notify(t)
       PROVE  TypeOK'
  <2>1. IdleJob \in Job /\ [job[t] EXCEPT !.pc = "post"] \in Job /\ [job[t] EXCEPT !.pc = "failed"] \in Job
    BY JobUpdate
  <2>2. \/ job' = [job EXCEPT ![t] = IdleJob]
        \/ job' = [job EXCEPT ![t] = [@ EXCEPT !.pc = "post"]]
        \/ job' = [job EXCEPT ![t] = [@ EXCEPT !.pc = "failed"]]
    BY <1>13 DEF Notify
  <2>3. job' \in [Threads -> Job]
    BY <2>1, <2>2
  <2> QED BY <1>13, <2>3 DEF Notify
<1>14. CASE \E t \in Threads : PostWebhook(t)
  BY <1>14, JobUpdate DEF PostWebhook
<1>15. ASSUME NEW t \in Threads, RecordFailure(t)
       PROVE  TypeOK'
  <2>1. job' \in [Threads -> Job] /\ batch' \subseteq Entry
    BY <1>15, JobUpdate DEF RecordFailure
  <2> QED BY <1>15, <2>1, RecordEffect, RecordTypes
<1>16. CASE ClockTick
  <2>1. \A n \in Nat : Sooner(n) \in Nat /\ Sooner(n) <= n
    BY DEF Sooner
  <2>2. ASSUME NEW x \in Schedules
        PROVE  /\ row'[x] = [row[x] EXCEPT !.due = Sooner(row[x].due)]
               /\ row'[x] \in Row
               /\ IF row'[x].life = "live" THEN row'[x].conf \in Inputs
                                           ELSE row'[x] \in {NoRow, GoneRow}
    <3>1. row'[x] = [row[x] EXCEPT !.due = Sooner(row[x].due)]
      BY <1>16 DEF ClockTick
    <3>2. row[x] \in Row /\ Sooner(row[x].due) \in Nat
      BY <2>1 DEF Row
    <3>3. row'[x] \in Row /\ row'[x].life = row[x].life /\ row'[x].conf = row[x].conf
      BY <3>1, <3>2 DEF Row
    <3>4. ASSUME row[x] \in {NoRow, GoneRow}
          PROVE  row'[x] = row[x]
      <4>1. row[x].due = 0 /\ Sooner(0) = 0
        BY <3>4 DEF NoRow, GoneRow, Sooner
      <4> QED BY <3>1, <3>2, <4>1 DEF Row
    <3> QED BY <3>1, <3>3, <3>4
  <2>3. row' \in [Schedules -> Row]
    BY <1>16, <2>2 DEF ClockTick
  <2>4. toggle' \in [Requests -> PendingToggle \cup {None}]
    BY <1>16, <2>1 DEF ClockTick, PendingToggle
  <2>5. rest' \in [Schedules -> 0..MinInterval]
    BY <1>16, <2>1 DEF ClockTick
  <2> QED BY <1>16, <2>2, <2>3, <2>4, <2>5 DEF ClockTick
<1>17. CASE Crash
  <2>1. IdleJob \in Job
    BY DEF IdleJob, Job
  <2> QED BY <1>17, <2>1 DEF Crash
<1> QED BY SMTT(60), <1>1, <1>2, <1>3, <1>4, <1>5, <1>6, <1>7, <1>8, <1>9, <1>10, <1>11, <1>12, <1>13,
           <1>14, <1>15, <1>16, <1>17, NextCases

(***************************************************************************)
(* What a step does to one row: nothing, or one of a few things.           *)
(***************************************************************************)
LEMMA RowStep ==
  ASSUME TypeOK, TypeOK', JobShape, [Next]_vars, NEW s \in Schedules
  PROVE  /\ row[s].life # "unused" => row'[s].life # "unused"
         /\ row'[s].life = "live" =>
              \/ row[s].life = "live" /\ row'[s].conf = row[s].conf
              \/ Valid(row'[s].conf)
<1> DEFINE Goal == /\ row[s].life # "unused" => row'[s].life # "unused"
                   /\ row'[s].life = "live" =>
                        \/ row[s].life = "live" /\ row'[s].conf = row[s].conf
                        \/ Valid(row'[s].conf)
<1>1. CASE UNCHANGED row
  BY <1>1
<1>2. ASSUME NEW x \in Schedules, NEW c \in Inputs, NEW enabled \in BOOLEAN,
             CreateSchedule(x, c, enabled)
      PROVE  Goal
  <2>1. CASE x = s
    BY <1>2, <2>1 DEF CreateSchedule, TypeOK, NoRow
  <2>2. CASE x # s
    BY <1>2, <2>2 DEF CreateSchedule, TypeOK
  <2> QED BY <2>1, <2>2
<1>3. ASSUME NEW x \in Schedules, NEW c \in Inputs, NEW enabled \in BOOLEAN,
             EditSchedule(x, c, enabled)
      PROVE  Goal
  <2>1. CASE x = s
    BY <1>3, <2>1 DEF EditSchedule, TypeOK, Row
  <2>2. CASE x # s
    BY <1>3, <2>2 DEF EditSchedule, TypeOK
  <2> QED BY <2>1, <2>2
<1>4. CASE \E x \in Schedules : DeleteSchedule(x)
  BY <1>4 DEF DeleteSchedule, TypeOK, GoneRow, NoRow
<1>5. ASSUME NEW x \in Schedules, NEW new \in Row, UpdateRow(x, new),
             new.life = row[x].life, new.conf = row[x].conf
      PROVE  Goal
  <2>1. /\ row[x].life # "live" => row' = row
        /\ row[x].life = "live" => row'[x] = new
        /\ \A y \in Schedules \ {x} : row'[y] = row[y]
    BY <1>5, UpdateEffect DEF TypeOK
  <2>2. CASE x = s
    BY <1>5, <2>1, <2>2
  <2>3. CASE x # s
    BY <2>1, <2>3
  <2> QED BY <2>2, <2>3
<1>6. ASSUME NEW q \in Requests, ToggleWrite(q)
      PROVE  Goal
  <2> DEFINE x == toggle[q].sid
             due == IF ~toggle[q].enabled THEN 0 ELSE toggle[q].due
             new == [row[x] EXCEPT !.enabled = ~toggle[q].enabled, !.due = due]
  <2>1. x \in Schedules /\ (~toggle[q].enabled) \in BOOLEAN /\ due \in Nat
    BY <1>6 DEF ToggleWrite, TypeOK, PendingToggle
  <2>2. UpdateRow(x, new)
    BY <1>6 DEF ToggleWrite
  <2>3. row[x] \in Row
    BY <2>1 DEF TypeOK
  <2> HIDE DEF due
  <2>4. new \in Row /\ new.life = row[x].life /\ new.conf = row[x].conf
    BY <2>1, <2>3 DEF Row
  <2> HIDE DEF x, new
  <2> QED BY <1>5, <2>1, <2>2, <2>4
<1>7. ASSUME NEW t \in Threads, Finalize(t) \/ RecordFailure(t)
      PROVE  Goal
  <2> DEFINE x == job[t].sid
  <2>1. x \in Schedules /\ row[x] \in Row
    BY <1>7, RecordEffect DEF TypeOK
  <2>2. \/ row' = row
        \/ \E delay \in Nat, head \in Heads :
             UpdateRow(x, [row[x] EXCEPT !.due = delay, !.status = head])
    BY <1>7, RecordEffect
  <2>3. ASSUME NEW delay \in Nat, NEW head \in Heads,
               UpdateRow(x, [row[x] EXCEPT !.due = delay, !.status = head])
        PROVE  Goal
    <3> DEFINE new == [row[x] EXCEPT !.due = delay, !.status = head]
    <3>1. new \in Row /\ new.life = row[x].life /\ new.conf = row[x].conf
      BY <2>1 DEF Row
    <3>2. UpdateRow(x, new)
      BY <2>3
    <3> HIDE DEF new, x
    <3> QED BY <1>5, <2>1, <3>1, <3>2
  <2> QED BY <1>1, <2>2, <2>3
<1>8. CASE ClockTick
  <2>1. row'[s] = [row[s] EXCEPT !.due = Sooner(row[s].due)] /\ row[s] \in Row
    BY <1>8 DEF ClockTick, TypeOK
  <2>2. row'[s].life = row[s].life /\ row'[s].conf = row[s].conf
    BY <2>1 DEF Row
  <2> QED BY <2>2
<1>9. ASSUME \/ \E q \in Requests, x \in Schedules : ToggleRead(q, x) \/ RunNow(q, x)
             \/ Start \/ InitDb \/ ReadDue \/ EndTick \/ Crash
             \/ \E e \in batch : StartNext(e)
             \/ \E t \in Threads : Execute(t) \/ Notify(t) \/ PostWebhook(t)
      PROVE  UNCHANGED row
  BY <1>9 DEF ToggleRead, RunNow, Start, InitDb, ReadDue, EndTick, Crash, StartNext, Execute,
              Notify, PostWebhook
<1> HIDE DEF Goal
<1>10. CASE Next
  BY <1>1, <1>2, <1>3, <1>4, <1>6, <1>7, <1>8, <1>9, <1>10, NextCases DEF Goal
<1> QED BY <1>1, <1>10 DEF vars, Goal

(***************************************************************************)
(* What a step does to one job: it ends it, goes on with it, or starts it  *)
(* from a row or a batch entry.                                            *)
(***************************************************************************)
LEMMA JobPhase ==
  ASSUME TypeOK, JobShape, [Next]_vars, NEW t \in Threads
  PROVE  \/ job'[t].pc = "idle"
         \/ job'[t] = job[t]
         \/ /\ job[t].pc # "idle" /\ job'[t].sid = job[t].sid /\ job'[t].conf = job[t].conf
            /\ \/ job'[t].pc = "failed"
               \/ job'[t].pc = "record" /\ job'[t].result \in Results(job[t].conf.kind)
               \/ /\ job[t].pc \in {"record", "notify"} /\ job'[t].pc \in {"notify", "post"}
                  /\ job'[t].result = job[t].result
         \/ /\ job'[t].pc = "exec" /\ job'[t].sid \in Schedules /\ job'[t].conf \in Inputs
            /\ row[job'[t].sid].life # "unused" /\ Valid(job'[t].conf)
<1> DEFINE Goal == \/ job'[t].pc = "idle"
                   \/ job'[t] = job[t]
                   \/ /\ job[t].pc # "idle" /\ job'[t].sid = job[t].sid
                      /\ job'[t].conf = job[t].conf
                      /\ \/ job'[t].pc = "failed"
                         \/ job'[t].pc = "record" /\ job'[t].result \in Results(job[t].conf.kind)
                         \/ /\ job[t].pc \in {"record", "notify"}
                            /\ job'[t].pc \in {"notify", "post"}
                            /\ job'[t].result = job[t].result
                   \/ /\ job'[t].pc = "exec" /\ job'[t].sid \in Schedules
                      /\ job'[t].conf \in Inputs
                      /\ row[job'[t].sid].life # "unused" /\ Valid(job'[t].conf)
<1>1. job[t] \in Job /\ job \in [Threads -> Job]
  BY DEF TypeOK
<1>2. CASE UNCHANGED job
  BY <1>2
<1>3. ASSUME NEW q \in Requests, NEW s \in Schedules, RunNow(q, s)
      PROVE  Goal
  <2>1. CASE t = q
    <3>1. job'[t] = [job[t] EXCEPT !.pc = "exec", !.sid = s, !.conf = row[s].conf]
      BY <1>1, <1>3, <2>1 DEF RunNow
    <3>2. job'[t].pc = "exec" /\ job'[t].sid = s /\ job'[t].conf = row[s].conf
      BY <1>1, <3>1 DEF Job
    <3>3. row[s].life = "live" /\ row[s].conf \in Inputs /\ Valid(row[s].conf)
      BY <1>3 DEF RunNow, TypeOK, JobShape
    <3> QED BY <3>2, <3>3
  <2>2. CASE t # q
    BY <1>1, <1>3, <2>2 DEF RunNow
  <2> QED BY <2>1, <2>2
<1>4. ASSUME NEW e \in batch, StartNext(e)
      PROVE  Goal
  <2>1. CASE t = Ticker
    <3>1. job'[t] = [job[t] EXCEPT !.pc = "exec", !.sid = e.sid, !.conf = e.conf]
      BY <1>1, <1>4, <2>1 DEF StartNext
    <3>2. job'[t].pc = "exec" /\ job'[t].sid = e.sid /\ job'[t].conf = e.conf
      BY <1>1, <3>1 DEF Job
    <3>3. /\ e.sid \in Schedules /\ e.conf \in Inputs
          /\ row[e.sid].life # "unused" /\ Valid(e.conf)
      BY DEF TypeOK, JobShape, Entry
    <3> QED BY <3>2, <3>3
  <2>2. CASE t # Ticker
    BY <1>1, <1>4, <2>2 DEF StartNext
  <2> QED BY <2>1, <2>2
<1>5. ASSUME NEW u \in Threads, Execute(u)
      PROVE  Goal
  <2>1. CASE t = u
    <3>1. ASSUME NEW r \in Results(job[t].conf.kind),
                 job' = [job EXCEPT ![t] = [@ EXCEPT !.pc = "record", !.result = r]]
          PROVE  Goal
      <4>1. job'[t] = [job[t] EXCEPT !.pc = "record", !.result = r]
        BY <1>1, <3>1
      <4>2. /\ job'[t].pc = "record" /\ job'[t].result = r
            /\ job'[t].sid = job[t].sid /\ job'[t].conf = job[t].conf
        BY <1>1, <4>1 DEF Job
      <4> QED BY <1>5, <2>1, <4>2 DEF Execute
    <3>2. ASSUME job' = [job EXCEPT ![t] = [@ EXCEPT !.pc = "failed"]]
          PROVE  Goal
      BY <1>1, <1>5, <2>1, <3>2 DEF Execute, Job
    <3> QED BY <1>5, <2>1, <3>1, <3>2 DEF Execute
  <2>2. CASE t # u
    BY <1>1, <1>5, <2>2 DEF Execute
  <2> QED BY SMTT(60), <2>1, <2>2
<1>6. ASSUME NEW u \in Threads, Finalize(u)
      PROVE  Goal
  <2>1. /\ job[u].pc = "record"
        /\ \/ job' = [job EXCEPT ![u].pc = "notify"]
           \/ job' = [job EXCEPT ![u].pc = "failed"]
    BY <1>6 DEF Finalize
  <2> QED BY <1>1, <2>1 DEF Job
<1>7. ASSUME NEW u \in Threads, Notify(u)
      PROVE  Goal
  <2>1. /\ job[u].pc = "notify"
        /\ \/ job' = [job EXCEPT ![u] = IdleJob]
           \/ job' = [job EXCEPT ![u] = [@ EXCEPT !.pc = "post"]]
           \/ job' = [job EXCEPT ![u] = [@ EXCEPT !.pc = "failed"]]
    BY <1>7 DEF Notify
  <2> QED BY <1>1, <2>1 DEF Job, IdleJob
<1>8. CASE \E u \in Threads : PostWebhook(u) \/ RecordFailure(u)
  BY <1>1, <1>8 DEF PostWebhook, RecordFailure, IdleJob
<1>9. CASE Crash
  BY <1>9 DEF Crash, IdleJob
<1>10. ASSUME \/ \E s \in Schedules, c \in Inputs, enabled \in BOOLEAN :
                   CreateSchedule(s, c, enabled) \/ EditSchedule(s, c, enabled)
              \/ \E s \in Schedules : DeleteSchedule(s)
              \/ \E q \in Requests, s \in Schedules : ToggleRead(q, s)
              \/ \E q \in Requests : ToggleWrite(q)
              \/ Start \/ InitDb \/ ReadDue \/ EndTick \/ ClockTick
       PROVE  UNCHANGED job
  BY <1>10 DEF CreateSchedule, EditSchedule, DeleteSchedule, ToggleRead, ToggleWrite, Start,
               InitDb, ReadDue, EndTick, ClockTick
<1> HIDE DEF Goal
<1>11. CASE Next
  BY <1>2, <1>3, <1>4, <1>5, <1>6, <1>7, <1>8, <1>9, <1>10, <1>11, NextCases DEF Goal
<1> QED BY <1>2, <1>11 DEF vars, Goal

(***************************************************************************)
(* The batch only shrinks, but for the thread reading a new one.           *)
(***************************************************************************)
LEMMA BatchChange ==
  ASSUME [Next]_vars
  PROVE  \/ batch' \subseteq batch
         \/ ReadDue /\ batch' = DueSchedules
<1>1. CASE ReadDue
  BY <1>1 DEF ReadDue
<1>2. CASE \E t \in Threads : RecordFailure(t)
  BY SMTT(60), <1>2 DEF RecordFailure
<1>3. CASE Next /\ ~ReadDue /\ ~(\E t \in Threads : RecordFailure(t))
  BY <1>3, NextCases
  DEF CreateSchedule, EditSchedule, DeleteSchedule, ToggleRead, ToggleWrite, RunNow, Start,
      InitDb, EndTick, StartNext, Execute, Finalize, Notify, PostWebhook, ClockTick, Crash
<1>4. CASE UNCHANGED vars
  BY <1>4 DEF vars
<1> QED BY <1>1, <1>2, <1>3, <1>4

LEMMA ShapeStep ==
  ASSUME TypeOK, TypeOK', JobShape, [Next]_vars
  PROVE  JobShape'
<1>1. \A s \in Schedules : row'[s].life = "live" => Valid(row'[s].conf)
  BY RowStep DEF JobShape
<1>2. ASSUME NEW e \in batch'
      PROVE  row'[e.sid].life # "unused" /\ Valid(e.conf)
  <2>1. e.sid \in Schedules
    BY DEF TypeOK, Entry
  <2>2. CASE e \in batch
    BY <2>1, <2>2, RowStep DEF JobShape
  <2>3. CASE ReadDue /\ batch' = DueSchedules
    BY <2>3 DEF ReadDue, DueSchedules, On, JobShape
  <2> QED BY <2>2, <2>3, BatchChange
<1>3. ASSUME NEW t \in Threads
      PROVE  /\ job'[t].pc # "idle" =>
                  /\ job'[t].sid \in Schedules /\ row'[job'[t].sid].life # "unused"
                  /\ job'[t].conf \in Inputs /\ Valid(job'[t].conf)
             /\ job'[t].pc \in {"record", "notify", "post"} =>
                  job'[t].result \in Results(job'[t].conf.kind)
  BY JobPhase, RowStep DEF JobShape
<1> QED BY <1>1, <1>2, <1>3 DEF JobShape

(***************************************************************************)
(* The batch names each schedule once, and not the one being run.          *)
(***************************************************************************)
LEMMA BatchStep ==
  ASSUME TypeOK, JobShape, BatchShape, [Next]_vars
  PROVE  BatchShape'
<1>1. \A e, f \in batch' : e.sid = f.sid => e = f
  BY BatchChange DEF BatchShape, DueSchedules
<1> DEFINE Goal == job'[Ticker].pc # "idle" =>
                     thread' = "tick" /\ (\A e \in batch' : e.sid # job'[Ticker].sid)
<1> SUFFICES Goal
  BY <1>1 DEF BatchShape
<1>2. Ticker \in Threads /\ Ticker \notin Requests
  BY SchedulerAssumption DEF Threads
<1>3. ASSUME job'[Ticker].pc = "idle" \/
             /\ job[Ticker].pc # "idle" /\ job'[Ticker].sid = job[Ticker].sid
             /\ thread' = thread /\ batch' \subseteq batch
      PROVE  Goal
  BY <1>3 DEF BatchShape
<1>4. CASE UNCHANGED <<job, thread, batch>>
  BY <1>4 DEF BatchShape
<1>5. ASSUME NEW e \in batch, StartNext(e)
      PROVE  Goal
  <2>1. /\ job[Ticker] \in Job /\ thread' = "tick" /\ batch' = batch \ {e}
        /\ job'[Ticker] = [job[Ticker] EXCEPT !.pc = "exec", !.sid = e.sid, !.conf = e.conf]
    BY <1>2, <1>5 DEF StartNext, TypeOK
  <2>2. job'[Ticker].sid = e.sid
    BY <2>1 DEF Job
  <2> QED BY <2>1, <2>2 DEF BatchShape
<1>6. ASSUME NEW t \in Threads, Execute(t) \/ Finalize(t) \/ Notify(t) \/ PostWebhook(t)
                                  \/ RecordFailure(t)
      PROVE  Goal
  <2>1. thread' = thread /\ batch' \subseteq batch /\ job[t].pc # "idle"
    BY <1>6 DEF Execute, Finalize, Notify, PostWebhook, RecordFailure
  <2>2. CASE t = Ticker
    <3>1. job'[t].pc = "idle" \/ job'[t] = job[t] \/ job'[t].sid = job[t].sid \/ job'[t].pc = "exec"
      BY JobPhase
    <3>2. job'[t].pc # "exec"
      <4>1. job[t] \in Job /\ job \in [Threads -> Job]
        BY DEF TypeOK
      <4>2. CASE Execute(t)
        <5>1. \/ \E r \in Results(job[t].conf.kind) :
                   job' = [job EXCEPT ![t] = [@ EXCEPT !.pc = "record", !.result = r]]
              \/ job' = [job EXCEPT ![t] = [@ EXCEPT !.pc = "failed"]]
          BY <4>2 DEF Execute
        <5>2. ASSUME NEW r, job' = [job EXCEPT ![t] = [@ EXCEPT !.pc = "record", !.result = r]]
              PROVE  job'[t].pc = "record"
          BY <4>1, <5>2 DEF Job
        <5>3. CASE job' = [job EXCEPT ![t] = [@ EXCEPT !.pc = "failed"]]
          BY <4>1, <5>3 DEF Job
        <5> QED BY <5>1, <5>2, <5>3
      <4>3. CASE Finalize(t)
        BY <4>1, <4>3 DEF Finalize, Job
      <4>4. CASE Notify(t)
        BY <4>1, <4>4 DEF Notify, Job, IdleJob
      <4>5. CASE PostWebhook(t) \/ RecordFailure(t)
        BY <4>1, <4>5 DEF PostWebhook, RecordFailure, IdleJob
      <4> QED BY <1>6, <4>2, <4>3, <4>4, <4>5
    <3> QED BY <1>3, <2>1, <2>2, <3>1, <3>2
  <2>3. CASE t # Ticker
    <3>1. job'[Ticker] = job[Ticker]
      BY <1>2, <1>6, <2>3
      DEF Execute, Finalize, Notify, PostWebhook, RecordFailure, TypeOK
    <3> QED BY <1>3, <2>1, <3>1
  <2> QED BY SMTT(60), <2>2, <2>3
<1>7. ASSUME NEW q \in Requests, NEW s \in Schedules, RunNow(q, s)
      PROVE  Goal
  <2>1. job'[Ticker] = job[Ticker] /\ thread' = thread /\ batch' = batch
    BY <1>2, <1>7 DEF RunNow, TypeOK
  <2> QED BY <2>1 DEF BatchShape
<1>8. CASE Start \/ InitDb \/ ReadDue \/ EndTick
  <2>1. job' = job /\ job[Ticker].pc = "idle"
    BY <1>8 DEF Start, InitDb, ReadDue, EndTick, BatchShape
  <2> QED BY <1>3, <2>1
<1>9. CASE Crash
  BY <1>2, <1>3, <1>9 DEF Crash, IdleJob
<1>10. ASSUME \/ \E s \in Schedules, c \in Inputs, enabled \in BOOLEAN :
                   CreateSchedule(s, c, enabled) \/ EditSchedule(s, c, enabled)
              \/ \E s \in Schedules : DeleteSchedule(s)
              \/ \E q \in Requests, s \in Schedules : ToggleRead(q, s)
              \/ \E q \in Requests : ToggleWrite(q)
              \/ ClockTick
       PROVE  UNCHANGED <<job, thread, batch>>
  BY <1>10 DEF CreateSchedule, EditSchedule, DeleteSchedule, ToggleRead, ToggleWrite, ClockTick
<1> HIDE DEF Goal
<1>11. CASE Next
  BY <1>4, <1>5, <1>6, <1>7, <1>8, <1>9, <1>10, <1>11, NextCases
<1> QED BY <1>4, <1>11 DEF vars

(***************************************************************************)
(* The end of a job moves its row's next run by the least interval, or     *)
(* leaves the row as it was.                                               *)
(***************************************************************************)
LEMMA RecordRow ==
  ASSUME TypeOK, JobShape, NEW t \in Threads, Finalize(t) \/ RecordFailure(t),
         NEW x \in Schedules
  PROVE  /\ row'[x].life = row[x].life /\ row'[x].enabled = row[x].enabled
         /\ row'[x] = row[x] \/ row'[x].due >= MinInterval
         /\ \/ rest'[x] = rest[x]
            \/ /\ t = Ticker /\ x = job[t].sid /\ rest'[x] = MinInterval
               /\ row[x].life = "live" => row'[x].due >= MinInterval
<1> DEFINE Goal == /\ row'[x].life = row[x].life /\ row'[x].enabled = row[x].enabled
                   /\ row'[x] = row[x] \/ row'[x].due >= MinInterval
                   /\ \/ rest'[x] = rest[x]
                      \/ /\ t = Ticker /\ x = job[t].sid /\ rest'[x] = MinInterval
                         /\ row[x].life = "live" => row'[x].due >= MinInterval
           s == job[t].sid
           new(delay, head) == [row[s] EXCEPT !.due = delay, !.status = head]
<1> SUFFICES Goal
  OBVIOUS
<1>1. s \in Schedules
  BY RecordEffect
<1>2. CASE row' = row /\ rest' = rest
  BY <1>2
<1>3. ASSUME NEW delay \in Nat, NEW head \in Heads, delay >= MinInterval,
             UpdateRow(s, new(delay, head)), Rested(t)
      PROVE  Goal
  <2>1. row[s] \in Row
    BY <1>1 DEF TypeOK
  <2>2. /\ new(delay, head) \in Row /\ new(delay, head).life = row[s].life
        /\ new(delay, head).enabled = row[s].enabled /\ new(delay, head).due = delay
    BY <2>1 DEF Row
  <2>3. rest' = rest \/ (t = Ticker /\ rest' = [rest EXCEPT ![s] = MinInterval])
    BY <1>3 DEF Rested
  <2>4. rest \in [Schedules -> 0..MinInterval]
    BY DEF TypeOK
  <2> HIDE DEF new, s
  <2>5. /\ row[s].life # "live" => row' = row
        /\ row[s].life = "live" => row'[s] = new(delay, head)
        /\ \A y \in Schedules \ {s} : row'[y] = row[y]
    BY <1>1, <1>3, <2>2, UpdateEffect DEF TypeOK
  <2>6. CASE x = s
    BY <1>1, <1>3, <2>2, <2>3, <2>4, <2>5, <2>6 DEF s
  <2>7. CASE x # s
    BY <1>1, <2>3, <2>4, <2>5, <2>7
  <2> QED BY <2>6, <2>7
<1>4. \/ row' = row /\ rest' = rest
      \/ \E delay \in Nat, head \in Heads :
           delay >= MinInterval /\ UpdateRow(s, new(delay, head)) /\ Rested(t)
  BY RecordEffect
<1> HIDE DEF Goal, new, s
<1> QED BY <1>2, <1>3, <1>4

(***************************************************************************)
(* What a toggle's UPDATE does.                                            *)
(***************************************************************************)
LEMMA ToggleRow ==
  ASSUME TypeOK, NEW q \in Requests, ToggleWrite(q), NEW x \in Schedules
  PROVE  /\ row'[x].life = row[x].life
         /\ \/ row'[x] = row[x] /\ (x # toggle[q].sid \/ row[x].life # "live")
            \/ x = toggle[q].sid /\ row'[x].enabled = ~toggle[q].enabled
         /\ late'[x] = IF x = toggle[q].sid /\ ~toggle[q].enabled THEN 0 ELSE late[x]
         /\ rest'[x] = IF x = toggle[q].sid THEN 0 ELSE rest[x]
<1> DEFINE s == toggle[q].sid
           due == IF ~toggle[q].enabled THEN 0 ELSE toggle[q].due
           new == [row[s] EXCEPT !.enabled = ~toggle[q].enabled, !.due = due]
<1>1. s \in Schedules /\ (~toggle[q].enabled) \in BOOLEAN /\ due \in Nat
  BY DEF ToggleWrite, TypeOK, PendingToggle
<1>2. UpdateRow(s, new)
  BY DEF ToggleWrite
<1>3. row[s] \in Row
  BY <1>1 DEF TypeOK
<1>4. /\ late'[x] = IF x = s /\ ~toggle[q].enabled THEN 0 ELSE late[x]
      /\ rest'[x] = IF x = s THEN 0 ELSE rest[x]
  BY DEF ToggleWrite, TypeOK
<1> HIDE DEF due
<1>5. new \in Row /\ new.life = row[s].life /\ new.enabled = ~toggle[q].enabled
  BY <1>1, <1>3 DEF Row
<1> HIDE DEF new, s
<1>6. /\ row[s].life # "live" => row' = row
      /\ row[s].life = "live" => row'[s] = new
      /\ \A y \in Schedules \ {s} : row'[y] = row[y]
  BY <1>1, <1>2, <1>5, UpdateEffect DEF TypeOK
<1> QED BY <1>1, <1>4, <1>5, <1>6 DEF s

(***************************************************************************)
(* LateShape: a late start has used up the schedule's place in the batch.  *)
(***************************************************************************)
LEMMA LateStep ==
  ASSUME TypeOK, JobShape, BatchShape, LateShape, [Next]_vars
  PROVE  LateShape'
<1> SUFFICES ASSUME NEW s \in Schedules
             PROVE  /\ On(s)' \/ row'[s].life = "unused" => late'[s] = 0
                    /\ late'[s] <= 1
                    /\ late'[s] = 1 => \A e \in batch' : e.sid # s
  BY DEF LateShape
<1> DEFINE Goal == /\ On(s)' \/ row'[s].life = "unused" => late'[s] = 0
                   /\ late'[s] <= 1
                   /\ late'[s] = 1 => \A e \in batch' : e.sid # s
<1> USE DEF LateShape, On
<1>1. late \in [Schedules -> 0..2] /\ row \in [Schedules -> Row] /\ batch \subseteq Entry
  BY DEF TypeOK
<1>2. ASSUME UNCHANGED late, batch' \subseteq batch,
             row'[s].life = row[s].life, row'[s].enabled = row[s].enabled
      PROVE  Goal
  BY <1>1, <1>2
<1>3. ASSUME NEW x \in Schedules, NEW c \in Inputs, NEW enabled \in BOOLEAN,
             CreateSchedule(x, c, enabled)
      PROVE  Goal
  <2>1. CASE x = s
    BY <1>1, <1>3, <2>1 DEF CreateSchedule
  <2>2. CASE x # s
    BY <1>1, <1>2, <1>3, <2>2 DEF CreateSchedule
  <2> QED BY <2>1, <2>2
<1>4. ASSUME NEW x \in Schedules, NEW c \in Inputs, NEW enabled \in BOOLEAN,
             EditSchedule(x, c, enabled)
      PROVE  Goal
  <2>1. CASE x = s
    <3>1. /\ row'[s].life = "live" /\ row'[s].enabled = enabled
          /\ late'[s] = (IF enabled THEN 0 ELSE late[s]) /\ batch' = batch
      BY <1>1, <1>4, <2>1 DEF EditSchedule, Row
    <3> QED BY <1>1, <3>1
  <2>2. CASE x # s
    <3>1. row'[s] = row[s] /\ late'[s] = late[s] /\ batch' = batch
      BY <1>1, <1>4, <2>2 DEF EditSchedule
    <3> QED BY <1>1, <3>1
  <2> QED BY <2>1, <2>2
<1>5. ASSUME NEW x \in Schedules, DeleteSchedule(x)
      PROVE  Goal
  <2>1. CASE x = s
    BY <1>1, <1>5, <2>1 DEF DeleteSchedule, GoneRow, NoRow
  <2>2. CASE x # s
    BY <1>1, <1>2, <1>5, <2>2 DEF DeleteSchedule
  <2> QED BY <2>1, <2>2
<1>6. ASSUME NEW q \in Requests, ToggleWrite(q)
      PROVE  Goal
  <2>1. batch' = batch /\ toggle[q].enabled \in BOOLEAN
    BY <1>6 DEF ToggleWrite, TypeOK, PendingToggle
  <2>2. /\ row'[s].life = row[s].life
        /\ \/ row'[s] = row[s] /\ (s # toggle[q].sid \/ row[s].life # "live")
           \/ s = toggle[q].sid /\ row'[s].enabled = ~toggle[q].enabled
        /\ late'[s] = IF s = toggle[q].sid /\ ~toggle[q].enabled THEN 0 ELSE late[s]
    BY <1>6, ToggleRow
  <2>3. CASE s = toggle[q].sid /\ ~toggle[q].enabled
    BY <1>1, <2>1, <2>2, <2>3
  <2>4. CASE ~(s = toggle[q].sid /\ ~toggle[q].enabled)
    <3>1. late'[s] = late[s]
      BY <2>2, <2>4
    <3>2. CASE row'[s] = row[s]
      BY <1>1, <2>1, <3>1, <3>2
    <3>3. CASE s = toggle[q].sid /\ row'[s].enabled = ~toggle[q].enabled
      <4>1. ~On(s)'
        BY <2>4, <3>3
      <4> QED BY <1>1, <2>1, <2>2, <3>1, <4>1
    <3> QED BY <2>2, <3>2, <3>3
  <2> QED BY <2>3, <2>4
<1>7. ASSUME ReadDue
      PROVE  Goal
  <2>1. row' = row /\ late' = late
    BY <1>7 DEF ReadDue
  <2>2. CASE batch' = batch
    BY <1>2, <2>1, <2>2
  <2>3. CASE batch' = DueSchedules
    <3>1. \A e \in batch' : On(e.sid)
      BY <2>3 DEF DueSchedules
    <3> QED BY <1>1, <2>1, <3>1
  <2> QED BY <1>7, <2>2, <2>3 DEF ReadDue
<1>8. ASSUME NEW e \in batch, StartNext(e)
      PROVE  Goal
  <2>1. /\ row' = row /\ batch' = batch \ {e} /\ e.sid \in Schedules
        /\ late' = [late EXCEPT ![e.sid] = IF On(e.sid) \/ @ = 2 THEN @ ELSE @ + 1]
    BY <1>1, <1>8 DEF StartNext, Entry
  <2>2. CASE s = e.sid
    <3>1. \A f \in batch' : f.sid # s
      BY <2>1, <2>2 DEF BatchShape
    <3>2. late[s] = 0
      BY <1>1, <2>2
    <3>3. late'[s] = (IF On(s) THEN 0 ELSE 1)
      BY <1>1, <2>1, <2>2, <3>2
    <3>4. (~On(s)' /\ row'[s].life # "unused") \/ late'[s] = 0
      BY <2>1, <2>2, <3>3 DEF JobShape
    <3> QED BY <3>1, <3>3, <3>4
  <2>3. CASE s # e.sid
    BY <1>1, <2>1, <2>3
  <2> QED BY <2>2, <2>3
<1>9. ASSUME NEW t \in Threads, Finalize(t) \/ RecordFailure(t)
      PROVE  Goal
  <2>1. late' = late /\ batch' \subseteq batch
    BY <1>9 DEF Finalize, RecordFailure
  <2> QED BY <1>2, <1>9, <2>1, RecordRow
<1>10. ASSUME ClockTick
       PROVE  Goal
  <2>1. /\ row'[s] = [row[s] EXCEPT !.due = Sooner(row[s].due)] /\ row[s] \in Row
        /\ late' = late /\ batch' = batch
    BY <1>1, <1>10 DEF ClockTick
  <2>2. row'[s].life = row[s].life /\ row'[s].enabled = row[s].enabled
    BY <2>1 DEF Row
  <2> QED BY <1>2, <2>1, <2>2
<1>11. ASSUME \/ \E q \in Requests, x \in Schedules : ToggleRead(q, x) \/ RunNow(q, x)
              \/ Start \/ InitDb \/ EndTick \/ Crash
              \/ \E t \in Threads : Execute(t) \/ Notify(t) \/ PostWebhook(t)
              \/ UNCHANGED vars
       PROVE  Goal
  <2>1. row' = row /\ late' = late /\ batch' \subseteq batch
    BY <1>11 DEF ToggleRead, RunNow, Start, InitDb, EndTick, Crash, Execute, Notify,
                 PostWebhook, vars
  <2> QED BY <1>2, <2>1
<1> HIDE DEF Goal
<1>12. Goal
  BY <1>3, <1>4, <1>5, <1>6, <1>7, <1>8, <1>9, <1>10, <1>11, NextCases
<1> QED BY <1>12 DEF Goal

(***************************************************************************)
(* RestShape: next_run_at keeps the thread away long enough.               *)
(***************************************************************************)
LEMMA RestStep ==
  ASSUME TypeOK, TypeOK', JobShape, BatchShape, RestShape, [Next]_vars
  PROVE  RestShape'
<1> SUFFICES ASSUME NEW s \in Schedules
             PROVE  /\ row'[s].life = "live" => rest'[s] <= row'[s].due
                    /\ row'[s].life = "unused" => rest'[s] = 0
                    /\ (\E e \in batch' : e.sid = s) => rest'[s] = 0
  BY DEF RestShape, TypeOK, Entry
<1> DEFINE Goal == /\ row'[s].life = "live" => rest'[s] <= row'[s].due
                   /\ row'[s].life = "unused" => rest'[s] = 0
                   /\ (\E e \in batch' : e.sid = s) => rest'[s] = 0
<1>1. /\ rest \in [Schedules -> 0..MinInterval] /\ row \in [Schedules -> Row]
      /\ batch \subseteq Entry /\ row[s] \in Row /\ rest[s] \in 0..MinInterval
      /\ MinInterval \in Nat /\ row[s].due \in Nat
  BY SchedulerAssumption DEF TypeOK, Row
<1>2. /\ row[s].life = "live" => rest[s] <= row[s].due
      /\ row[s].life = "unused" => rest[s] = 0
      /\ (\E e \in batch : e.sid = s) => rest[s] = 0
  BY DEF RestShape
<1>3. ASSUME row'[s] = row[s], rest'[s] = rest[s], batch' \subseteq batch
      PROVE  Goal
  BY <1>2, <1>3
<1>4. row'[s] \in Row /\ row'[s].due \in Nat
  BY DEF TypeOK, Row
<1>5. ASSUME NEW x \in Schedules, NEW c \in Inputs, NEW enabled \in BOOLEAN,
             CreateSchedule(x, c, enabled)
      PROVE  Goal
  <2>1. CASE x = s
    BY <1>1, <1>2, <1>4, <1>5, <2>1 DEF CreateSchedule
  <2>2. CASE x # s
    BY <1>1, <1>3, <1>5, <2>2 DEF CreateSchedule
  <2> QED BY <2>1, <2>2
<1>6. ASSUME NEW x \in Schedules, NEW c \in Inputs, NEW enabled \in BOOLEAN,
             EditSchedule(x, c, enabled)
      PROVE  Goal
  <2>1. CASE x = s
    BY <1>1, <1>4, <1>6, <2>1 DEF EditSchedule
  <2>2. CASE x # s
    BY <1>1, <1>3, <1>6, <2>2 DEF EditSchedule
  <2> QED BY <2>1, <2>2
<1>7. ASSUME NEW x \in Schedules, DeleteSchedule(x)
      PROVE  Goal
  <2>1. CASE x = s
    BY <1>1, <1>2, <1>7, <2>1 DEF DeleteSchedule, GoneRow, NoRow
  <2>2. CASE x # s
    BY <1>1, <1>3, <1>7, <2>2 DEF DeleteSchedule
  <2> QED BY <2>1, <2>2
<1>8. ASSUME NEW q \in Requests, ToggleWrite(q)
      PROVE  Goal
  <2>1. batch' = batch
    BY <1>8 DEF ToggleWrite
  <2>2. /\ row'[s] = row[s] \/ s = toggle[q].sid
        /\ rest'[s] = IF s = toggle[q].sid THEN 0 ELSE rest[s]
    BY <1>8, ToggleRow
  <2> QED BY <1>2, <1>4, <2>1, <2>2
<1>9. ASSUME ReadDue
      PROVE  Goal
  <2>1. row' = row /\ rest' = rest
    BY <1>9 DEF ReadDue
  <2>2. CASE batch' = batch
    BY <1>3, <2>1, <2>2
  <2>3. CASE batch' = DueSchedules
    <3>1. (\E e \in batch' : e.sid = s) => row[s].life = "live" /\ row[s].due = 0
      BY <2>3 DEF DueSchedules, On
    <3> QED BY <1>1, <1>2, <2>1, <3>1
  <2> QED BY <1>9, <2>2, <2>3 DEF ReadDue
<1>10. ASSUME NEW e \in batch, StartNext(e)
       PROVE  Goal
  BY <1>3, <1>10 DEF StartNext
<1>11. ASSUME NEW t \in Threads, Finalize(t) \/ RecordFailure(t)
       PROVE  Goal
  <2>1. batch' \subseteq batch /\ job[t].pc # "idle"
    BY <1>11 DEF Finalize, RecordFailure
  <2>2. /\ row'[s].life = row[s].life
        /\ row'[s] = row[s] \/ row'[s].due >= MinInterval
        /\ \/ rest'[s] = rest[s]
           \/ /\ t = Ticker /\ s = job[t].sid /\ rest'[s] = MinInterval
              /\ row[s].life = "live" => row'[s].due >= MinInterval
    BY <1>11, RecordRow
  <2>3. CASE rest'[s] = rest[s]
    BY <1>1, <1>2, <1>4, <2>1, <2>2, <2>3
  <2>4. CASE rest'[s] # rest[s]
    <3>1. /\ s = job[t].sid /\ t = Ticker /\ rest'[s] = MinInterval
          /\ row[s].life = "live" => row'[s].due >= MinInterval
      BY <2>2, <2>4
    <3>2. \A e \in batch' : e.sid # s
      BY <2>1, <3>1 DEF BatchShape
    <3>3. row[s].life # "unused"
      BY <2>1, <3>1 DEF JobShape
    <3> QED BY <1>1, <1>4, <2>2, <3>1, <3>2, <3>3
  <2> QED BY <2>3, <2>4
<1>12. ASSUME ClockTick
       PROVE  Goal
  <2>1. /\ row'[s] = [row[s] EXCEPT !.due = Sooner(row[s].due)]
        /\ rest'[s] = Sooner(rest[s]) /\ batch' = batch
    BY <1>1, <1>12 DEF ClockTick
  <2>2. row'[s].life = row[s].life /\ row'[s].due = Sooner(row[s].due)
    BY <1>1, <2>1 DEF Row
  <2> QED BY <1>1, <1>2, <2>1, <2>2 DEF Sooner
<1>13. ASSUME \/ \E q \in Requests, x \in Schedules : ToggleRead(q, x) \/ RunNow(q, x)
              \/ Start \/ InitDb \/ EndTick \/ Crash
              \/ \E t \in Threads : Execute(t) \/ Notify(t) \/ PostWebhook(t)
              \/ UNCHANGED vars
       PROVE  Goal
  <2>1. row' = row /\ rest' = rest /\ batch' \subseteq batch
    BY <1>13 DEF ToggleRead, RunNow, Start, InitDb, EndTick, Crash, Execute, Notify,
                 PostWebhook, vars
  <2> QED BY <1>3, <2>1
<1> HIDE DEF Goal
<1>14. Goal
  BY <1>5, <1>6, <1>7, <1>8, <1>9, <1>10, <1>11, <1>12, <1>13, NextCases
<1> QED BY <1>14 DEF Goal

(***************************************************************************)
(* The inductive invariant, and what follows from it.                      *)
(***************************************************************************)
THEOREM Invariance == Spec => []Inv
<1>1. Init => Inv
  BY InitInv
<1>2. Inv /\ [Next]_vars => Inv'
  BY TypeStep, ShapeStep, BatchStep, LateStep, RestStep DEF Inv
<1> QED BY <1>1, <1>2, PTL DEF Spec

(***************************************************************************)
(* The tables, the threads and the counters keep their types.              *)
(***************************************************************************)
THEOREM TypeCorrect == Spec => []TypeOK
<1>1. Inv => TypeOK
  BY DEF Inv
<1> QED BY <1>1, Invariance, PTL

(***************************************************************************)
(* A schedule is started at most once after it was switched off, with any  *)
(* number of schedules in the batch and of requests under way.             *)
(***************************************************************************)
THEOREM LateRuns == Spec => []LateRunBound
<1>1. Inv => LateRunBound
  BY DEF Inv, LateShape, LateRunBound
<1> QED BY <1>1, Invariance, PTL

(***************************************************************************)
(* The thread never runs a schedule again before the least interval.       *)
(***************************************************************************)
THEOREM Pacing == Spec => Paced
<1>1. Inv /\ [Next]_vars => [\A e \in batch : StartNext(e) => rest[e.sid] = 0]_vars
  BY DEF Inv, RestShape
<1> QED BY <1>1, Invariance, PTL DEF Spec, Paced

(***************************************************************************)
(* What an executor finds alarming it puts into a status that is_degraded  *)
(* reads as degraded, the HTTP failures of S3 excepted.                    *)
(***************************************************************************)
LEMMA AlarmsDegrade ==
  ASSUME NEW kind \in {"s3", "http", "mtr", "tcp"}, NEW r \in Results(kind),
         ~IsDegraded(StatusOf(r))
  PROVE  ~Alarming(r) \/ HttpFailure(r)
<1>1. CASE kind = "s3"
  <2>1. /\ r \in S3Results /\ r.kind = "s3" /\ r.error \in BOOLEAN
        /\ r.http \in HttpClasses \cup {"none"}
    BY <1>1 DEF Results, S3Results
  <2>2. StatusOf(r) = StatusWithCompare(S3Status(r), r.stages)
    BY <2>1 DEF StatusOf
  <2>3. SUFFICES ASSUME ~HttpFailure(r)
                 PROVE  ~Alarming(r)
    OBVIOUS
  <2>4. ~r.error
    <3>1. SUFFICES ASSUME r.error
                   PROVE  FALSE
      OBVIOUS
    <3>2. S3Status(r)[1] = "err"
      BY <3>1 DEF S3Status
    <3>3. StatusOf(r)[1] = "err"
      BY <2>2, <3>2 DEF StatusWithCompare
    <3> QED BY <3>3 DEF IsDegraded
  <2>5. r.http # "none"
    <3>1. SUFFICES ASSUME r.http = "none"
                   PROVE  FALSE
      OBVIOUS
    <3>2. S3Status(r)[1] = "unknown"
      BY <2>4, <3>1 DEF S3Status
    <3>3. StatusOf(r)[1] = "unknown"
      BY <2>2, <3>2 DEF StatusWithCompare
    <3> QED BY <3>3 DEF IsDegraded
  <2>6. r.http \notin {"4xx", "5xx"}
    BY <2>1, <2>3, <2>4 DEF HttpFailure
  <2>7. ~(r.http \in {"2xx", "3xx"} /\ r.stages # {})
    <3>1. SUFFICES ASSUME r.http \in {"2xx", "3xx"}, r.stages # {}
                   PROVE  FALSE
      OBVIOUS
    <3>2. S3Status(r)[1] = "ok"
      BY <2>4, <3>1 DEF S3Status
    <3>3. StatusOf(r) = <<Worst(r.stages), "stage">>
      BY <2>2, <3>1, <3>2 DEF StatusWithCompare
    <3>4. StatusOf(r)[1] \in Severities
      BY <3>3 DEF Worst, Severities
    <3> QED BY <3>4 DEF IsDegraded, Severities
  <2> QED BY <2>1, <2>4, <2>5, <2>6, <2>7 DEF Alarming
<1>2. CASE kind = "http"
  <2>1. r.kind = "http" /\ r.errors \in BOOLEAN /\ StatusOf(r) = HttpStatus(r)
    BY <1>2 DEF Results, HttpResults, StatusOf
  <2> QED BY <2>1 DEF HttpStatus, IsDegraded, Alarming
<1>3. CASE kind = "mtr"
  <2>1. r.kind = "mtr" /\ StatusOf(r) = MtrStatus(r)
    BY <1>3 DEF Results, MtrResults, StatusOf
  <2> QED BY <2>1 DEF MtrStatus, Worst, IsDegraded, Alarming
<1>4. CASE kind = "tcp"
  <2>1. r.kind = "tcp" /\ r.retrans \in {0, 1, 9, 10} /\ StatusOf(r) = TcpStatus(r)
    BY <1>4 DEF Results, TcpResults, StatusOf
  <2> QED BY <2>1 DEF TcpStatus, IsDegraded, Alarming
<1> QED BY <1>1, <1>2, <1>3, <1>4

(***************************************************************************)
(* An alarm is lost by the step that records it or by the one that decides *)
(* whether to post, and only in the ways AlarmsPosted lists.               *)
(***************************************************************************)
LEMMA AlarmsLost ==
  ASSUME TypeOK, JobShape, [Next]_vars, NEW t \in Threads, Lost(t)
  PROVE  \/ job[t].pc = "notify" /\ HttpFailure(job[t].result)
         \/ job[t].pc = "record" /\ (faults' # faults \/ TooFar(job[t].conf))
         \/ job[t].pc = "notify" /\ job[t].conf.hook = "malformed"
<1> DEFINE Goal == \/ job[t].pc = "notify" /\ HttpFailure(job[t].result)
                   \/ job[t].pc = "record" /\ (faults' # faults \/ TooFar(job[t].conf))
                   \/ job[t].pc = "notify" /\ job[t].conf.hook = "malformed"
<1>1. job \in [Threads -> Job] /\ job[t] \in Job
  BY DEF TypeOK
<1>2. /\ job[t].pc \in {"record", "notify"} /\ job'[t].pc \in {"idle", "failed"}
      /\ job[t].conf.hook # "none" /\ Alarming(job[t].result)
      /\ crashes' = crashes /\ crashes \in Nat
  BY SchedulerAssumption DEF Lost, TypeOK
<1>3. job' # job
  BY <1>2
<1>4. Next
  BY <1>3 DEF vars
<1>5. /\ job[t].conf \in Inputs /\ Valid(job[t].conf)
      /\ job[t].result \in Results(job[t].conf.kind)
      /\ job[t].conf.kind \in {"s3", "http", "mtr", "tcp"}
      /\ job[t].conf.hook \in {"valid", "malformed"}
  BY <1>2, SchedulerAssumption DEF JobShape, Conf
<1>6. ASSUME NEW q \in Requests, NEW s \in Schedules, RunNow(q, s)
      PROVE  FALSE
  <2>1. q # t /\ q \in Threads
    BY <1>2, <1>6 DEF RunNow, Threads
  <2>2. job'[t] = job[t]
    BY <1>1, <1>6, <2>1 DEF RunNow
  <2> QED BY <1>2, <2>2
<1>7. ASSUME NEW e \in batch, StartNext(e)
      PROVE  FALSE
  <2>1. t # Ticker
    BY <1>2, <1>7 DEF StartNext
  <2>2. job'[t] = job[t]
    BY <1>1, <1>7, <2>1 DEF StartNext
  <2> QED BY <1>2, <2>2
<1>8. ASSUME NEW u \in Threads, Execute(u) \/ PostWebhook(u) \/ RecordFailure(u)
      PROVE  FALSE
  <2>1. u # t
    BY <1>2, <1>8 DEF Execute, PostWebhook, RecordFailure
  <2>2. job'[t] = job[t]
    BY <1>1, <1>8, <2>1 DEF Execute, PostWebhook, RecordFailure
  <2> QED BY <1>2, <2>2
<1>9. ASSUME NEW u \in Threads, Finalize(u)
      PROVE  Goal
  <2>1. u = t
    <3>1. u # t => job'[t] = job[t]
      BY <1>1, <1>9 DEF Finalize
    <3> QED BY <1>2, <3>1
  <2>2. job[t].pc = "record"
    BY <1>9, <2>1 DEF Finalize
  <2>3. CASE job' = [job EXCEPT ![t].pc = "notify"]
    <3>1. job'[t].pc = "notify"
      BY <1>1, <2>3 DEF Job
    <3> QED BY <1>2, <3>1
  <2>4. CASE IF CannotBeDated(job[t].conf) THEN UNCHANGED faults ELSE Fault
    <3>1. TooFar(job[t].conf) \/ Fault
      BY <1>5, <2>4, IntervalFloor DEF CannotBeDated
    <3>2. Fault => faults' # faults
      BY SchedulerAssumption DEF Fault, TypeOK
    <3> QED BY <2>2, <3>1, <3>2
  <2> QED BY <1>9, <2>1, <2>3, <2>4 DEF Finalize
<1>10. ASSUME NEW u \in Threads, Notify(u)
       PROVE  Goal
  <2>1. u = t
    <3>1. u # t => job'[t] = job[t]
      BY <1>1, <1>10 DEF Notify
    <3> QED BY <1>2, <3>1
  <2>2. job[t].pc = "notify"
    BY <1>10, <2>1 DEF Notify
  <2>3. CASE ~IsDegraded(StatusOf(job[t].result))
    <3>1. HttpFailure(job[t].result)
      BY <1>2, <1>5, <2>3, AlarmsDegrade
    <3> QED BY <2>2, <3>1
  <2>4. CASE IsDegraded(StatusOf(job[t].result))
    <3>1. job'[t] = [job[t] EXCEPT !.pc = IF job[t].conf.hook = "valid" THEN "post" ELSE "failed"]
      BY <1>1, <1>2, <1>10, <2>1, <2>4 DEF Notify
    <3>2. job[t].conf.hook = "valid" => job'[t].pc = "post"
      BY <1>1, <3>1 DEF Job
    <3> QED BY <1>2, <1>5, <2>2, <3>2
  <2> QED BY <2>3, <2>4
<1>11. ~Crash
  BY <1>2 DEF Crash
<1>12. \/ \E q \in Requests, s \in Schedules : RunNow(q, s)
       \/ \E e \in batch : StartNext(e)
       \/ \E u \in Threads : Execute(u) \/ PostWebhook(u) \/ RecordFailure(u)
       \/ \E u \in Threads : Finalize(u)
       \/ \E u \in Threads : Notify(u)
  <2>1. CASE \E s \in Schedules, c \in Inputs, enabled \in BOOLEAN :
               CreateSchedule(s, c, enabled) \/ EditSchedule(s, c, enabled)
    BY <1>3, <2>1 DEF CreateSchedule, EditSchedule
  <2>2. CASE \E s \in Schedules : DeleteSchedule(s)
    BY <1>3, <2>2 DEF DeleteSchedule
  <2>3. CASE \E q \in Requests, s \in Schedules : ToggleRead(q, s)
    BY <1>3, <2>3 DEF ToggleRead
  <2>4. CASE \E q \in Requests : ToggleWrite(q)
    BY <1>3, <2>4 DEF ToggleWrite
  <2>5. CASE Start \/ InitDb \/ ReadDue \/ EndTick \/ ClockTick
    BY <1>3, <2>5 DEF Start, InitDb, ReadDue, EndTick, ClockTick
  <2> QED BY <1>4, <1>11, <2>1, <2>2, <2>3, <2>4, <2>5, NextCases
<1> QED BY <1>6, <1>7, <1>8, <1>9, <1>10, <1>12

(***************************************************************************)
(* Between an executor's finding and the post an alarm is lost in the four *)
(* ways of AlarmsPosted only, whatever is found and whichever              *)
(* configurations are submitted: an HTTP failure of S3 at maybe_notify, a  *)
(* failed session or a date out of range at _finalize, a malformed URL.    *)
(***************************************************************************)
THEOREM Alarms == Spec => AlarmsPosted
<1>1. Inv /\ [Next]_vars =>
        [\A t \in Threads : Lost(t) =>
           \/ job[t].pc = "notify" /\ HttpFailure(job[t].result)
           \/ job[t].pc = "record" /\ (faults' # faults \/ TooFar(job[t].conf))
           \/ job[t].pc = "notify" /\ job[t].conf.hook = "malformed"]_vars
  BY AlarmsLost DEF Inv
<1> QED BY <1>1, Invariance, PTL DEF Spec, AlarmsPosted

-----------------------------------------------------------------------------
(* next_run_at is never far off. *)

\* The validation accepts no configuration with an interval of more than n that
\* can be dated.
IntervalsUpTo(n) ==
  \A c \in Inputs : Valid(c) => \A delay \in Datable(c) : delay <= n

DueWithin(n) ==
  /\ \A s \in Schedules : row[s].due <= n
  /\ \A q \in Requests : toggle[q] # None => toggle[q].due <= n

(* The end of a job moves its row by an interval of the configuration the  *)
(* job was loaded with.                                                    *)
LEMMA RecordDue ==
  ASSUME TypeOK, JobShape, NEW t \in Threads, Finalize(t) \/ RecordFailure(t),
         NEW x \in Schedules
  PROVE  row'[x] = row[x] \/ row'[x].due \in Datable(job[t].conf)
<1> DEFINE s == job[t].sid
           Goal == row'[x] = row[x] \/ row'[x].due \in Datable(job[t].conf)
<1> SUFFICES Goal
  OBVIOUS
<1>1. s \in Schedules /\ row \in [Schedules -> Row] /\ row[s] \in Row
  BY RecordEffect DEF TypeOK
<1>2. ASSUME NEW delay \in Datable(job[t].conf), NEW head,
             UpdateRow(s, [row[s] EXCEPT !.due = delay, !.status = head])
      PROVE  Goal
  <2>1. [row[s] EXCEPT !.due = delay, !.status = head].due = delay
    BY <1>1 DEF Row
  <2> DEFINE new == [row[s] EXCEPT !.due = delay, !.status = head]
  <2>2. new.due = delay /\ UpdateRow(s, new)
    BY <1>2, <2>1
  <2> HIDE DEF new, s
  <2>3. row'[x] = row[x] \/ row'[x] = new
    BY <1>1, <2>2 DEF UpdateRow
  <2> QED
    BY <2>2, <2>3
<1>3. CASE row' = row
  BY <1>3
<1>4. CASE Finalize(t)
  <2>1. \/ row' = row
        \/ \E delay \in Datable(job[t].conf) :
             UpdateRow(s, [row[s] EXCEPT !.due = delay, !.status = StatusOf(job[t].result)[1]])
    BY <1>4 DEF Finalize
  <2> QED
    BY <1>2, <1>3, <2>1
<1>5. CASE RecordFailure(t)
  <2>1. \/ row' = row
        \/ \E delay \in Datable(job[t].conf) : UpdateRow(s, FailedRow(t, delay))
    BY <1>5 DEF RecordFailure
  <2> QED
    BY <1>2, <1>3, <2>1 DEF FailedRow
<1> QED
  BY <1>4, <1>5

(* A toggle writes back the due time it has read, or none.                 *)
LEMMA ToggleDue ==
  ASSUME TypeOK, NEW q \in Requests, ToggleWrite(q), NEW x \in Schedules
  PROVE  row'[x] = row[x] \/ row'[x].due \in {0, toggle[q].due}
<1> DEFINE s == toggle[q].sid
           due == IF ~toggle[q].enabled THEN 0 ELSE toggle[q].due
           new == [row[s] EXCEPT !.enabled = ~toggle[q].enabled, !.due = due]
<1>1. s \in Schedules /\ row \in [Schedules -> Row] /\ row[s] \in Row
  BY DEF ToggleWrite, TypeOK, PendingToggle
<1>2. UpdateRow(s, new)
  BY DEF ToggleWrite
<1>3. new.due = due
  BY <1>1 DEF Row
<1>4. due \in {0, toggle[q].due}
  OBVIOUS
<1> HIDE DEF new, due, s
<1>5. row'[x] = row[x] \/ row'[x] = new
  BY <1>1, <1>2 DEF UpdateRow
<1> QED
  BY <1>3, <1>4, <1>5

(* No step moves a due time, or the one a toggle remembers, beyond n.      *)
LEMMA DueStep ==
  ASSUME NEW n \in Nat, IntervalsUpTo(n), TypeOK, JobShape, DueWithin(n), [Next]_vars
  PROVE  DueWithin(n)'
<1>1. /\ row \in [Schedules -> Row] /\ \A s \in Schedules : row[s].due \in Nat /\ row[s].due <= n
      /\ toggle \in [Requests -> PendingToggle \cup {None}]
      /\ \A q \in Requests : toggle[q] # None => toggle[q].due \in Nat /\ toggle[q].due <= n
  BY DEF TypeOK, Row, PendingToggle, DueWithin
<1>2. ASSUME \A s \in Schedules : row'[s].due <= n,
             \A q \in Requests : toggle'[q] # None => toggle'[q].due <= n
      PROVE  DueWithin(n)'
  BY <1>2 DEF DueWithin
<1>3. CASE UNCHANGED <<row, toggle>>
  BY <1>3 DEF DueWithin
<1>4. ASSUME toggle' = toggle,
             \A s \in Schedules : row'[s] = row[s] \/ row'[s].due <= n
      PROVE  DueWithin(n)'
  BY <1>1, <1>2, <1>4
<1>5. ASSUME NEW x \in Schedules, NEW c \in Inputs, NEW enabled \in BOOLEAN,
             CreateSchedule(x, c, enabled) \/ EditSchedule(x, c, enabled)
      PROVE  DueWithin(n)'
  <2>1. row'[x].due = 0 /\ \A s \in Schedules \ {x} : row'[s] = row[s]
    BY <1>1, <1>5 DEF CreateSchedule, EditSchedule, NoRow, Row
  <2>2. toggle' = toggle
    BY <1>5 DEF CreateSchedule, EditSchedule
  <2> QED
    BY <1>4, <2>1, <2>2
<1>6. ASSUME NEW q \in Requests, NEW x \in Schedules, ToggleRead(q, x)
      PROVE  DueWithin(n)'
  <2>1. /\ row' = row
        /\ toggle' = [toggle EXCEPT ![q] = [sid |-> x, enabled |-> row[x].enabled,
                                            due |-> row[x].due]]
    BY <1>6 DEF ToggleRead
  <2> QED
    BY <1>1, <1>2, <2>1
<1>7. ASSUME NEW q \in Requests, ToggleWrite(q)
      PROVE  DueWithin(n)'
  <2>1. toggle[q] # None /\ toggle' = [toggle EXCEPT ![q] = None]
    BY <1>7 DEF ToggleWrite
  <2>2. \A s \in Schedules : row'[s].due <= n
    BY <1>1, <1>7, <2>1, ToggleDue
  <2> QED
    BY <1>1, <1>2, <2>1, <2>2
<1>8. ASSUME NEW t \in Threads, Finalize(t) \/ RecordFailure(t)
      PROVE  DueWithin(n)'
  <2>1. \A delay \in Datable(job[t].conf) : delay <= n
    BY <1>8 DEF Finalize, RecordFailure, JobShape, IntervalsUpTo
  <2>2. toggle' = toggle
    BY <1>8 DEF Finalize, RecordFailure
  <2>3. \A s \in Schedules : row'[s] = row[s] \/ row'[s].due <= n
    BY <1>8, <2>1, RecordDue
  <2> QED
    BY <1>4, <2>2, <2>3
<1>9. CASE ClockTick
  <2>1. \A m \in Nat : m <= n => Sooner(m) <= n
    BY DEF Sooner
  <2>2. \A s \in Schedules : row'[s].due = Sooner(row[s].due)
    BY <1>1, <1>9 DEF ClockTick, Row
  <2>3. \A q \in Requests : toggle'[q] # None =>
          toggle[q] # None /\ toggle'[q].due = Sooner(toggle[q].due)
    BY <1>1, <1>9 DEF ClockTick, PendingToggle
  <2> QED
    BY <1>1, <1>2, <2>1, <2>2, <2>3
<1>10. CASE Crash
  BY <1>1, <1>2, <1>10 DEF Crash
<1>11. CASE \/ \E q \in Requests, x \in Schedules : RunNow(q, x)
            \/ Start \/ InitDb \/ ReadDue \/ EndTick
            \/ \E e \in batch : StartNext(e)
            \/ \E t \in Threads : Execute(t) \/ Notify(t) \/ PostWebhook(t)
            \/ UNCHANGED vars
  BY <1>3, <1>11 DEF RunNow, Start, InitDb, ReadDue, EndTick, StartNext, Execute, Notify,
                     PostWebhook, vars
<1>12. CASE Next
  <2>1. CASE \E x \in Schedules, c \in Inputs, enabled \in BOOLEAN :
               CreateSchedule(x, c, enabled) \/ EditSchedule(x, c, enabled)
    BY <1>5, <2>1
  <2>2. CASE \E x \in Schedules : DeleteSchedule(x)
    <3>1. \A x \in Schedules : DeleteSchedule(x) => row' = [row EXCEPT ![x] = GoneRow] /\ toggle' = toggle
      BY DEF DeleteSchedule
    <3> QED
      BY <1>1, <1>4, <2>2, <3>1 DEF GoneRow, NoRow
  <2>3. CASE \E q \in Requests : ToggleWrite(q) \/ \E x \in Schedules : ToggleRead(q, x)
    BY <1>6, <1>7, <2>3
  <2>4. CASE \E t \in Threads : Finalize(t) \/ RecordFailure(t)
    BY <1>8, <2>4
  <2> QED
    BY <1>9, <1>10, <1>11, <1>12, <2>1, <2>2, <2>3, <2>4, NextCases
<1> QED
  BY <1>11, <1>12

(***************************************************************************)
(* Nothing postpones a schedule for longer than the longest interval that  *)
(* was submitted and leads to a date: no late job of a request, no         *)
(* failure, no toggle that writes back what it has read.  So time alone    *)
(* makes every schedule due again, which EnabledKeepRunning starts from.   *)
(***************************************************************************)
THEOREM NeverFarOff ==
  ASSUME NEW n \in Nat, IntervalsUpTo(n)
  PROVE  Spec => [](\A s \in Schedules : row[s].due <= n)
<1>1. Init => DueWithin(n)
  BY DEF Init, DueWithin, NoRow
<1>2. Inv /\ DueWithin(n) /\ [Next]_vars => DueWithin(n)'
  BY DueStep DEF Inv
<1>3. DueWithin(n) => \A s \in Schedules : row[s].due <= n
  BY DEF DueWithin
<1> QED
  BY <1>1, <1>2, <1>3, Invariance, PTL DEF Spec
=============================================================================
