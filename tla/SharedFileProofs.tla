-------------------------- MODULE SharedFileProofs ---------------------------
(***************************************************************************)
(* Proofs about SharedFile, for any number of pages, columns, addresses,   *)
(* answers and operations.  Each component is proved about on its own; the *)
(* composition keeps what its components promise because each of its steps *)
(* is a step or a stutter of each of them.                                 *)
(***************************************************************************)
EXTENDS SharedFile, FiniteSetTheorems, TLAPS

LEMMA MembersOfUsers ==
  Bencher \in Users /\ \A l \in Lookups : l \in Users
  BY SharedFileAssumption

LEMMA SchemaSteps ==
  ASSUME [Next]_vars
  PROVE  [SchemaNext]_schemaVars
<1>1. CASE UNCHANGED schemaVars
  BY <1>1
<1>2. ASSUME NEW l \in Lookups, OpenPage(l) \/ NothingToLookUp(l) \/ \E ips \in SUBSET Ips : ViewRun(l, ips)
      PROVE  SchemaNext
  BY <1>2, MembersOfUsers DEF OpenPage, NothingToLookUp, ViewRun, SchemaNext
<1>3. CASE Migrating
  BY <1>3, MembersOfUsers DEF Migrating, Migrates, SchemaNext, MigrationStep
<1>4. CASE OpenRecords \/ RecordRows \/ RecordsRefused \/ BenchDies
  BY <1>4, MembersOfUsers
  DEF OpenRecords, RecordRows, RecordsRefused, BenchDies, SchemaNext, MigrationStep
<1> QED
  BY <1>1, <1>2, <1>3, <1>4 DEF Next, vars, PageFails, CacheOnly, BenchOnly

LEMMA CacheSteps ==
  ASSUME [Next]_vars
  PROVE  [CacheNext]_cacheVars
<1>1. CASE UNCHANGED cacheVars
  BY <1>1
<1>2. ASSUME NEW l \in Lookups,
             PageFails(l) \/ LookupStep(l) \/ \E ips \in SUBSET Ips : ViewRun(l, ips)
      PROVE  CacheNext
  BY <1>2 DEF PageFails, ViewRun, CacheNext
<1> QED
  BY <1>1, <1>2
  DEF Next, vars, OpenPage, NothingToLookUp, Migrating, BenchOnly, OpenRecords, RecordRows,
      RecordsRefused, BenchDies

LEMMA BenchSteps ==
  ASSUME [Next]_vars
  PROVE  [BenchNext]_benchVars
<1>1. CASE UNCHANGED benchVars
  BY <1>1
<1>2. CASE BeginBench \/ BenchStep \/ RecordRows \/ RecordsRefused \/ BenchDies
  BY <1>2 DEF RecordRows, RecordsRefused, BenchDies, BenchNext
<1> QED
  BY <1>1, <1>2
  DEF Next, vars, OpenPage, NothingToLookUp, ViewRun, PageFails, CacheOnly, Migrating,
      OpenRecords

(***************************************************************************)
(* The requests and the bench, sharing a file, are each of the components  *)
(* to itself: no handler breaks the protocol of another.                   *)
(***************************************************************************)
THEOREM Composition == Spec => SchemaSpec /\ CacheSpec /\ BenchSpec
<1>1. Init => SchemaInit /\ CacheInit /\ BenchInit
  BY DEF Init
<1>2. [Next]_vars => [SchemaNext]_schemaVars /\ [CacheNext]_cacheVars /\ [BenchNext]_benchVars
  BY SchemaSteps, CacheSteps, BenchSteps
<1> QED BY <1>1, <1>2, PTL DEF Spec, SchemaSpec, CacheSpec, BenchSpec

-----------------------------------------------------------------------------
(* Migrations *)

\* A session on its way has passed the columns before the one it looks at.
Passed ==
  \A u \in Users :
    /\ session[u].pc \in {"check", "alter"} => 1..session[u].next - 1 \subseteq columns
    /\ session[u].pc = "check" => session[u].next >= 1
    /\ session[u].pc = "alter" => session[u].next \in Columns

LEMMA SchemaStart == SchemaInit => SchemaTypeOK /\ Passed /\ OpenIsMigrated
  BY SchemaAssumption
  DEF SchemaInit, SchemaTypeOK, Passed, OpenIsMigrated, Columns, Closed

LEMMA SchemaTypeStep ==
  ASSUME SchemaTypeOK, Passed, [SchemaNext]_schemaVars
  PROVE  SchemaTypeOK' /\ Passed'
<1> USE SchemaAssumption DEF SchemaTypeOK, Passed, Columns, Closed
<1>1. CASE UNCHANGED schemaVars
  BY <1>1 DEF schemaVars
<1>2. ASSUME NEW u \in Users, OpenSession(u)
      PROVE  SchemaTypeOK' /\ Passed'
  BY <1>2 DEF OpenSession
<1>3. ASSUME NEW u \in Users, CheckColumn(u)
      PROVE  SchemaTypeOK' /\ Passed'
  BY <1>3 DEF CheckColumn, Lacks
<1>4. ASSUME NEW u \in Users, AddColumn(u)
      PROVE  SchemaTypeOK' /\ Passed'
  <2>1. session[u].next \in 1..LastColumn
    BY <1>4 DEF AddColumn
  <2> DEFINE past == [pc |-> "check", next |-> session[u].next + 1]
  <2>2. past \in [pc : {"closed", "check", "alter", "open"}, next : 0..LastColumn + 1]
    BY <2>1
  <2>3. session' = [session EXCEPT ![u] = past]
    BY <1>4 DEF AddColumn
  <2>4. SchemaTypeOK'
    <3> HIDE DEF past
    <3> QED BY <1>4, <2>1, <2>2, <2>3 DEF AddColumn
  <2>5. columns \subseteq columns' /\ 1..session[u].next \subseteq columns'
    BY SMTT(60), <1>4, <2>1 DEF AddColumn
  <2>6. Passed'
    BY <1>4, <2>1, <2>5 DEF AddColumn
  <2> QED BY <2>4, <2>6
<1>5. ASSUME NEW u \in Users, AddTwice(u)
      PROVE  SchemaTypeOK' /\ Passed'
  BY <1>5 DEF AddTwice, AfterRefusal
<1>6. ASSUME NEW u \in Users, Connect(u)
      PROVE  SchemaTypeOK' /\ Passed'
  BY <1>6 DEF Connect
<1>7. ASSUME NEW u \in Users, CloseSession(u)
      PROVE  SchemaTypeOK' /\ Passed'
  BY <1>7 DEF CloseSession
<1> QED
  BY <1>1, <1>2, <1>3, <1>4, <1>5, <1>6, <1>7 DEF SchemaNext, MigrationStep

LEMMA MigratedStep ==
  ASSUME SchemaTypeOK, Passed, OpenIsMigrated, [SchemaNext]_schemaVars
  PROVE  OpenIsMigrated'
<1> USE SchemaAssumption DEF SchemaTypeOK, OpenIsMigrated, Columns, Closed
<1>1. CASE UNCHANGED schemaVars
  BY <1>1 DEF schemaVars
<1>2. ASSUME NEW u \in Users, OpenSession(u) \/ CheckColumn(u) \/ AddTwice(u) \/ CloseSession(u)
      PROVE  OpenIsMigrated'
  BY <1>2 DEF OpenSession, CheckColumn, AddTwice, AfterRefusal, CloseSession
<1>3. ASSUME NEW u \in Users, AddColumn(u)
      PROVE  OpenIsMigrated'
  BY <1>3 DEF AddColumn, Passed
<1>4. ASSUME NEW u \in Users, Connect(u)
      PROVE  OpenIsMigrated'
  <2>1. 1..session[u].next - 1 = Columns
    BY <1>4 DEF Connect, Passed
  <2> QED BY <1>4, <2>1 DEF Connect, Passed
<1> QED
  BY <1>1, <1>2, <1>3, <1>4 DEF SchemaNext, MigrationStep

\* Who will be refused: the column was added after the test.
Stale == {u \in Users : session[u].pc = "alter" /\ session[u].next \in columns}

Others == Cardinality(Users) - 1

RefusalsPaidFor == refused + Cardinality(Stale) <= Cardinality(columns) * Others

LEMMA Part ==
  ASSUME NEW S, IsFiniteSet(S), NEW T, T \subseteq S
  PROVE  IsFiniteSet(T) /\ Cardinality(T) \in Nat /\ Cardinality(T) <= Cardinality(S)
  BY FS_Subset, FS_CardinalityType

LEMMA SchemaSizes ==
  ASSUME SchemaTypeOK
  PROVE  /\ IsFiniteSet(Stale) /\ Cardinality(Stale) \in Nat
         /\ IsFiniteSet(columns) /\ Cardinality(columns) \in 0..LastColumn
         /\ Others \in Nat
<1>1. IsFiniteSet(1..LastColumn) /\ Cardinality(1..LastColumn) = LastColumn
  BY SchemaAssumption, FS_Interval
<1>2. IsFiniteSet(columns) /\ Cardinality(columns) \in 0..LastColumn
  <2>1. columns \subseteq 1..LastColumn
    BY DEF SchemaTypeOK, Columns
  <2>2. /\ IsFiniteSet(columns) /\ Cardinality(columns) \in Nat
        /\ Cardinality(columns) <= LastColumn
    BY <1>1, <2>1, Part
  <2> QED BY <2>2, SchemaAssumption
<1>3. Cardinality(Users) \in Nat /\ Cardinality(Users) # 0
  BY SchemaAssumption, FS_CardinalityType, FS_EmptySet
<1>4. IsFiniteSet(Stale) /\ Cardinality(Stale) \in Nat
  BY Part, SchemaAssumption DEF Stale
<1> QED BY <1>2, <1>3, <1>4 DEF Others

LEMMA FewerStale ==
  ASSUME SchemaTypeOK, SchemaTypeOK', columns' = columns, refused' = refused,
         Stale' \subseteq Stale, RefusalsPaidFor
  PROVE  RefusalsPaidFor'
<1>1. Cardinality(Stale') <= Cardinality(Stale) /\ Cardinality(Stale') \in Nat
  BY SchemaSizes, Part
<1>2. Others' = Others
  BY DEF Others
<1> QED BY <1>1, <1>2, SchemaSizes DEF RefusalsPaidFor, SchemaTypeOK

LEMMA RefusalStep ==
  ASSUME SchemaTypeOK, SchemaTypeOK', RefusalsPaidFor, [SchemaNext]_schemaVars
  PROVE  RefusalsPaidFor'
<1>1. CASE UNCHANGED schemaVars
  <2>1. columns' = columns /\ refused' = refused /\ session' = session
    BY <1>1 DEF schemaVars
  <2>2. Stale' \subseteq Stale
    BY <2>1 DEF Stale
  <2> QED BY <2>1, <2>2, FewerStale
<1>2. ASSUME NEW u \in Users,
             OpenSession(u) \/ CheckColumn(u) \/ Connect(u) \/ CloseSession(u)
      PROVE  RefusalsPaidFor'
  <2>1. columns' = columns /\ refused' = refused
    BY <1>2 DEF OpenSession, CheckColumn, Connect, CloseSession
  <2>2. \A v \in Users : v # u => session'[v] = session[v]
    BY <1>2 DEF OpenSession, CheckColumn, Connect, CloseSession, SchemaTypeOK
  <2>3. session'[u].pc = "alter" => session'[u].next \notin columns
    BY <1>2 DEF OpenSession, CheckColumn, Connect, CloseSession, SchemaTypeOK, Lacks, Closed
  <2>4. Stale' \subseteq Stale
    BY <2>1, <2>2, <2>3 DEF Stale
  <2> QED BY <2>1, <2>4, FewerStale
<1>3. ASSUME NEW u \in Users, AddColumn(u)
      PROVE  RefusalsPaidFor'
  <2> DEFINE rest == Users \ {u}
  <2>1. IsFiniteSet(rest) /\ Cardinality(rest) = Others
    BY SchemaAssumption, FS_RemoveElement DEF Others
  <2>2. Stale' \subseteq Stale \cup rest
    BY <1>3 DEF AddColumn, Stale, SchemaTypeOK
  <2>3. /\ IsFiniteSet(Stale \cup rest)
        /\ Cardinality(Stale \cup rest) <= Cardinality(Stale) + Others
    <3>1. Cardinality(Stale \cap rest) \in Nat
      BY Part, SchemaSizes
    <3>2. IsFiniteSet(Stale)
      BY SchemaSizes
    <3>3. /\ IsFiniteSet(Stale \cup rest)
          /\ Cardinality(Stale \cup rest)
               = Cardinality(Stale) + Cardinality(rest) - Cardinality(Stale \cap rest)
      <4> HIDE DEF rest
      <4> QED BY <2>1, <3>2, FS_Union
    <3>4. Cardinality(Stale) \in Nat /\ Others \in Nat
      BY SchemaSizes
    <3> QED BY <2>1, <3>1, <3>3, <3>4
  <2>4. Cardinality(Stale') \in Nat /\ Cardinality(Stale') <= Cardinality(Stale) + Others
    <3>1. Cardinality(Stale') \in Nat /\ Cardinality(Stale') <= Cardinality(Stale \cup rest)
      BY <2>2, <2>3, Part
    <3>2. Cardinality(Stale \cup rest) \in Nat
      BY <2>3, FS_CardinalityType
    <3> QED BY <2>3, <3>1, <3>2, SchemaSizes
  <2>5. Cardinality(columns') = Cardinality(columns) + 1
    <3>1. columns' = columns \cup {session[u].next} /\ session[u].next \notin columns
      BY <1>3 DEF AddColumn
    <3> QED BY <3>1, SchemaSizes, FS_AddElement
  <2>6. (Cardinality(columns) + 1) * Others = Cardinality(columns) * Others + Others
    BY SchemaSizes
  <2>7. Cardinality(columns) * Others \in Nat
    BY SchemaSizes
  <2>8. refused' = refused /\ Others' = Others
    BY <1>3 DEF AddColumn, Others
  <2>9. refused + Cardinality(Stale') <= Cardinality(columns) * Others + Others
    BY <2>4, <2>7, SchemaSizes DEF RefusalsPaidFor, SchemaTypeOK
  <2> QED BY <2>5, <2>6, <2>8, <2>9 DEF RefusalsPaidFor
<1>4. ASSUME NEW u \in Users, AddTwice(u)
      PROVE  RefusalsPaidFor'
  <2>1. u \in Stale /\ Stale' \subseteq Stale \ {u}
    BY <1>4, SchemaAssumption DEF AddTwice, AfterRefusal, Closed, Stale, SchemaTypeOK
  <2>2. IsFiniteSet(Stale \ {u}) /\ Cardinality(Stale \ {u}) = Cardinality(Stale) - 1
    BY <2>1, SchemaSizes, FS_RemoveElement
  <2>3. Cardinality(Stale') \in Nat /\ Cardinality(Stale') <= Cardinality(Stale) - 1
    BY <2>1, <2>2, Part
  <2>4. refused' = refused + 1 /\ columns' = columns /\ Others' = Others
    BY <1>4 DEF AddTwice, Others
  <2>5. Cardinality(columns) * Others \in Nat
    BY SchemaSizes
  <2> QED BY <2>3, <2>4, <2>5, SchemaSizes DEF RefusalsPaidFor, SchemaTypeOK
<1> QED
  BY <1>1, <1>2, <1>3, <1>4 DEF SchemaNext, MigrationStep

LEMMA RefusalStart == SchemaInit => RefusalsPaidFor
<1> SUFFICES ASSUME SchemaInit PROVE RefusalsPaidFor
  OBVIOUS
<1>1. SchemaTypeOK
  BY SchemaStart
<1>2. Stale = {}
  BY DEF SchemaInit, Stale, Closed
<1>3. Cardinality(columns) * Others \in Nat
  BY <1>1, SchemaSizes
<1> QED BY <1>2, <1>3, FS_EmptySet DEF RefusalsPaidFor, SchemaInit

LEMMA PaidForIsBound ==
  ASSUME SchemaTypeOK, RefusalsPaidFor
  PROVE  RefusalBound
<1> DEFINE n == Cardinality(columns)
<1>1. n \in Nat /\ n <= LastColumn /\ LastColumn \in Nat /\ Others \in Nat
  BY SchemaSizes, SchemaAssumption
<1>2. n * Others <= LastColumn * Others
  <2> HIDE DEF n
  <2>1. PICK d \in Nat : LastColumn = n + d
    BY <1>1
  <2>2. (n + d) * Others = n * Others + d * Others
    BY <1>1
  <2>3. d * Others \in Nat /\ n * Others \in Nat
    BY <1>1
  <2> QED BY <1>1, <2>1, <2>2, <2>3
<1>3. n * Others \in Nat /\ LastColumn * Others \in Nat
  BY <1>1
<1>4. refused <= n * Others
  BY <1>3, SchemaSizes DEF RefusalsPaidFor, SchemaTypeOK
<1> QED BY <1>2, <1>3, <1>4 DEF RefusalBound, Others, SchemaTypeOK

(***************************************************************************)
(* init_db, for any number of sessions and columns: no session is open on  *)
(* a file that lacks a column, and the sessions that are refused one are   *)
(* bounded, because each refusal is paid for by a column that was added    *)
(* while the others looked at it.                                          *)
(***************************************************************************)
THEOREM SchemaCorrect == SchemaSpec => [](SchemaTypeOK /\ OpenIsMigrated /\ RefusalBound)
<1> DEFINE Inv == SchemaTypeOK /\ Passed /\ OpenIsMigrated /\ RefusalsPaidFor
<1>1. SchemaInit => Inv
  BY SchemaStart, RefusalStart
<1>2. Inv /\ [SchemaNext]_schemaVars => Inv'
  BY SchemaTypeStep, MigratedStep, RefusalStep
<1>3. Inv => SchemaTypeOK /\ OpenIsMigrated /\ RefusalBound
  BY PaidForIsBound
<1> QED BY <1>1, <1>2, <1>3, PTL DEF SchemaSpec

-----------------------------------------------------------------------------
(* The bench *)

WhereStored ==
  \A i \in Ops : /\ op[i] = "2xx" => i \in stored
                 /\ op[i] \in {"4xx", "queued", "working"} => i \notin stored

AllAnswered == stage \in {"collected", "done"} => \A i \in Ops : op[i] \in Outcomes \ {"raise"}

TrackedAtEnd == tracked = IF stage = "done" THEN {i \in Ops : op[i] = "2xx"} ELSE {}

BenchInv == BenchTypeOK /\ WhereStored /\ AllAnswered /\ TrackedAtEnd

LEMMA BenchStart == BenchInit => BenchInv
  BY DEF BenchInit, BenchInv, BenchTypeOK, WhereStored, AllAnswered, TrackedAtEnd, Ended, Outcomes

LEMMA BenchStepInv ==
  ASSUME BenchInv, [BenchNext]_benchVars
  PROVE  BenchInv'
<1> USE DEF BenchInv, BenchTypeOK, WhereStored, AllAnswered, TrackedAtEnd, Ended, Outcomes
<1>1. CASE UNCHANGED benchVars
  BY <1>1 DEF benchVars
<1>2. CASE BeginBench
  BY <1>2 DEF BeginBench
<1>3. ASSUME NEW i \in Ops, StartOp(i)
      PROVE  BenchInv'
  BY <1>3 DEF StartOp
<1>4. ASSUME NEW i \in Ops, NEW outcome \in Outcomes, EndOp(i, outcome)
      PROVE  BenchInv'
  <2>1. BenchTypeOK' /\ AllAnswered' /\ TrackedAtEnd'
    BY <1>4 DEF EndOp, Effects
  <2>2. WhereStored'
    BY <1>4 DEF EndOp, Effects
  <2> QED BY <2>1, <2>2
<1>5. CASE CollectRaise
  BY <1>5 DEF CollectRaise
<1>6. CASE PoolLeft
  BY <1>6 DEF PoolLeft
<1>7. CASE Collected
  BY <1>7 DEF Collected, AllEnded
<1>8. CASE RecordBench
  BY <1>8 DEF RecordBench, Tracks
<1>9. CASE RecordFails
  BY <1>9 DEF RecordFails
<1>10. CASE BenchKilled
  <2>1. BenchTypeOK' /\ AllAnswered' /\ TrackedAtEnd'
    BY <1>10 DEF BenchKilled, Working
  <2>2. \A i \in Ops : op'[i] = "2xx" => op[i] = "2xx"
    BY <1>10 DEF BenchKilled
  <2>3. \A i \in Ops : op'[i] = "4xx" => op[i] = "4xx"
    BY <1>10 DEF BenchKilled
  <2>4. \A i \in Ops : op'[i] \notin {"queued", "working"}
    BY <1>10 DEF BenchKilled
  <2>5. \A i \in Ops : op[i] # "working" => (i \in stored' <=> i \in stored)
    BY <1>10 DEF BenchKilled, Working
  <2>6. WhereStored'
    BY <2>2, <2>3, <2>4, <2>5
  <2> QED BY <2>1, <2>6
<1> QED
  BY <1>1, <1>2, <1>3, <1>4, <1>5, <1>6, <1>7, <1>8, <1>9, <1>10 DEF BenchNext, BenchStep

(***************************************************************************)
(* run_bench, for any number of operations and threads: what is recorded   *)
(* was stored, and what was stored without a record got no clear answer.   *)
(***************************************************************************)
THEOREM BenchCorrect == BenchSpec => [](BenchTypeOK /\ BenchObjectsTracked)
<1>1. BenchInv => BenchTypeOK /\ BenchObjectsTracked
  BY DEF BenchInv, BenchTypeOK, BenchObjectsTracked, WhereStored, AllAnswered, TrackedAtEnd,
         Ended, Outcomes
<1> QED BY <1>1, BenchStart, BenchStepInv, PTL DEF BenchSpec

-----------------------------------------------------------------------------
(* The cache of lookups *)

Results == UNION {[s -> Answers \cup {Unknown}] : s \in SUBSET Ips}

LookupTyped ==
  lookup \in [Lookups -> [pc : {"idle", "reading", "asking", "writing"}, todo : SUBSET Ips,
                         missing : SUBSET Ips, results : Results]]

\* What the local variables are at each point of a lookup.
LookupLocals ==
  \A l \in Lookups :
    /\ lookup[l].pc = "idle" => lookup[l].missing = {}
    /\ lookup[l].todo # {} => lookup[l].pc = "reading"
    /\ lookup[l].pc = "writing" =>
         lookup[l].results \in [lookup[l].missing -> Answers \cup {Unknown}]

HistoryTyped ==
  /\ known \in [Ips -> Answers \cup {Unknown, Absent}]
  /\ turn \in Lookups \cup {None}
  /\ asked \in [Ips -> Nat] /\ racers \in [Ips -> SUBSET Lookups] /\ fails \in 0..MaxFails

RacersKnown ==
  \A l \in Lookups, ip \in Ips :
    known[ip] # Absent /\ ip \in lookup[l].missing => l \in racers[ip]

CacheInv == LookupTyped /\ LookupLocals /\ HistoryTyped

LEMMA IdleTyped ==
  /\ IdleLookup.pc = "idle" /\ IdleLookup.todo = {} /\ IdleLookup.missing = {}
  /\ IdleLookup.results \in Results
  /\ IdleLookup \in [pc : {"idle", "reading", "asking", "writing"}, todo : SUBSET Ips,
                     missing : SUBSET Ips, results : Results]
<1>1. [ip \in {} |-> Unknown] \in [{} -> Answers \cup {Unknown}]
  OBVIOUS
<1>2. [ip \in {} |-> Unknown] \in Results
  BY <1>1 DEF Results
<1> HIDE DEF Results
<1> QED BY <1>2 DEF IdleLookup

LEMMA CacheStart == CacheInit => CacheInv /\ RacersKnown /\ TurnPasses
<1> SUFFICES ASSUME CacheInit PROVE CacheInv /\ RacersKnown /\ TurnPasses
  OBVIOUS
<1>1. LookupTyped
  BY IdleTyped DEF CacheInit, LookupTyped
<1>2. HistoryTyped
  BY CacheAssumption DEF CacheInit, HistoryTyped
<1>3. \A l \in Lookups : lookup[l] = IdleLookup
  BY DEF CacheInit
<1>4. LookupLocals /\ RacersKnown
  BY <1>3, IdleTyped DEF LookupLocals, RacersKnown
<1>5. TurnPasses
  BY <1>3, IdleTyped, CacheAssumption DEF TurnPasses, CacheInit
<1> QED BY <1>1, <1>2, <1>4, <1>5 DEF CacheInv

LEMMA CacheInvStep ==
  ASSUME CacheInv, [CacheNext]_cacheVars
  PROVE  CacheInv'
<1> USE DEF CacheInv, LookupTyped, LookupLocals, HistoryTyped
<1>1. CASE UNCHANGED cacheVars
  BY <1>1 DEF cacheVars
<1>2. ASSUME NEW l \in Lookups, NEW ips \in SUBSET Ips, BeginLookup(l, ips)
      PROVE  CacheInv'
  <2> DEFINE begun == [IdleLookup EXCEPT !.pc = "reading", !.todo = ips]
  <2>1. /\ begun \in [pc : {"idle", "reading", "asking", "writing"}, todo : SUBSET Ips,
                      missing : SUBSET Ips, results : Results]
        /\ begun.pc = "reading"
    BY IdleTyped
  <2>2. lookup' = [lookup EXCEPT ![l] = begun]
    BY <1>2 DEF BeginLookup
  <2>3. HistoryTyped'
    BY <1>2 DEF BeginLookup
  <2> HIDE DEF begun
  <2>4. LookupTyped' /\ LookupLocals'
    BY <2>1, <2>2
  <2> QED BY <2>3, <2>4
<1>3. ASSUME NEW l \in Lookups, NEW ip \in Ips, ReadRow(l, ip)
      PROVE  CacheInv'
  <2>1. LookupTyped'
    <3> DEFINE found == IF IsMissing(ip) THEN {ip} ELSE {}
               more == lookup[l].missing \cup found
               less == lookup[l].todo \ {ip}
    <3>1. more \in SUBSET Ips /\ less \in SUBSET Ips
      OBVIOUS
    <3>2. lookup' = [lookup EXCEPT ![l].todo = less, ![l].missing = more]
      BY <1>3 DEF ReadRow
    <3> HIDE DEF more, less
    <3> DEFINE row == [lookup[l] EXCEPT !.todo = less, !.missing = more]
    <3>3. row \in [pc : {"idle", "reading", "asking", "writing"}, todo : SUBSET Ips,
                  missing : SUBSET Ips, results : Results]
      BY ZenonT(60), <3>1
    <3>4. lookup' = [lookup EXCEPT ![l] = row]
      BY <3>2
    <3> HIDE DEF row
    <3> QED BY <3>3, <3>4
  <2>2. LookupLocals'
    BY <1>3 DEF ReadRow
  <2>3. HistoryTyped'
    BY <1>3 DEF ReadRow
  <2> QED BY <2>1, <2>2, <2>3
<1>4. ASSUME NEW l \in Lookups, NothingMissing(l) \/ AskRaises(l) \/ LookupFails(l)
      PROVE  CacheInv'
  <2>1. lookup' = [lookup EXCEPT ![l] = IdleLookup] /\ EndLookup(l) /\ known' = known
    BY <1>4 DEF NothingMissing, AskRaises, LookupFails
  <2>2. LookupTyped' /\ LookupLocals'
    BY <2>1, IdleTyped
  <2>3. HistoryTyped'
    BY <1>4, <2>1, CacheAssumption
    DEF NothingMissing, AskRaises, LookupFails, EndLookup, AfterTurn
  <2> QED BY <2>2, <2>3
<1>5. ASSUME NEW l \in Lookups, Ask(l)
      PROVE  CacheInv'
  <2>1. LookupTyped' /\ LookupLocals'
    BY ZenonT(60), <1>5 DEF Ask
  <2>2. HistoryTyped'
    BY <1>5 DEF Ask
  <2> QED BY <2>1, <2>2
<1>6. ASSUME NEW l \in Lookups, NEW results \in AnswersTo(lookup[l].missing),
             Answered(l, results)
      PROVE  CacheInv'
  <2>1. results \in [lookup[l].missing -> Answers \cup {Unknown}] /\ lookup[l].missing \subseteq Ips
    BY DEF AnswersTo
  <2>2. results \in Results
    BY <2>1 DEF Results
  <2>3. LookupTyped' /\ LookupLocals'
    BY ZenonT(60), <1>6, <2>1, <2>2 DEF Answered
  <2>4. HistoryTyped'
    BY <1>6 DEF Answered
  <2> QED BY <2>3, <2>4
<1>7. ASSUME NEW l \in Lookups, WriteRows(l)
      PROVE  CacheInv'
  <2>1. LookupTyped' /\ LookupLocals'
    BY <1>7, IdleTyped DEF WriteRows
  <2>2. known' \in [Ips -> Answers \cup {Unknown, Absent}]
    BY <1>7 DEF WriteRows
  <2>3. racers' \in [Ips -> SUBSET Lookups]
    BY <1>7 DEF WriteRows, UnderWay
  <2>4. HistoryTyped'
    BY <1>7, <2>2, <2>3 DEF WriteRows
  <2> QED BY <2>1, <2>4
<1> QED
  BY <1>1, <1>2, <1>3, <1>4, <1>5, <1>6, <1>7 DEF CacheNext, LookupStep

LEMMA RacersStep ==
  ASSUME CacheInv, RacersKnown, [CacheNext]_cacheVars
  PROVE  RacersKnown'
<1> USE DEF CacheInv, LookupTyped, LookupLocals, HistoryTyped, RacersKnown
<1>1. CASE UNCHANGED cacheVars
  BY <1>1 DEF cacheVars
<1>2. ASSUME NEW l \in Lookups, NEW ips \in SUBSET Ips, BeginLookup(l, ips)
      PROVE  RacersKnown'
  BY <1>2, IdleTyped DEF BeginLookup
<1>3. ASSUME NEW l \in Lookups, NEW ip \in Ips, ReadRow(l, ip)
      PROVE  RacersKnown'
  BY <1>3 DEF ReadRow, IsMissing
<1>4. ASSUME NEW l \in Lookups, NothingMissing(l) \/ AskRaises(l) \/ LookupFails(l)
      PROVE  RacersKnown'
  BY SMTT(60), <1>4, IdleTyped DEF NothingMissing, AskRaises, LookupFails, EndLookup
<1>5. ASSUME NEW l \in Lookups, Ask(l)
      PROVE  RacersKnown'
  BY <1>5 DEF Ask
<1>6. ASSUME NEW l \in Lookups, NEW results \in AnswersTo(lookup[l].missing),
             Answered(l, results)
      PROVE  RacersKnown'
  BY <1>6 DEF Answered
<1>7. ASSUME NEW l \in Lookups, WriteRows(l)
      PROVE  RacersKnown'
  <2> SUFFICES ASSUME NEW k \in Lookups, NEW ip \in Ips,
                      known'[ip] # Absent, ip \in lookup'[k].missing
               PROVE  k \in racers'[ip]
    OBVIOUS
  <2>1. k # l /\ lookup'[k] = lookup[k] /\ lookup[k].pc # "idle"
    BY <1>7, IdleTyped DEF WriteRows
  <2>2. CASE known[ip] = Absent
    BY <1>7, <2>1, <2>2 DEF WriteRows, UnderWay
  <2>3. CASE known[ip] # Absent
    BY <1>7, <2>1, <2>3 DEF WriteRows, UnderWay
  <2> QED BY <2>2, <2>3
<1> QED
  BY <1>1, <1>2, <1>3, <1>4, <1>5, <1>6, <1>7 DEF CacheNext, LookupStep

LEMMA RacersReplace ==
  ASSUME CacheInv, RacersKnown, [CacheNext]_cacheVars, NEW ip \in Ips,
         known[ip] # Absent, known'[ip] # known[ip]
  PROVE  \E l \in racers[ip] : lookup[l].pc = "writing" /\ lookup'[l].pc = "idle"
<1>1. PICK l \in Lookups : WriteRows(l)
  BY DEF cacheVars, CacheNext, LookupStep, BeginLookup, ReadRow, NothingMissing, Ask, Answered,
         AskRaises, LookupFails
<1>2. ip \in lookup[l].missing
  BY <1>1 DEF WriteRows, CacheInv, HistoryTyped
<1>3. l \in racers[ip]
  BY <1>2 DEF RacersKnown
<1>4. lookup[l].pc = "writing" /\ lookup'[l].pc = "idle"
  BY <1>1, IdleTyped DEF WriteRows, CacheInv, LookupTyped
<1> QED BY <1>3, <1>4

LEMMA TurnStep ==
  ASSUME CacheInv, TurnPasses, [CacheNext]_cacheVars
  PROVE  TurnPasses'
<1> USE CacheAssumption DEF CacheInv, LookupTyped, TurnPasses
<1>1. CASE UNCHANGED cacheVars
  BY <1>1 DEF cacheVars
<1>2. ASSUME NEW l \in Lookups, NEW ips \in SUBSET Ips, BeginLookup(l, ips)
      PROVE  TurnPasses'
  BY <1>2, IdleTyped DEF BeginLookup
<1>3. ASSUME NEW l \in Lookups, NEW ip \in Ips, ReadRow(l, ip)
      PROVE  TurnPasses'
  BY <1>3 DEF ReadRow
<1>4. ASSUME NEW l \in Lookups, NothingMissing(l) \/ LookupFails(l)
      PROVE  TurnPasses'
  BY <1>4, IdleTyped DEF NothingMissing, LookupFails
<1>5. ASSUME NEW l \in Lookups, Ask(l)
      PROVE  TurnPasses'
  BY <1>5 DEF Ask
<1>6. ASSUME NEW l \in Lookups, NEW results \in AnswersTo(lookup[l].missing),
             Answered(l, results)
      PROVE  TurnPasses'
  BY <1>6 DEF Answered
<1>7. ASSUME NEW l \in Lookups, AskRaises(l)
      PROVE  TurnPasses'
  BY <1>7, IdleTyped DEF AskRaises, AfterTurn
<1>8. ASSUME NEW l \in Lookups, WriteRows(l)
      PROVE  TurnPasses'
  BY <1>8, IdleTyped DEF WriteRows
<1> QED
  BY <1>1, <1>2, <1>3, <1>4, <1>5, <1>6, <1>7, <1>8 DEF CacheNext, LookupStep

\* Who asks about an address, and who will.
Asking(ip) == {l \in Lookups : lookup[l].pc \in {"asking", "writing"} /\ ip \in lookup[l].missing}
AboutToAsk(ip) == {l \in Lookups : lookup[l].pc = "reading" /\ ip \in lookup[l].missing}

AsksPaidFor(ip) ==
  IF known[ip] = Absent
  THEN asked[ip] <= Cardinality(Asking(ip)) + fails
  ELSE asked[ip] + Cardinality(AboutToAsk(ip)) <= Cardinality(Lookups) + fails

AsksBounded == \A ip \in Ips : AsksPaidFor(ip)

LEMMA LookupSizes ==
  ASSUME NEW S, S \subseteq Lookups
  PROVE  IsFiniteSet(S) /\ Cardinality(S) \in Nat /\ Cardinality(S) <= Cardinality(Lookups)
  BY Part, CacheAssumption

\* A step that asks d times about an address pays for it by one more asker, by
\* one less about to ask, or by a failure.
LEMMA Paid ==
  ASSUME CacheInv, CacheInv', NEW ip \in Ips, AsksPaidFor(ip),
         known'[ip] = Absent <=> known[ip] = Absent,
         NEW d \in Nat, asked'[ip] = asked[ip] + d,
         known[ip] = Absent =>
           Cardinality(Asking(ip)) + fails + d <= Cardinality(Asking(ip)') + fails',
         known[ip] # Absent =>
           Cardinality(AboutToAsk(ip)') + fails + d <= Cardinality(AboutToAsk(ip)) + fails'
  PROVE  AsksPaidFor(ip)'
<1>1. /\ asked[ip] \in Nat /\ asked'[ip] \in Nat /\ fails \in Nat /\ fails' \in Nat
  BY CacheAssumption DEF CacheInv, HistoryTyped
<1>2. Cardinality(Asking(ip)) \in Nat /\ Cardinality(AboutToAsk(ip)) \in Nat
  BY LookupSizes DEF Asking, AboutToAsk
<1>3. Cardinality(Asking(ip)') \in Nat /\ Cardinality(AboutToAsk(ip)') \in Nat
  BY LookupSizes DEF Asking, AboutToAsk
<1>4. Cardinality(Lookups) \in Nat
  BY LookupSizes
<1>5. CASE known[ip] = Absent
  BY <1>1, <1>2, <1>3, <1>5 DEF AsksPaidFor
<1>6. CASE known[ip] # Absent
  BY <1>1, <1>2, <1>3, <1>4, <1>6 DEF AsksPaidFor
<1> QED BY <1>5, <1>6

\* Nobody asks: the askers of an address that has no row stay, but for l if it
\* fails, and no other comes to ask about one that has.
LEMMA NobodyAsks ==
  ASSUME CacheInv, CacheInv', NEW ip \in Ips, AsksPaidFor(ip), NEW l \in Lookups,
         known'[ip] = Absent <=> known[ip] = Absent, asked'[ip] = asked[ip],
         \/ fails' = fails /\ (known[ip] = Absent => Asking(ip) \subseteq Asking(ip)')
         \/ fails' = fails + 1 /\ Asking(ip) \ {l} \subseteq Asking(ip)',
         known[ip] # Absent => AboutToAsk(ip)' \subseteq AboutToAsk(ip)
  PROVE  AsksPaidFor(ip)'
<1>1. asked[ip] \in Nat /\ fails \in Nat
  BY CacheAssumption DEF CacheInv, HistoryTyped
<1>2. /\ IsFiniteSet(Asking(ip)) /\ Cardinality(Asking(ip)) \in Nat
      /\ IsFiniteSet(AboutToAsk(ip)) /\ Cardinality(AboutToAsk(ip)) \in Nat
  BY LookupSizes DEF Asking, AboutToAsk
<1>3. IsFiniteSet(Asking(ip)') /\ Cardinality(Asking(ip)') \in Nat
  BY LookupSizes DEF Asking
<1>4. known[ip] # Absent =>
        Cardinality(AboutToAsk(ip)') \in Nat /\ Cardinality(AboutToAsk(ip)') <= Cardinality(AboutToAsk(ip))
  BY <1>2, Part
<1>5. known[ip] = Absent => Cardinality(Asking(ip)) + fails <= Cardinality(Asking(ip)') + fails'
  <2>1. CASE fails' = fails /\ (known[ip] = Absent => Asking(ip) \subseteq Asking(ip)')
    BY <1>1, <1>2, <1>3, <2>1, Part
  <2>2. CASE fails' = fails + 1 /\ Asking(ip) \ {l} \subseteq Asking(ip)'
    <3>1. /\ Cardinality(Asking(ip) \ {l}) \in Nat
          /\ Cardinality(Asking(ip) \ {l}) <= Cardinality(Asking(ip)')
      BY <1>3, <2>2, Part
    <3>2. Cardinality(Asking(ip)) - 1 <= Cardinality(Asking(ip) \ {l})
      <4>1. Cardinality(Asking(ip) \ {l})
              = IF l \in Asking(ip) THEN Cardinality(Asking(ip)) - 1 ELSE Cardinality(Asking(ip))
        BY <1>2, FS_RemoveElement
      <4> QED BY <1>2, <4>1
    <3> QED BY <1>1, <1>2, <1>3, <2>2, <3>1, <3>2
  <2> QED BY <2>1, <2>2
<1>6. fails <= fails' /\ fails' \in Nat
  BY <1>1
<1>7. asked'[ip] = asked[ip] + 0
  BY <1>1
<1>8. Cardinality(Asking(ip)) + fails + 0 = Cardinality(Asking(ip)) + fails
  BY <1>1, <1>2
<1>9. known[ip] # Absent =>
        Cardinality(AboutToAsk(ip)') + fails + 0 <= Cardinality(AboutToAsk(ip)) + fails'
  BY <1>1, <1>2, <1>4, <1>6
<1> QED
  BY <1>5, <1>7, <1>8, <1>9, Paid

LEMMA AsksStep ==
  ASSUME CacheInv, AsksBounded, [CacheNext]_cacheVars
  PROVE  AsksBounded'
<1> SUFFICES ASSUME NEW ip \in Ips PROVE AsksPaidFor(ip)'
  BY DEF AsksBounded
<1> CacheInv' /\ AsksPaidFor(ip)
  BY CacheInvStep DEF AsksBounded
<1>1. CASE UNCHANGED cacheVars
  BY <1>1 DEF cacheVars, AsksPaidFor, Asking, AboutToAsk
<1>2. ASSUME NEW l \in Lookups, NEW ips \in SUBSET Ips, BeginLookup(l, ips)
      PROVE  AsksPaidFor(ip)'
  <2>1. Asking(ip) \subseteq Asking(ip)' /\ AboutToAsk(ip)' \subseteq AboutToAsk(ip)
    BY <1>2, IdleTyped DEF BeginLookup, Asking, AboutToAsk, CacheInv, LookupTyped
  <2>2. known' = known /\ asked' = asked /\ fails' = fails
    BY <1>2 DEF BeginLookup
  <2> QED BY <2>1, <2>2, NobodyAsks
<1>3. ASSUME NEW l \in Lookups, NEW r \in Ips, ReadRow(l, r)
      PROVE  AsksPaidFor(ip)'
  <2>1. Asking(ip) \subseteq Asking(ip)'
    BY <1>3 DEF ReadRow, Asking, CacheInv, LookupTyped, LookupLocals
  <2>2. known[ip] # Absent => AboutToAsk(ip)' \subseteq AboutToAsk(ip)
    BY <1>3 DEF ReadRow, AboutToAsk, CacheInv, LookupTyped, IsMissing
  <2>3. known' = known /\ asked' = asked /\ fails' = fails
    BY <1>3 DEF ReadRow
  <2> QED BY <2>1, <2>2, <2>3, NobodyAsks
<1>4. ASSUME NEW l \in Lookups, NothingMissing(l)
      PROVE  AsksPaidFor(ip)'
  <2>1. Asking(ip) \subseteq Asking(ip)' /\ AboutToAsk(ip)' \subseteq AboutToAsk(ip)
    BY <1>4, IdleTyped DEF NothingMissing, Asking, AboutToAsk, CacheInv, LookupTyped
  <2>2. known' = known /\ asked' = asked /\ fails' = fails
    BY <1>4 DEF NothingMissing
  <2> QED BY <2>1, <2>2, NobodyAsks
<1>5. ASSUME NEW l \in Lookups, AskRaises(l) \/ LookupFails(l)
      PROVE  AsksPaidFor(ip)'
  <2>1. Asking(ip) \ {l} \subseteq Asking(ip)' /\ AboutToAsk(ip)' \subseteq AboutToAsk(ip)
    BY <1>5, IdleTyped DEF AskRaises, LookupFails, Asking, AboutToAsk, CacheInv, LookupTyped
  <2>2. known' = known /\ asked' = asked /\ fails' = fails + 1
    BY <1>5 DEF AskRaises, LookupFails
  <2> QED BY <2>1, <2>2, NobodyAsks
<1>6. ASSUME NEW l \in Lookups, NEW results \in AnswersTo(lookup[l].missing),
             Answered(l, results)
      PROVE  AsksPaidFor(ip)'
  <2>1. Asking(ip) \subseteq Asking(ip)' /\ AboutToAsk(ip)' \subseteq AboutToAsk(ip)
    BY <1>6 DEF Answered, Asking, AboutToAsk, CacheInv, LookupTyped
  <2>2. known' = known /\ asked' = asked /\ fails' = fails
    BY <1>6 DEF Answered
  <2> QED BY <2>1, <2>2, NobodyAsks
<1>7. ASSUME NEW l \in Lookups, Ask(l)
      PROVE  AsksPaidFor(ip)'
  <2>1. known' = known /\ fails' = fails /\ asked[ip] \in Nat /\ fails \in Nat
    BY <1>7, CacheAssumption DEF Ask, CacheInv, HistoryTyped
  <2>2. CASE ip \notin lookup[l].missing
    <3>1. Asking(ip) \subseteq Asking(ip)' /\ AboutToAsk(ip)' \subseteq AboutToAsk(ip)
      BY <1>7, <2>2 DEF Ask, Asking, AboutToAsk, CacheInv, LookupTyped
    <3>2. asked'[ip] = asked[ip]
      BY <1>7, <2>2 DEF Ask
    <3> QED BY <2>1, <3>1, <3>2, NobodyAsks
  <2>3. CASE ip \in lookup[l].missing
    <3>1. Asking(ip)' = Asking(ip) \cup {l} /\ l \notin Asking(ip)
      BY <1>7, <2>3 DEF Ask, Asking, CacheInv, LookupTyped
    <3>2. AboutToAsk(ip)' = AboutToAsk(ip) \ {l} /\ l \in AboutToAsk(ip)
      BY <1>7, <2>3 DEF Ask, AboutToAsk, CacheInv, LookupTyped
    <3>3. /\ IsFiniteSet(Asking(ip)) /\ Cardinality(Asking(ip)) \in Nat
          /\ IsFiniteSet(AboutToAsk(ip)) /\ Cardinality(AboutToAsk(ip)) \in Nat
      BY LookupSizes DEF Asking, AboutToAsk
    <3>4. Cardinality(Asking(ip)') = Cardinality(Asking(ip)) + 1
      BY <3>1, <3>3, FS_AddElement
    <3>5. Cardinality(AboutToAsk(ip)') = Cardinality(AboutToAsk(ip)) - 1
      BY <3>2, <3>3, FS_RemoveElement
    <3>6. asked'[ip] = asked[ip] + 1
      BY <1>7, <2>3 DEF Ask
    <3>7. Cardinality(Asking(ip)) + fails + 1 <= Cardinality(Asking(ip)') + fails'
      BY <2>1, <3>3, <3>4
    <3>8. Cardinality(AboutToAsk(ip)') + fails + 1 <= Cardinality(AboutToAsk(ip)) + fails'
      BY <2>1, <3>3, <3>5
    <3> QED BY <2>1, <3>6, <3>7, <3>8, Paid
  <2> QED BY <2>2, <2>3
<1>8. ASSUME NEW l \in Lookups, WriteRows(l)
      PROVE  AsksPaidFor(ip)'
  <2>1. asked' = asked /\ fails' = fails
    BY <1>8 DEF WriteRows
  <2>2. AboutToAsk(ip)' = AboutToAsk(ip)
    BY <1>8, IdleTyped DEF WriteRows, AboutToAsk, CacheInv, LookupTyped
  <2>3. CASE ip \notin lookup[l].missing
    <3>1. known'[ip] = known[ip]
      BY <1>8, <2>3 DEF WriteRows
    <3>2. Asking(ip) \subseteq Asking(ip)'
      BY <1>8, <2>3 DEF WriteRows, Asking, CacheInv, LookupTyped
    <3> QED BY <2>1, <2>2, <3>1, <3>2, NobodyAsks
  <2>4. CASE ip \in lookup[l].missing
    <3>1. known'[ip] # Absent
      BY <1>8, <2>4, CacheAssumption
      DEF WriteRows, CacheInv, LookupLocals, Unknown, Absent
    <3>2. CASE known[ip] # Absent
      BY <2>1, <2>2, <3>1, <3>2, NobodyAsks
    <3>3. CASE known[ip] = Absent
      <4>1. asked[ip] <= Cardinality(Asking(ip)) + fails
        BY <3>3 DEF AsksPaidFor
      <4>2. Cardinality(Asking(ip)) + Cardinality(AboutToAsk(ip)) <= Cardinality(Lookups)
        <5>1. IsFiniteSet(Asking(ip)) /\ IsFiniteSet(AboutToAsk(ip))
          BY LookupSizes DEF Asking, AboutToAsk
        <5>2. Asking(ip) \cap AboutToAsk(ip) = {}
          BY DEF Asking, AboutToAsk
        <5>3. Cardinality(Asking(ip) \cup AboutToAsk(ip))
                = Cardinality(Asking(ip)) + Cardinality(AboutToAsk(ip)) - 0
          BY <5>1, <5>2, FS_Union, FS_EmptySet
        <5>4. Cardinality(Asking(ip) \cup AboutToAsk(ip)) <= Cardinality(Lookups)
          BY LookupSizes DEF Asking, AboutToAsk
        <5>5. Cardinality(Asking(ip)) \in Nat /\ Cardinality(AboutToAsk(ip)) \in Nat
          BY LookupSizes DEF Asking, AboutToAsk
        <5> QED BY <5>3, <5>4, <5>5
      <4>3. /\ Cardinality(Asking(ip)) \in Nat /\ Cardinality(AboutToAsk(ip)) \in Nat
            /\ Cardinality(Lookups) \in Nat
        BY LookupSizes DEF Asking, AboutToAsk
      <4>4. asked[ip] \in Nat /\ fails \in Nat
        BY CacheAssumption DEF CacheInv, HistoryTyped
      <4>5. asked[ip] + Cardinality(AboutToAsk(ip)) <= Cardinality(Lookups) + fails
        BY <4>1, <4>2, <4>3, <4>4
      <4> QED BY <2>1, <2>2, <3>1, <4>5 DEF AsksPaidFor
    <3> QED BY <3>2, <3>3
  <2> QED BY <2>3, <2>4
<1> QED
  BY <1>1, <1>2, <1>3, <1>4, <1>5, <1>6, <1>7, <1>8 DEF CacheNext, LookupStep

LEMMA PaidForIsAskBound ==
  ASSUME CacheInv, AsksBounded
  PROVE  AskBound
<1> SUFFICES ASSUME NEW ip \in Ips PROVE asked[ip] <= Cardinality(Lookups) + fails
  BY DEF AskBound
<1>1. asked[ip] \in Nat /\ fails \in Nat
  BY CacheAssumption DEF CacheInv, HistoryTyped
<1>2. /\ Cardinality(Asking(ip)) \in Nat /\ Cardinality(AboutToAsk(ip)) \in Nat
      /\ Cardinality(Lookups) \in Nat /\ Cardinality(Asking(ip)) <= Cardinality(Lookups)
  BY LookupSizes DEF Asking, AboutToAsk
<1>3. AsksPaidFor(ip)
  BY DEF AsksBounded
<1> QED BY <1>1, <1>2, <1>3 DEF AsksPaidFor

LEMMA AsksStart == CacheInit => AsksBounded
<1> SUFFICES ASSUME CacheInit, NEW ip \in Ips PROVE AsksPaidFor(ip)
  BY DEF AsksBounded
<1>1. asked[ip] = 0 /\ known[ip] = Absent /\ fails = 0
  BY DEF CacheInit
<1>2. Cardinality(Asking(ip)) \in Nat
  BY LookupSizes DEF Asking
<1> QED BY <1>1, <1>2 DEF AsksPaidFor

(***************************************************************************)
(* lookup_asn and lookup_geo, for any number of threads and addresses:     *)
(* each request about an address is paid for by a thread that found no     *)
(* row, and a row is replaced by nobody but those.                         *)
(***************************************************************************)
THEOREM CacheCorrect ==
  CacheSpec => [](CacheTypeOK /\ AskBound /\ TurnPasses) /\ OnlyRacersReplace
<1> DEFINE Inv == CacheInv /\ RacersKnown /\ AsksBounded /\ TurnPasses
           Replaced == \A ip \in Ips : known[ip] # Absent /\ known'[ip] # known[ip] =>
                         \E l \in racers[ip] : lookup[l].pc = "writing" /\ lookup'[l].pc = "idle"
<1>1. CacheInit => Inv
  BY CacheStart, AsksStart
<1>2. Inv /\ [CacheNext]_cacheVars => Inv'
  BY CacheInvStep, RacersStep, AsksStep, TurnStep
<1>3. Inv => CacheTypeOK /\ AskBound /\ TurnPasses
  <2>1. Inv => CacheTypeOK
    BY DEF CacheInv, LookupTyped, LookupLocals, HistoryTyped, CacheTypeOK
  <2> QED BY <2>1, PaidForIsAskBound
<1>4. Inv /\ [CacheNext]_cacheVars => [Replaced]_cacheVars
  BY RacersReplace
<1> QED BY <1>1, <1>2, <1>3, <1>4, PTL DEF CacheSpec, OnlyRacersReplace

-----------------------------------------------------------------------------
(* Together *)

(***************************************************************************)
(* The types of the requests, the bench and the file they share.           *)
(***************************************************************************)
THEOREM TypeCorrect == Spec => []TypeOK
<1>1. SchemaTypeOK /\ CacheTypeOK /\ BenchTypeOK => TypeOK
  BY DEF TypeOK
<1> QED BY <1>1, Composition, SchemaCorrect, CacheCorrect, BenchCorrect, PTL

(***************************************************************************)
(* A page or a bench never works on a file that lacks a column.            *)
(***************************************************************************)
THEOREM Migrated == Spec => []OpenIsMigrated
BY Composition, SchemaCorrect, PTL

(***************************************************************************)
(* However often pages are loaded, "duplicate column name" comes up at     *)
(* most once for each column and each other user.                          *)
(***************************************************************************)
THEOREM RefusalsEnd == Spec => []RefusalBound
BY Composition, SchemaCorrect, PTL

(***************************************************************************)
(* The remote services are asked about an address once by each thread at   *)
(* most, and once more for each lookup that failed.                        *)
(***************************************************************************)
THEOREM AsksEnd == Spec => []AskBound
BY Composition, CacheCorrect, PTL

(***************************************************************************)
(* Only a lookup that started before a row was written writes it again.    *)
(***************************************************************************)
THEOREM RowsStay == Spec => OnlyRacersReplace
BY Composition, CacheCorrect, PTL

(***************************************************************************)
(* The lock of the lookups belongs to who waits for the service.           *)
(***************************************************************************)
THEOREM TurnIsHeld == Spec => []TurnPasses
BY Composition, CacheCorrect, PTL

(***************************************************************************)
(* What a bench leaves behind without a row of s3_tracked_objects.         *)
(***************************************************************************)
THEOREM BenchTracks == Spec => []BenchObjectsTracked
BY Composition, BenchCorrect, PTL
=============================================================================
