----------------------------- MODULE SharedFile ------------------------------
(***************************************************************************)
(* Requests and a bench on one database file.  A page that shows the       *)
(* latest run of a target with the AS and the place of its hops opens a    *)
(* session, which migrates the file, reads the run, and looks the          *)
(* addresses up.  The bench opens its only session at its end, and has     *)
(* nothing to write if that is refused.                                    *)
(***************************************************************************)
EXTENDS Schema, LookupCache, Bench

CONSTANT Bencher   \* the thread that calls run_bench

ASSUME SharedFileAssumption == Bencher \notin Lookups /\ Users = Lookups \cup {Bencher}

vars == <<schemaVars, cacheVars, benchVars>>

Init == SchemaInit /\ CacheInit /\ BenchInit

CacheOnly == UNCHANGED <<schemaVars, benchVars>>
BenchOnly == UNCHANGED <<schemaVars, cacheVars>>

\* A request comes in, or is repeated.
OpenPage(l) == lookup[l].pc = "idle" /\ OpenSession(l) /\ UNCHANGED <<cacheVars, benchVars>>

\* The hops of the run that was read have these routable addresses.
ViewRun(l, ips) ==
  /\ session[l].pc = "open" /\ CloseSession(l)
  /\ BeginLookup(l, ips)
  /\ UNCHANGED benchVars

NothingToLookUp(l) ==
  session[l].pc = "open" /\ CloseSession(l) /\ UNCHANGED <<cacheVars, benchVars>>

\* A server that dies takes the request with it.
PageFails(l) ==
  /\ CacheOnly
  /\ AskRaises(l) \/ LookupFails(l)

OpenRecords ==
  stage = "collected" /\ OpenSession(Bencher) /\ UNCHANGED <<cacheVars, benchVars>>

RecordRows ==
  /\ session[Bencher].pc = "open" /\ CloseSession(Bencher)
  /\ RecordBench
  /\ UNCHANGED cacheVars

\* "duplicate column name" loses the rows of the bench.
RecordsRefused == AddTwice(Bencher) /\ RecordFails /\ UNCHANGED cacheVars

BenchDies ==
  /\ BenchKilled
  /\ IF session[Bencher] = Closed THEN UNCHANGED schemaVars ELSE CloseSession(Bencher)
  /\ UNCHANGED cacheVars

Migrates(u) == CheckColumn(u) \/ AddColumn(u) \/ Connect(u)

Migrating ==
  /\ UNCHANGED <<cacheVars, benchVars>>
  /\ (\E u \in Users : Migrates(u)) \/ \E l \in Lookups : AddTwice(l)

Next ==
  \/ \E l \in Lookups : OpenPage(l) \/ NothingToLookUp(l) \/ PageFails(l)
  \/ \E l \in Lookups, ips \in SUBSET Ips : ViewRun(l, ips)
  \/ \E l \in Lookups : LookupStep(l) /\ CacheOnly
  \/ Migrating
  \/ (BeginBench \/ BenchStep) /\ BenchOnly
  \/ OpenRecords \/ RecordRows \/ RecordsRefused \/ BenchDies

Spec == Init /\ [][Next]_vars

-----------------------------------------------------------------------------
\* Among them: every address a lookup is about to write has its answer.
TypeOK == SchemaTypeOK /\ CacheTypeOK /\ BenchTypeOK
=============================================================================
