------------------------------- MODULE Schema --------------------------------
(***************************************************************************)
(* The columns of the database file, which every session brings up to date *)
(* before it is used: init_db creates the tables that are not there and    *)
(* adds the columns that came with later releases, one by one.  Each of    *)
(* these statements is a transaction of its own; the test for a column and *)
(* the ALTER TABLE are two of them.                                        *)
(***************************************************************************)
EXTENDS Naturals, FiniteSets

CONSTANTS
  Users,       \* threads and processes that open sessions
  LastColumn   \* the columns to add are numbered in the order of init_db

ASSUME SchemaAssumption == LastColumn \in Nat /\ IsFiniteSet(Users) /\ Users # {}

VARIABLES
  columns,    \* the columns there are
  session,    \* user -> where its session is
  refused     \* sessions that failed, on a column that was added meanwhile

schemaVars == <<columns, session, refused>>

Columns == 1..LastColumn

\* next is the column to look at, while pc is "check" or "alter".
Closed == [pc |-> "closed", next |-> 0]

\* A file of any earlier release, or a new one: a prefix of the columns.
SchemaInit ==
  /\ \E n \in 0..LastColumn : columns = 1..n
  /\ session = [u \in Users |-> Closed]
  /\ refused = 0

OpenSession(u) ==
  /\ session[u] = Closed
  /\ session' = [session EXCEPT ![u] = [pc |-> "check", next |-> 1]]
  /\ UNCHANGED <<columns, refused>>

\* A release that forgot the column.
NeverLacks(c) == FALSE

Lacks(c) == c \notin columns

CheckColumn(u) ==
  /\ session[u].pc = "check" /\ session[u].next \in Columns
  /\ session' = IF Lacks(session[u].next) THEN [session EXCEPT ![u].pc = "alter"]
                                            ELSE [session EXCEPT ![u].next = @ + 1]
  /\ UNCHANGED <<columns, refused>>

AddColumn(u) ==
  /\ session[u].pc = "alter" /\ session[u].next \notin columns
  /\ columns' = columns \cup {session[u].next}
  /\ session' = [session EXCEPT ![u] = [pc |-> "check", next |-> session[u].next + 1]]
  /\ UNCHANGED refused

\* The same statement is tried again.
AfterRefusalRetry(u) == session[u]

\* The session ends by the exception; its user may come back.
AfterRefusal(u) == Closed

\* "duplicate column name": somebody else added it after the test.
AddTwice(u) ==
  /\ session[u].pc = "alter" /\ session[u].next \in columns
  /\ session' = [session EXCEPT ![u] = AfterRefusal(u)]
  /\ refused' = refused + 1
  /\ UNCHANGED columns

Connect(u) ==
  /\ session[u].pc = "check" /\ session[u].next \notin Columns
  /\ session' = [session EXCEPT ![u] = [pc |-> "open", next |-> 0]]
  /\ UNCHANGED <<columns, refused>>

\* By its end, or because its process dies at any step.
CloseSession(u) ==
  /\ session[u] # Closed
  /\ session' = [session EXCEPT ![u] = Closed]
  /\ UNCHANGED <<columns, refused>>

MigrationStep(u) == CheckColumn(u) \/ AddColumn(u) \/ AddTwice(u) \/ Connect(u)

SchemaNext == \E u \in Users : OpenSession(u) \/ MigrationStep(u) \/ CloseSession(u)

SchemaSpec == SchemaInit /\ [][SchemaNext]_schemaVars

-----------------------------------------------------------------------------
SchemaTypeOK ==
  /\ columns \subseteq Columns
  /\ session \in [Users -> [pc : {"closed", "check", "alter", "open"}, next : 0..LastColumn + 1]]
  /\ refused \in Nat

(***************************************************************************)
(* No statement of a session meets a table without one of its columns,     *)
(* whoever added them, whatever release wrote the file, and whoever was    *)
(* refused or killed between two of the ALTERs.                            *)
(***************************************************************************)
OpenIsMigrated == \A u \in Users : session[u].pc = "open" => columns = Columns

(***************************************************************************)
(* _migrate_add_column calls itself idempotent and silent.  It is not when *)
(* two sessions find the same column missing, but that cannot go on: a     *)
(* column is added once, and refuses each of the others at most once.      *)
(***************************************************************************)
RefusalBound == refused <= LastColumn * (Cardinality(Users) - 1)
=============================================================================
