----------------------------- MODULE LookupCache -----------------------------
(***************************************************************************)
(* What is known of an address: its AS (mtr_analysis.py) and its place     *)
(* (geoip.py).  Both are answered by a slow remote service, one request at *)
(* a time, and kept in a table for ever.  The table is read, the service   *)
(* asked and the table written in three separate steps.                    *)
(***************************************************************************)
EXTENDS Naturals, FiniteSets

CONSTANTS
  Lookups,    \* threads that look addresses up
  Ips,        \* routable addresses
  Answers,    \* what the service can say of one
  MaxFails,   \* bound: lookups that end by an exception or a crash
  None

\* A row with answer NULL: the service knew nothing, or did not answer.
Unknown == "unknown"
Absent == "absent"

ASSUME CacheAssumption ==
  /\ Answers \cap {Unknown, Absent} = {}
  /\ IsFiniteSet(Lookups) /\ None \notin Lookups
  /\ MaxFails \in Nat

VARIABLES
  known,    \* address -> its row: Absent, Unknown or an answer
  lookup,   \* thread -> the local variables of its lookup
  turn,     \* who holds _lock, or None
  asked,    \* history: address -> requests made about it
  racers,   \* history: address -> lookups under way since before it got its row
  fails     \* lookups that failed

cacheVars == <<known, lookup, turn, asked, racers, fails>>

IdleLookup == [pc |-> "idle", todo |-> {}, missing |-> {}, results |-> [ip \in {} |-> Unknown]]

CacheInit ==
  /\ known = [ip \in Ips |-> Absent]
  /\ lookup = [l \in Lookups |-> IdleLookup]
  /\ turn = None
  /\ asked = [ip \in Ips |-> 0]
  /\ racers = [ip \in Ips |-> {}]
  /\ fails = 0

\* CREATE TABLE IF NOT EXISTS comes first; no caller passes force.
BeginLookup(l, ips) ==
  /\ lookup[l].pc = "idle" /\ ips # {}
  /\ lookup' = [lookup EXCEPT ![l] = [IdleLookup EXCEPT !.pc = "reading", !.todo = ips]]
  /\ UNCHANGED <<known, turn, asked, racers, fails>>

EndLookup(l) == racers' = [ip \in Ips |-> racers[ip] \ {l}]

\* Without the rows that hold no answer; and without any, as force does.
IsUnanswered(ip) == known[ip] \in {Absent, Unknown}
IsForced(ip) == TRUE

IsMissing(ip) == known[ip] = Absent

ReadRow(l, ip) ==
  /\ ip \in lookup[l].todo
  /\ LET found == IF IsMissing(ip) THEN {ip} ELSE {}
     IN  lookup' = [lookup EXCEPT ![l].todo = @ \ {ip}, ![l].missing = @ \cup found]
  /\ UNCHANGED <<known, turn, asked, racers, fails>>

NothingMissing(l) ==
  /\ lookup[l].pc = "reading" /\ lookup[l].todo = {} /\ lookup[l].missing = {}
  /\ lookup' = [lookup EXCEPT ![l] = IdleLookup] /\ EndLookup(l)
  /\ UNCHANGED <<known, turn, asked, fails>>

Ask(l) ==
  /\ lookup[l].pc = "reading" /\ lookup[l].todo = {} /\ lookup[l].missing # {}
  /\ turn = None /\ turn' = l
  /\ asked' = [ip \in Ips |-> IF ip \in lookup[l].missing THEN asked[ip] + 1 ELSE asked[ip]]
  /\ lookup' = [lookup EXCEPT ![l].pc = "asking"]
  /\ UNCHANGED <<known, racers, fails>>

HoldsOn(l) == l

\* with _lock: released whatever comes.
AfterTurn(l) == None

\* Those that are known only.
AnswersToSome(ips) == UNION {[s -> Answers] : s \in SUBSET ips}

\* A service that cannot be reached says nothing of any of them.
AnswersTo(ips) == [ips -> Answers \cup {Unknown}]

Answered(l, results) ==
  /\ lookup[l].pc = "asking"
  /\ results \in AnswersTo(lookup[l].missing)
  /\ turn' = None
  /\ lookup' = [lookup EXCEPT ![l].pc = "writing", ![l].results = results]
  /\ UNCHANGED <<known, asked, racers, fails>>

\* An answer that is no JSON object, cut short, ...: everything is lost.
AskRaises(l) ==
  /\ lookup[l].pc = "asking"
  /\ fails < MaxFails /\ fails' = fails + 1
  /\ turn' = AfterTurn(l)
  /\ lookup' = [lookup EXCEPT ![l] = IdleLookup] /\ EndLookup(l)
  /\ UNCHANGED <<known, asked>>

UnderWay == {l \in Lookups : lookup[l].pc # "idle"}

\* One transaction, INSERT OR REPLACE for each.
WriteRows(l) ==
  /\ lookup[l].pc = "writing"
  /\ known' = [ip \in Ips |-> IF ip \in lookup[l].missing THEN lookup[l].results[ip]
                                                          ELSE known[ip]]
  /\ racers' = [ip \in Ips |->
       (IF known[ip] = Absent /\ known'[ip] # Absent THEN UnderWay ELSE racers[ip]) \ {l}]
  /\ lookup' = [lookup EXCEPT ![l] = IdleLookup]
  /\ UNCHANGED <<turn, asked, fails>>

\* The database is busy, the table cannot be read, the process dies: only the
\* rows matter to anybody else.  (Dying while it asks is AskRaises.)
LookupFails(l) ==
  /\ lookup[l].pc \in {"reading", "writing"}
  /\ fails < MaxFails /\ fails' = fails + 1
  /\ lookup' = [lookup EXCEPT ![l] = IdleLookup] /\ EndLookup(l)
  /\ UNCHANGED <<known, turn, asked>>

LookupStep(l) ==
  \/ \E ip \in Ips : ReadRow(l, ip)
  \/ NothingMissing(l) \/ Ask(l)
  \/ \E results \in AnswersTo(lookup[l].missing) : Answered(l, results)
  \/ WriteRows(l)

CacheNext ==
  \E l \in Lookups :
    LookupStep(l) \/ AskRaises(l) \/ LookupFails(l) \/ \E ips \in SUBSET Ips : BeginLookup(l, ips)

CacheSpec == CacheInit /\ [][CacheNext]_cacheVars

-----------------------------------------------------------------------------
CacheTypeOK ==
  /\ known \in [Ips -> Answers \cup {Unknown, Absent}]
  /\ \A l \in Lookups :
       /\ lookup[l].pc \in {"idle", "reading", "asking", "writing"}
       /\ lookup[l].todo \subseteq Ips /\ lookup[l].missing \subseteq Ips
       /\ lookup[l].pc = "writing" =>
            lookup[l].results \in [lookup[l].missing -> Answers \cup {Unknown}]
  /\ DOMAIN lookup = Lookups
  /\ turn \in Lookups \cup {None}
  /\ asked \in [Ips -> Nat] /\ racers \in [Ips -> SUBSET Lookups] /\ fails \in 0..MaxFails

(***************************************************************************)
(* "Never refetches a cached IP" (mtr_analysis.py:99): but for failures,   *)
(* the service is asked about an address once by each thread at most, those*)
(* that had found it missing before the first of them wrote, however often *)
(* pages are loaded, whether the service knows the address or not.         *)
(***************************************************************************)
AskBound == \A ip \in Ips : asked[ip] <= Cardinality(Lookups) + fails

(***************************************************************************)
(* "Cached forever" (mtr_analysis.py:4, geoip.py:78): nobody replaces the  *)
(* row of an address but a lookup that has been under way since before.    *)
(* (One that got no answer does replace an answer by Unknown.)             *)
(***************************************************************************)
OnlyRacersReplace ==
  [][\A ip \in Ips : known[ip] # Absent /\ known'[ip] # known[ip] =>
       \E l \in racers[ip] : lookup[l].pc = "writing" /\ lookup'[l].pc = "idle"]_cacheVars

(***************************************************************************)
(* Whatever a lookup meets while it holds the lock, a service that raises  *)
(* or never answers, it does not keep it: the lock is free or its holder   *)
(* is waiting for the service, which has a timeout.                        *)
(***************************************************************************)
TurnPasses == \A l \in Lookups : turn = l <=> lookup[l].pc = "asking"
=============================================================================
