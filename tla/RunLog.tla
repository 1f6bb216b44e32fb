------------------------------- MODULE RunLog --------------------------------
(***************************************************************************)
(* What a reader of the run tables may count on: every run appears whole,  *)
(* with all its hops, samples or steps, under the next number of its       *)
(* table, never changes, and one day goes, whole again.  A number is never *)
(* given twice, not even after its run has gone.                           *)
(***************************************************************************)
EXTENDS Naturals

CONSTANTS
  Tables,     \* the run tables
  Contents    \* table -> what a whole measurement of it can consist of

VARIABLES
  log,   \* the runs present: [kind, id, parts]
  top    \* table -> the last number given

logVars == <<log, top>>

LogInit == log = {} /\ top = [k \in Tables |-> 0]

Add(k, parts) ==
  /\ top' = [top EXCEPT ![k] = @ + 1]
  /\ log' = log \cup {[kind |-> k, id |-> top[k] + 1, parts |-> parts]}

Drop == log' \subseteq log /\ UNCHANGED top

LogNext == (\E k \in Tables : \E parts \in Contents[k] : Add(k, parts)) \/ Drop

LogSpec == LogInit /\ [][LogNext]_logVars
=============================================================================
