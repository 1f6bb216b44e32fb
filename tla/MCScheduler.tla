---------------------------- MODULE MCScheduler ----------------------------
(* Instances of Scheduler small enough for TLC. *)
EXTENDS Scheduler

Fixed(kind, hook, interval) ==
  [kind |-> kind, mode |-> "fixed", interval |-> interval, min |-> 0, max |-> 0, hook |-> hook]

Random(kind, hook, min, max) ==
  [kind |-> kind, mode |-> "random", interval |-> 0, min |-> min, max |-> max, hook |-> hook]

\* One that can be dated, one that cannot, and one the validation refuses.
NearFarAndRefused ==
  {Fixed("http", "none", 1), Fixed("http", "none", 3), Random("http", "none", 2, 1)}

AnyHook == {Fixed(kind, hook, 1) : kind \in {"s3", "http", "mtr", "tcp"},
                                   hook \in {"none", "valid", "malformed"}}

AnyHookAndFar == AnyHook \cup {Fixed("tcp", "valid", 3)}

\* Where no configuration has a webhook, no guard and no property but TypeOK
\* reads what a job found or recorded: states that differ in it are one.
View ==
  <<[s \in Schedules |-> [row[s] EXCEPT !.status = None]], thread, batch,
    [t \in Threads |-> [job[t] EXCEPT !.result = None]], toggle, faults, crashes, late, rest>>

=============================================================================
