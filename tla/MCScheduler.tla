---------------------------- MODULE MCScheduler -----------------------------
(***************************************************************************)
(* Small instances of Scheduler for TLC.                                   *)
(***************************************************************************)
EXTENDS Scheduler

CONSTANTS a1, a2, j1, j2

\* Cron expressions fire on a grid, "@every" a period after the time asked for.
\* Both end with the time watched.
Until(t) == IF t <= MaxTime THEN t ELSE NoTime
OddAndEvery(j, t) == Until(IF j = j1 THEN 2 * ((t + 1) \div 2) + 1 ELSE t + 2)

\* MaxRequests: one job is created, paused and resumed, the other is created.
Requested == [j \in Jobs |-> IF j = j1 THEN 3 ELSE 1]

\* ApiAhead.
Skewed == [a \in Apis |-> IF a = a1 THEN 0 ELSE 2]

\* MaxFaults.
OneFailure == [k \in FaultKinds |-> IF k = "db" THEN 1 ELSE 0]
=============================================================================
