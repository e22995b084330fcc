----------------------------- MODULE Scheduler ------------------------------
(***************************************************************************)
(* internal/scheduler and the jobs table: when the occurrences of cron     *)
(* jobs are queued.  Each API replica runs one scheduler, and serves the   *)
(* requests that create, pause and resume jobs.  What becomes of a queued  *)
(* run is JobSystem's subject.                                             *)
(*                                                                         *)
(* Two clocks take part: the database's now() selects the jobs that are    *)
(* due, and the replica's time.Now() is what the next occurrence is        *)
(* computed from.  Each is ahead of time by a fixed amount.                *)
(*                                                                         *)
(* Jobs without a cron expression have no next_run_at and are left out.    *)
(***************************************************************************)
EXTENDS Integers, Sequences, FiniteSets, Faults

CONSTANTS Jobs,           \* the ids cron jobs can get
          Apis,           \* the API replicas
          MaxRequests,    \* how many requests name each job
          NoTime,         \* next_run_at IS NULL
          NextRun(_, _),  \* job.NextRun: a job's first occurrence after a time
          Batch,          \* batch
          DbAhead,        \* the clock of the database
          ApiAhead,       \* the clock of each replica
          MaxAhead,       \* how far a clock may be ahead
          MaxTime         \* how long the system is watched

ASSUME SchedulerAssumption ==
  /\ NoTime \notin Nat
  /\ Batch \in Nat \ {0}
  /\ MaxTime \in Nat /\ MaxAhead \in Nat /\ MaxRequests \in [Jobs -> Nat]
  /\ DbAhead \in 0..MaxAhead /\ ApiAhead \in [Apis -> 0..MaxAhead]

\* What NextRun promises.  NoTime is its error: the schedule fires no more.
ASSUME NextRunAssumption ==
  \A j \in Jobs, t \in 0..(MaxTime + MaxAhead) :
    NextRun(j, t) = NoTime \/ (NextRun(j, t) \in Nat /\ NextRun(j, t) > t)

VARIABLES time,
          jobs,    \* the jobs table
          fired,   \* the scheduled runs of each job, in the order of insertion
          tick,    \* the jobs each replica's open transaction has locked
          reqs     \* how far each request is, and what it is about to write

vars == <<time, jobs, fired, tick, reqs, faults>>

Times  == Nat \cup {NoTime}
Job    == [created : BOOLEAN, enabled : BOOLEAN, next_run_at : Times]
NoJob  == [created |-> FALSE, enabled |-> FALSE, next_run_at |-> NoTime]
Firing == [occurrence : Nat, at : Nat]
NoTick == [j \in Jobs |-> NoTime]

\* The requests that create, pause and resume jobs.
Requests == UNION {{j} \X (1..MaxRequests[j]) : j \in Jobs}
JobOf(q) == q[1]

TypeOK ==
  /\ time \in 0..MaxTime
  /\ jobs \in [Jobs -> Job]
  /\ fired \in [Jobs -> Seq(Firing)]
  /\ tick \in [Apis -> [Jobs -> Times]]
  /\ reqs \in [Requests -> [phase : {"new", "create", "pause", "resume", "done"},
                            next : Times]]
  /\ FaultsTypeOK

Init ==
  /\ time = 0
  /\ jobs = [j \in Jobs |-> NoJob]
  /\ fired = [j \in Jobs |-> << >>]
  /\ tick = [a \in Apis |-> NoTick]
  /\ reqs = [q \in Requests |-> [phase |-> "new", next |-> NoTime]]
  /\ FaultsInit

DbNow     == time + DbAhead
ApiNow(a) == time + ApiAhead[a]

\* The row of job j is locked by an open transaction.
Locked(j) == \E a \in Apis : tick[a][j] # NoTime

-----------------------------------------------------------------------------
\* FireDueJobs, one transaction.

\* Mutant: FOR UPDATE SKIP LOCKED is missing.
DueEvenLocked ==
  {j \in Jobs : /\ jobs[j].enabled
                /\ jobs[j].next_run_at # NoTime
                /\ jobs[j].next_run_at <= DbNow}

Due ==
  {j \in Jobs : /\ jobs[j].enabled
                /\ jobs[j].next_run_at # NoTime
                /\ jobs[j].next_run_at <= DbNow
                /\ ~Locked(j)}

\* ORDER BY next_run_at LIMIT batch
Selections ==
  {B \in SUBSET Due :
     /\ Cardinality(B) <= Batch /\ (B = Due \/ Cardinality(B) = Batch)
     /\ \A j \in B, k \in Due \ B : jobs[j].next_run_at <= jobs[k].next_run_at}

\* Mutant: ON CONFLICT DO NOTHING and its unique key are missing.
NeverQueued(j, t) == FALSE

\* The occurrence t of job j has its run: job_runs_occurrence_uniq.
Queued(j, t) == \E i \in 1..Len(fired[j]) : fired[j][i].occurrence = t

\* Mutants: the occurrence after the one just fired; a conflict skips the
\* update; the error is ignored and the zero time, long past, is stored.
FollowingFired(a, j) == NextRun(j, tick[a][j])
FollowingUnlessQueued(a, j) ==
  IF Queued(j, tick[a][j]) THEN tick[a][j] ELSE NextRun(j, ApiNow(a))
FollowingOrZero(a, j) ==
  IF NextRun(j, ApiNow(a)) = NoTime THEN -1 ELSE NextRun(j, ApiNow(a))

\* Scheduler.next
FollowingRun(a, j) == NextRun(j, ApiNow(a))

\* The SELECT: it locks the jobs and remembers their next_run_at.
SelectDue(a) ==
  /\ tick[a] = NoTick
  /\ \E B \in Selections \ {{}} :
       tick' = [tick EXCEPT ![a] =
                  [j \in Jobs |-> IF j \in B THEN jobs[j].next_run_at ELSE NoTime]]
  /\ UNCHANGED <<time, jobs, fired, reqs, faults>>

\* The INSERTs and UPDATEs, and COMMIT.
FireDueJobs(a) ==
  /\ tick[a] # NoTick
  /\ fired' = [j \in Jobs |->
                 IF tick[a][j] = NoTime \/ Queued(j, tick[a][j]) THEN fired[j]
                 ELSE Append(fired[j], [occurrence |-> tick[a][j], at |-> DbNow])]
  /\ jobs' = [j \in Jobs |->
                IF tick[a][j] = NoTime THEN jobs[j]
                ELSE [jobs[j] EXCEPT !.next_run_at = FollowingRun(a, j)]]
  /\ tick' = [tick EXCEPT ![a] = NoTick]
  /\ UNCHANGED <<time, reqs, faults>>

\* The transaction fails, or the replica dies: ROLLBACK.
Rollback(a) ==
  /\ tick[a] # NoTick
  /\ Fault("db")
  /\ tick' = [tick EXCEPT ![a] = NoTick]
  /\ UNCHANGED <<time, jobs, fired, reqs>>

-----------------------------------------------------------------------------
\* The requests, each served by some replica.  A handler computes the next
\* occurrence first and writes it in a later step.

Prepare(q, phase, next) ==
  /\ reqs[q].phase = "new"
  /\ reqs' = [reqs EXCEPT ![q] = [phase |-> phase, next |-> next]]
  /\ UNCHANGED <<time, jobs, fired, tick, faults>>

\* handleCreateJob up to CreateJob.  A job is created by one request.
NewJob(q, a) ==
  LET next == NextRun(JobOf(q), ApiNow(a)) IN
  /\ ~jobs[JobOf(q)].created
  /\ \A p \in Requests : JobOf(p) = JobOf(q) => reqs[p].phase # "create"
  /\ next # NoTime
  /\ Prepare(q, "create", next)

\* handleSetEnabled up to SetJobEnabled.
ReadJob(q, a) ==
  LET next == NextRun(JobOf(q), ApiNow(a)) IN
  /\ jobs[JobOf(q)].created
  /\ \/ Prepare(q, "pause", NoTime)
     \/ next # NoTime /\ Prepare(q, "resume", next)

Write(q, enabled) ==
  /\ jobs' = [jobs EXCEPT ![JobOf(q)] =
                [created |-> TRUE, enabled |-> enabled, next_run_at |-> reqs[q].next]]
  /\ reqs' = [reqs EXCEPT ![q].phase = "done"]
  /\ UNCHANGED <<time, fired, tick, faults>>

\* The INSERT of CreateJob.
CreateJob(q) ==
  /\ reqs[q].phase = "create"
  /\ Write(q, TRUE)

\* Mutant: the UPDATE does not wait for the lock.
SetJobEnabledAnyway(q) ==
  /\ reqs[q].phase \in {"pause", "resume"}
  /\ Write(q, reqs[q].phase = "resume")

\* The UPDATE of SetJobEnabled waits for the row's lock.
SetJobEnabled(q) ==
  /\ reqs[q].phase \in {"pause", "resume"}
  /\ ~Locked(JobOf(q))
  /\ Write(q, reqs[q].phase = "resume")

-----------------------------------------------------------------------------

TimePasses ==
  /\ time < MaxTime
  /\ time' = time + 1
  /\ UNCHANGED <<jobs, fired, tick, reqs, faults>>

Next ==
  \/ \E a \in Apis : SelectDue(a) \/ FireDueJobs(a) \/ Rollback(a)
  \/ \E q \in Requests, a \in Apis : NewJob(q, a) \/ ReadJob(q, a)
  \/ \E q \in Requests : CreateJob(q) \/ SetJobEnabled(q)
  \/ TimePasses

Spec == Init /\ [][Next]_vars

\* Every replica's ticker goes on, a transaction ends, and so does the day.
Fairness ==
  /\ \A a \in Apis : WF_vars(SelectDue(a)) /\ WF_vars(FireDueJobs(a))
  /\ WF_vars(TimePasses)

FairSpec == Spec /\ Fairness

-----------------------------------------------------------------------------
\* Invariants.

\* SetJobEnabled: next_run_at "is nil for a paused or manual-only job".  However
\* requests and transactions overlap, a paused job has no next occurrence, so
\* it cannot fire, and an enabled one has lost its own only if its schedule had
\* come to an end at some time a replica asked for it.
ScheduleCoherent ==
  \A j \in Jobs :
    /\ ~jobs[j].enabled => jobs[j].next_run_at = NoTime
    /\ jobs[j].enabled /\ jobs[j].next_run_at = NoTime =>
         \E t \in 0..(time + MaxAhead) : NextRun(j, t) = NoTime

\* FireDueJobs: "Each occurrence is queued exactly once".  No occurrence is
\* queued twice, whatever the clocks say, however transactions of two replicas
\* overlap and whichever next_run_at a slow request wrote.
OccurrenceOnce ==
  \A j \in Jobs : \A i, k \in 1..Len(fired[j]) :
    fired[j][i].occurrence = fired[j][k].occurrence => i = k

\* FireDueJobs: "A scheduler that was down fires each overdue job once [...]
\* rather than replaying every missed occurrence".  When a job has fired, the
\* occurrences that had passed by then are over: the next one that fires is a
\* later one, or one a request asked for.  This needs a replica's clock not to
\* be behind the database's.
NoReplay ==
  \A j \in Jobs : \A i \in 2..Len(fired[j]) :
    \/ fired[j][i].occurrence > fired[j][i-1].at
    \/ \E q \in Requests : /\ JobOf(q) = j /\ reqs[q].phase = "done"
                            /\ reqs[q].next = fired[j][i].occurrence

-----------------------------------------------------------------------------
\* Action properties.

\* The other half of "exactly once": an occurrence that is due is not lost.
\* It stays the job's next_run_at until its run is queued, unless a request
\* for this very job pauses or reschedules it.
OccurrenceHeld(j) ==
  LET t == jobs[j].next_run_at IN
  t # NoTime /\ t <= DbNow /\ jobs'[j] # jobs[j] =>
    \/ \E i \in 1..Len(fired'[j]) : fired'[j][i].occurrence = t
    \/ \E q \in Requests : JobOf(q) = j /\ reqs'[q] # reqs[q]

OccurrenceKept == [][\A j \in Jobs : OccurrenceHeld(j)]_vars

-----------------------------------------------------------------------------
\* Liveness, under FairSpec.

Overdue(j) == jobs[j].next_run_at # NoTime /\ jobs[j].next_run_at <= DbNow

\* A job that is overdue fires and moves on, although replicas fail, hold its
\* row or fill their batches with another job, and although its occurrence may
\* have a run already, when a resume has brought it back.
OverdueFires == \A j \in Jobs : Overdue(j) ~> ~Overdue(j)
=============================================================================
