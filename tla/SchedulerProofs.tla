--------------------------- MODULE SchedulerProofs ---------------------------
(***************************************************************************)
(* Proofs about the scheduler, for any number of jobs, replicas and        *)
(* requests, any schedule, and clocks that disagree by any fixed amount.   *)
(*                                                                         *)
(* The argument rests on LockInv: the rows an open transaction has         *)
(* selected are its own and still as it has read them.  It depends in turn *)
(* on RequestInv, because the INSERT of CreateJob does not wait for locks. *)
(***************************************************************************)
EXTENDS Scheduler, TLAPS

-----------------------------------------------------------------------------
\* Types.

\* Clocks show times for which NextRun keeps its promise.
LEMMA ClockTypes ==
  ASSUME TypeOK
  PROVE  /\ DbNow \in Nat
         /\ \A a \in Apis : ApiNow(a) \in 0..(time + MaxAhead)
         /\ \A a \in Apis, j \in Jobs :
              \/ NextRun(j, ApiNow(a)) = NoTime
              \/ NextRun(j, ApiNow(a)) \in Nat /\ NextRun(j, ApiNow(a)) > ApiNow(a)
<1>1. time \in Nat /\ time <= MaxTime /\ MaxTime \in Nat
  BY SchedulerAssumption DEF TypeOK
<1>2. DbNow \in Nat
  BY <1>1, SchedulerAssumption DEF DbNow
<1>3. \A a \in Apis : ApiNow(a) \in 0..(time + MaxAhead)
  BY <1>1, SchedulerAssumption DEF ApiNow
<1>4. \A a \in Apis : ApiNow(a) \in 0..(MaxTime + MaxAhead)
  BY <1>1, <1>3, SchedulerAssumption
<1> QED BY <1>2, <1>3, <1>4, NextRunAssumption

LEMMA TypeStep == ASSUME TypeOK, [Next]_vars PROVE TypeOK'
<1>0. time \in 0..MaxTime /\ jobs \in [Jobs -> Job] /\ fired \in [Jobs -> Seq(Firing)]
  BY DEF TypeOK
<1>1. ASSUME NEW a \in Apis, SelectDue(a) PROVE TypeOK'
  BY <1>1 DEF SelectDue, TypeOK, Job, Times, FaultsTypeOK
<1>2. ASSUME NEW a \in Apis, FireDueJobs(a) PROVE TypeOK'
  <2>1. tick' \in [Apis -> [Jobs -> Times]]
    BY <1>2 DEF FireDueJobs, TypeOK, NoTick, Times
  <2>2. \A j \in Jobs : FollowingRun(a, j) \in Times
    BY ClockTypes DEF FollowingRun, Times
  <2>3. jobs' \in [Jobs -> Job]
    BY <1>0, <1>2, <2>2 DEF FireDueJobs, Job
  <2>4. \A j \in Jobs : tick[a][j] # NoTime =>
          [occurrence |-> tick[a][j], at |-> DbNow] \in Firing
    BY ClockTypes DEF TypeOK, Times, Firing
  <2>5. \A j \in Jobs : fired'[j] \in Seq(Firing)
    BY <1>0, <1>2, <2>4 DEF FireDueJobs
  <2>6. fired' \in [Jobs -> Seq(Firing)]
    BY <1>2, <2>5 DEF FireDueJobs
  <2> QED BY <1>2, <2>1, <2>3, <2>6 DEF FireDueJobs, TypeOK, FaultsTypeOK
<1>3. ASSUME NEW a \in Apis, Rollback(a) PROVE TypeOK'
  BY <1>3 DEF Rollback, TypeOK, NoTick, Times, Fault, FaultsTypeOK, FaultKinds
<1>4. ASSUME NEW q \in Requests, NEW a \in Apis, NewJob(q, a) \/ ReadJob(q, a)
      PROVE  TypeOK'
  <2>1. JobOf(q) \in Jobs
    BY DEF JobOf, Requests
  <2>2. NextRun(JobOf(q), ApiNow(a)) \in Times /\ NoTime \in Times
    BY <2>1, ClockTypes DEF Times
  <2>3. PICK phase \in {"create", "pause", "resume"}, next \in Times :
          Prepare(q, phase, next)
    BY <1>4, <2>2 DEF NewJob, ReadJob
  <2>4. reqs' \in [Requests -> [phase : {"new", "create", "pause", "resume", "done"},
                               next : Times]]
    BY <2>3 DEF Prepare, TypeOK
  <2> QED BY <2>3, <2>4 DEF Prepare, TypeOK, FaultsTypeOK
<1>5. ASSUME NEW q \in Requests, CreateJob(q) \/ SetJobEnabled(q) PROVE TypeOK'
  <2>1. JobOf(q) \in Jobs /\ reqs[q].next \in Times
    BY DEF JobOf, Requests, TypeOK
  <2>2. (reqs[q].phase = "resume") \in BOOLEAN
    OBVIOUS
  <2>3. PICK enabled \in BOOLEAN : Write(q, enabled)
    BY <1>5, <2>2 DEF CreateJob, SetJobEnabled
  <2>4. jobs' \in [Jobs -> Job]
    BY <1>0, <2>1, <2>3 DEF Write, Job
  <2>5. reqs' \in [Requests -> [phase : {"new", "create", "pause", "resume", "done"},
                               next : Times]]
    BY <2>3 DEF Write, TypeOK
  <2> QED BY <2>3, <2>4, <2>5 DEF Write, TypeOK, FaultsTypeOK
<1>6. CASE TimePasses
  BY <1>6, SchedulerAssumption DEF TimePasses, TypeOK, FaultsTypeOK
<1>7. CASE UNCHANGED vars
  BY <1>7 DEF vars, TypeOK, FaultsTypeOK
<1> QED BY <1>1, <1>2, <1>3, <1>4, <1>5, <1>6, <1>7 DEF Next

\* Every variable of the scheduler, the requests and the jobs table keeps its
\* type; in particular an error of NextRun never ends up in next_run_at.
THEOREM SchedulerTypeCorrect == Spec => []TypeOK
<1>1. Init => TypeOK
  BY SchedulerAssumption
     DEF Init, TypeOK, NoJob, Job, Times, NoTick, FaultsInit, FaultsTypeOK
<1> QED BY <1>1, TypeStep, PTL DEF Spec

-----------------------------------------------------------------------------
\* Locks.

\* A request that will create a job is alone, the job not being there yet; one
\* that will enable a job has an occurrence for it, one that will pause it none.
RequestInv ==
  /\ \A q \in Requests :
       /\ reqs[q].phase = "create" => /\ ~jobs[JobOf(q)].created
                                      /\ reqs[q].next # NoTime
       /\ reqs[q].phase = "resume" => /\ jobs[JobOf(q)].created
                                      /\ reqs[q].next # NoTime
       /\ reqs[q].phase = "pause" => /\ jobs[JobOf(q)].created
                                     /\ reqs[q].next = NoTime
  /\ \A p, q \in Requests :
       /\ JobOf(p) = JobOf(q)
       /\ reqs[p].phase = "create" /\ reqs[q].phase = "create"
       => p = q
  /\ \A j \in Jobs : jobs[j].enabled => jobs[j].created

\* The jobs a transaction has selected are locked by no other, and their rows
\* are as it has read them.
LockInv ==
  \A a \in Apis, j \in Jobs :
    tick[a][j] # NoTime =>
      /\ jobs[j].enabled /\ jobs[j].next_run_at = tick[a][j]
      /\ \A b \in Apis : b # a => tick[b][j] = NoTime

SafetyInv == TypeOK /\ RequestInv /\ LockInv /\ ScheduleCoherent

LEMMA RequestStep == ASSUME TypeOK, RequestInv, [Next]_vars PROVE RequestInv'
<1>0. /\ reqs \in [Requests -> [phase : {"new", "create", "pause", "resume", "done"},
                                next : Times]]
      /\ jobs \in [Jobs -> Job]
      /\ \A q \in Requests : JobOf(q) \in Jobs
  BY DEF TypeOK, JobOf, Requests
<1>1. CASE UNCHANGED reqs /\ UNCHANGED jobs
  BY <1>1 DEF RequestInv
<1>2. ASSUME NEW a \in Apis, FireDueJobs(a) PROVE RequestInv'
  <2>1. \A j \in Jobs : /\ jobs'[j].created = jobs[j].created
                        /\ jobs'[j].enabled = jobs[j].enabled
    BY <1>0, <1>2 DEF FireDueJobs, Job
  <2> QED BY <1>0, <1>2, <2>1 DEF FireDueJobs, RequestInv
<1>3. ASSUME NEW q \in Requests, NEW a \in Apis, NewJob(q, a) PROVE RequestInv'
  BY <1>0, <1>3 DEF NewJob, Prepare, RequestInv
<1>4. ASSUME NEW q \in Requests, NEW a \in Apis, ReadJob(q, a) PROVE RequestInv'
  BY <1>0, <1>4 DEF ReadJob, Prepare, RequestInv
<1>5. ASSUME NEW q \in Requests, CreateJob(q) \/ SetJobEnabled(q) PROVE RequestInv'
  <2>1. PICK enabled : Write(q, enabled)
    BY <1>5 DEF CreateJob, SetJobEnabled
  <2>2. \A p \in Requests : p # q => reqs'[p] = reqs[p]
    BY <1>0, <2>1 DEF Write
  <2>3. reqs'[q].phase = "done"
    BY <1>0, <2>1 DEF Write
  <2>4. \A p \in Requests : p # q /\ JobOf(p) = JobOf(q) => reqs[p].phase # "create"
    <3>1. CASE CreateJob(q)
      BY <3>1 DEF CreateJob, RequestInv
    <3>2. CASE SetJobEnabled(q)
      BY <3>2 DEF SetJobEnabled, RequestInv
    <3> QED BY <1>5, <3>1, <3>2
  <2>5. \A j \in Jobs : j # JobOf(q) => jobs'[j] = jobs[j]
    BY <1>0, <2>1 DEF Write
  <2>6. jobs'[JobOf(q)].created
    BY <1>0, <2>1 DEF Write
  <2> QED BY <1>0, <2>2, <2>3, <2>4, <2>5, <2>6 DEF RequestInv
<1> QED BY <1>1, <1>2, <1>3, <1>4, <1>5
        DEF Next, vars, SelectDue, Rollback, TimePasses

LEMMA LockStep == ASSUME TypeOK, RequestInv, LockInv, [Next]_vars PROVE LockInv'
<1>0. /\ tick \in [Apis -> [Jobs -> Times]]
      /\ jobs \in [Jobs -> Job]
      /\ \A q \in Requests : JobOf(q) \in Jobs
  BY DEF TypeOK, JobOf, Requests
<1>1. CASE UNCHANGED tick /\ UNCHANGED jobs
  BY <1>1 DEF LockInv
<1>2. ASSUME NEW a \in Apis, SelectDue(a) PROVE LockInv'
  <2>1. PICK B \in Selections :
          tick' = [tick EXCEPT ![a] =
                     [j \in Jobs |-> IF j \in B THEN jobs[j].next_run_at ELSE NoTime]]
    BY <1>2 DEF SelectDue
  <2>2. B \subseteq Due
    BY DEF Selections
  <2>3. \A j \in B, b \in Apis : jobs[j].enabled /\ tick[b][j] = NoTime
    BY <2>2 DEF Due, Locked
  <2>4. \A j \in Jobs : tick[a][j] = NoTime
    BY <1>2 DEF SelectDue, NoTick
  <2>5. /\ \A j \in Jobs : tick'[a][j] = IF j \in B THEN jobs[j].next_run_at ELSE NoTime
        /\ \A b \in Apis : b # a => tick'[b] = tick[b]
    BY <1>0, <2>1
  <2>6. UNCHANGED jobs
    BY <1>2 DEF SelectDue
  <2> QED BY <2>3, <2>4, <2>5, <2>6 DEF LockInv
<1>3. ASSUME NEW a \in Apis, FireDueJobs(a) PROVE LockInv'
  <2>1. /\ \A j \in Jobs : tick'[a][j] = NoTime
        /\ \A b \in Apis : b # a => tick'[b] = tick[b]
    BY <1>0, <1>3 DEF FireDueJobs, NoTick
  <2>2. \A j \in Jobs : tick[a][j] = NoTime => jobs'[j] = jobs[j]
    BY <1>0, <1>3 DEF FireDueJobs
  <2> QED BY <2>1, <2>2 DEF LockInv
<1>4. ASSUME NEW a \in Apis, Rollback(a) PROVE LockInv'
  BY <1>0, <1>4 DEF Rollback, NoTick, LockInv
<1>5. ASSUME NEW q \in Requests, CreateJob(q) \/ SetJobEnabled(q) PROVE LockInv'
  <2>1. \A a \in Apis : tick[a][JobOf(q)] = NoTime
    <3>1. CASE CreateJob(q)
      BY <1>0, <3>1 DEF CreateJob, RequestInv, LockInv
    <3>2. CASE SetJobEnabled(q)
      BY <3>2 DEF SetJobEnabled, Locked
    <3> QED BY <1>5, <3>1, <3>2
  <2>2. /\ UNCHANGED tick
        /\ \A j \in Jobs : j # JobOf(q) => jobs'[j] = jobs[j]
    BY <1>0, <1>5 DEF CreateJob, SetJobEnabled, Write
  <2> QED BY <2>1, <2>2 DEF LockInv
<1> QED BY <1>1, <1>2, <1>3, <1>4, <1>5
        DEF Next, vars, NewJob, ReadJob, Prepare, TimePasses

LEMMA LaterBound ==
  ASSUME NEW m \in Nat, NEW n \in Nat, NEW k \in Nat, m <= n
  PROVE  \A t \in 0..(m + k) : t \in 0..(n + k)
<1>1. ASSUME NEW t \in Int, 0 <= t, t <= m + k PROVE 0 <= t /\ t <= n + k
  BY <1>1
<1> QED BY <1>1

LEMMA CoherentStep ==
  ASSUME SafetyInv, [Next]_vars PROVE ScheduleCoherent'
<1>0. /\ TypeOK /\ RequestInv /\ LockInv /\ ScheduleCoherent
      /\ jobs \in [Jobs -> Job] /\ time \in Nat
      /\ \A q \in Requests : JobOf(q) \in Jobs
  BY SchedulerAssumption DEF SafetyInv, TypeOK, JobOf, Requests
<1>1. CASE UNCHANGED jobs /\ time' \in {time, time + 1}
  <2>1. MaxAhead \in Nat
    BY SchedulerAssumption
  <2>2. time' \in Nat /\ time <= time'
    BY <1>0, <1>1
  <2>3. \A t \in 0..(time + MaxAhead) : t \in 0..(time' + MaxAhead)
    BY <1>0, <2>1, <2>2, LaterBound
  <2> QED BY <1>0, <1>1, <2>3 DEF ScheduleCoherent
<1>2. ASSUME NEW a \in Apis, FireDueJobs(a) PROVE ScheduleCoherent'
  <2>1. \A j \in Jobs : tick[a][j] = NoTime => jobs'[j] = jobs[j]
    BY <1>0, <1>2 DEF FireDueJobs
  <2>2. \A j \in Jobs : tick[a][j] # NoTime =>
          jobs'[j].enabled /\ jobs'[j].next_run_at = NextRun(j, ApiNow(a))
    BY <1>0, <1>2 DEF FireDueJobs, FollowingRun, LockInv, Job
  <2>3. UNCHANGED time /\ ApiNow(a) \in 0..(time + MaxAhead)
    BY <1>0, <1>2, ClockTypes DEF FireDueJobs
  <2> QED BY <1>0, <2>1, <2>2, <2>3 DEF ScheduleCoherent
<1>3. ASSUME NEW q \in Requests, CreateJob(q) \/ SetJobEnabled(q)
      PROVE  ScheduleCoherent'
  <2>1. /\ UNCHANGED time
        /\ \A j \in Jobs : j # JobOf(q) => jobs'[j] = jobs[j]
    BY <1>0, <1>3 DEF CreateJob, SetJobEnabled, Write
  <2>2. jobs'[JobOf(q)].enabled <=> jobs'[JobOf(q)].next_run_at # NoTime
    <3>1. CASE CreateJob(q)
      BY <1>0, <3>1 DEF CreateJob, Write, RequestInv
    <3>2. CASE SetJobEnabled(q)
      BY <1>0, <3>2 DEF SetJobEnabled, Write, RequestInv
    <3> QED BY <1>3, <3>1, <3>2
  <2> QED BY <1>0, <2>1, <2>2 DEF ScheduleCoherent
<1>4. CASE TimePasses
  BY <1>1, <1>4 DEF TimePasses
<1> QED BY <1>1, <1>2, <1>3, <1>4
        DEF Next, vars, SelectDue, Rollback, NewJob, ReadJob, Prepare

LEMMA SafetyInvariant == Spec => []SafetyInv
<1>1. Init => SafetyInv
  <2> SUFFICES ASSUME Init PROVE SafetyInv
    OBVIOUS
  <2>1. TypeOK
    BY SchedulerAssumption
       DEF Init, TypeOK, NoJob, Job, Times, NoTick, FaultsInit, FaultsTypeOK
  <2>2. RequestInv /\ LockInv /\ ScheduleCoherent
    BY DEF Init, RequestInv, LockInv, ScheduleCoherent, NoJob, NoTick
  <2> QED BY <2>1, <2>2 DEF SafetyInv
<1>2. SafetyInv /\ [Next]_vars => SafetyInv'
  BY TypeStep, RequestStep, LockStep, CoherentStep DEF SafetyInv
<1> QED BY <1>1, <1>2, PTL DEF Spec

\* A paused job has no next occurrence, and an enabled one has none only when
\* its schedule has come to an end, however requests and transactions overlap.
THEOREM SchedulesAreCoherent == Spec => []ScheduleCoherent
BY SafetyInvariant, PTL DEF SafetyInv

-----------------------------------------------------------------------------
\* Occurrences.

\* The runs of a job only grow, by an occurrence that was not there.
LEMMA FiredStep ==
  ASSUME TypeOK, [Next]_vars, NEW j \in Jobs
  PROVE  \/ fired'[j] = fired[j]
         \/ \E a \in Apis :
              /\ FireDueJobs(a) /\ tick[a][j] # NoTime /\ ~Queued(j, tick[a][j])
              /\ fired'[j] = Append(fired[j], [occurrence |-> tick[a][j], at |-> DbNow])
<1>1. ASSUME NEW a \in Apis, FireDueJobs(a)
      PROVE  \/ fired'[j] = fired[j]
             \/ /\ tick[a][j] # NoTime /\ ~Queued(j, tick[a][j])
                /\ fired'[j] = Append(fired[j], [occurrence |-> tick[a][j], at |-> DbNow])
  BY <1>1 DEF FireDueJobs
<1>2. (\E a \in Apis : FireDueJobs(a)) \/ UNCHANGED fired
  BY DEF Next, vars, SelectDue, Rollback, NewJob, ReadJob, Prepare, CreateJob,
     SetJobEnabled, Write, TimePasses
<1> QED BY <1>1, <1>2

LEMMA Appended ==
  ASSUME NEW S, NEW s \in Seq(S), NEW e \in S
  PROVE  /\ Append(s, e) \in Seq(S)
         /\ Len(s) \in Nat /\ Len(Append(s, e)) = Len(s) + 1
         /\ \A i \in 1..Len(s) : Append(s, e)[i] = s[i]
         /\ Append(s, e)[Len(s) + 1] = e
  OBVIOUS

LEMMA OnceStep ==
  ASSUME TypeOK, OccurrenceOnce, [Next]_vars PROVE OccurrenceOnce'
<1> SUFFICES ASSUME NEW j \in Jobs
             PROVE  \A i, k \in 1..Len(fired'[j]) :
                      fired'[j][i].occurrence = fired'[j][k].occurrence => i = k
  BY DEF OccurrenceOnce
<1>1. \A i, k \in 1..Len(fired[j]) :
        fired[j][i].occurrence = fired[j][k].occurrence => i = k
  BY DEF OccurrenceOnce
<1>2. CASE fired'[j] = fired[j]
  BY <1>1, <1>2
<1>3. ASSUME NEW a \in Apis, tick[a][j] # NoTime, ~Queued(j, tick[a][j]),
             fired'[j] = Append(fired[j], [occurrence |-> tick[a][j], at |-> DbNow])
      PROVE  \A i, k \in 1..Len(fired'[j]) :
               fired'[j][i].occurrence = fired'[j][k].occurrence => i = k
  <2> DEFINE new == [occurrence |-> tick[a][j], at |-> DbNow]
  <2>1. fired[j] \in Seq(Firing) /\ new \in Firing
    BY <1>3, ClockTypes DEF TypeOK, Times, Firing
  <2>2. \A i \in 1..Len(fired[j]) : fired[j][i].occurrence # new.occurrence
    BY <1>3 DEF Queued
  <2>3. /\ Len(fired[j]) \in Nat /\ Len(fired'[j]) = Len(fired[j]) + 1
        /\ \A i \in 1..Len(fired[j]) : fired'[j][i] = fired[j][i]
        /\ fired'[j][Len(fired[j]) + 1] = new
    BY <1>3, <2>1, Appended
  <2>4. \A i \in 1..Len(fired'[j]) : i \in 1..Len(fired[j]) \/ i = Len(fired[j]) + 1
    BY <2>3
  <2> HIDE DEF new
  <2> QED BY <1>1, <2>2, <2>3, <2>4
<1> QED BY <1>2, <1>3, FiredStep

\* No occurrence of a job is queued twice, for any clocks, any number of
\* replicas and any overlap of their transactions with the requests.
THEOREM OccurrencesAreQueuedOnce == Spec => []OccurrenceOnce
<1>1. Init => OccurrenceOnce
  BY DEF Init, OccurrenceOnce
<1>2. TypeOK /\ OccurrenceOnce /\ [Next]_vars => OccurrenceOnce'
  BY OnceStep
<1> QED BY <1>1, <1>2, SchedulerTypeCorrect, PTL DEF Spec

LEMMA HeldStep ==
  ASSUME SafetyInv, [Next]_vars, NEW j \in Jobs PROVE OccurrenceHeld(j)
<1>0. /\ TypeOK /\ LockInv /\ jobs \in [Jobs -> Job]
      /\ \A q \in Requests : JobOf(q) \in Jobs
  BY DEF SafetyInv, TypeOK, JobOf, Requests
<1>1. CASE jobs'[j] = jobs[j]
  BY <1>1 DEF OccurrenceHeld
<1>2. ASSUME NEW a \in Apis, FireDueJobs(a), jobs'[j] # jobs[j]
      PROVE  \E i \in 1..Len(fired'[j]) :
               fired'[j][i].occurrence = jobs[j].next_run_at
  <2>1. tick[a][j] # NoTime /\ jobs[j].next_run_at = tick[a][j]
    BY <1>0, <1>2 DEF FireDueJobs, LockInv
  <2>2. CASE Queued(j, tick[a][j])
    <3>1. fired'[j] = fired[j]
      BY <1>2, <2>2 DEF FireDueJobs
    <3> QED BY <2>1, <2>2, <3>1 DEF Queued
  <2>3. CASE ~Queued(j, tick[a][j])
    <3> DEFINE new == [occurrence |-> tick[a][j], at |-> DbNow]
    <3>1. fired'[j] = Append(fired[j], new)
      BY <1>2, <2>1, <2>3 DEF FireDueJobs
    <3>2. fired[j] \in Seq(Firing) /\ new \in Firing
      BY <1>0, <2>1, ClockTypes DEF TypeOK, Times, Firing
    <3>3. /\ Len(fired[j]) \in Nat /\ Len(fired'[j]) = Len(fired[j]) + 1
          /\ fired'[j][Len(fired[j]) + 1] = new
      BY <3>1, <3>2, Appended
    <3> QED BY <2>1, <3>3
  <2> QED BY <2>2, <2>3
<1>3. ASSUME NEW q \in Requests, CreateJob(q) \/ SetJobEnabled(q), jobs'[j] # jobs[j]
      PROVE  JobOf(q) = j /\ reqs'[q] # reqs[q]
  <2>1. JobOf(q) = j
    BY <1>0, <1>3 DEF CreateJob, SetJobEnabled, Write
  <2>2. reqs'[q].phase = "done" /\ reqs[q].phase # "done"
    BY <1>0, <1>3 DEF CreateJob, SetJobEnabled, Write, TypeOK
  <2> QED BY <2>1, <2>2
<1>4. \/ \E a \in Apis : FireDueJobs(a)
      \/ \E q \in Requests : CreateJob(q) \/ SetJobEnabled(q)
      \/ UNCHANGED jobs
  BY DEF Next, vars, SelectDue, Rollback, NewJob, ReadJob, Prepare, TimePasses
<1> QED BY <1>1, <1>2, <1>3, <1>4 DEF OccurrenceHeld

\* An occurrence that is due stays the job's next_run_at until its run is
\* queued, unless a request for this very job pauses or reschedules it.
THEOREM OccurrencesAreKept == Spec => OccurrenceKept
<1>1. SafetyInv /\ [Next]_vars => [\A j \in Jobs : OccurrenceHeld(j)]_vars
  BY HeldStep
<1> QED BY <1>1, SafetyInvariant, PTL DEF Spec, OccurrenceKept

-----------------------------------------------------------------------------
\* No replay.

\* A request that is done has asked for occurrence t of job j.
Asked(j, t) ==
  \E q \in Requests : JobOf(q) = j /\ reqs[q].phase = "done" /\ reqs[q].next = t

\* What makes NoReplay inductive: a job fired at the database's time or before,
\* and the occurrence it waits for is later than the last time it fired, or a
\* request has asked for it.
PendingInv ==
  \A j \in Jobs :
    /\ \A i \in 1..Len(fired[j]) : fired[j][i].at <= DbNow
    /\ Len(fired[j]) > 0 /\ jobs[j].next_run_at # NoTime =>
         \/ jobs[j].next_run_at > fired[j][Len(fired[j])].at
         \/ Asked(j, jobs[j].next_run_at)

LEMMA AskedStep ==
  ASSUME TypeOK, [Next]_vars, NEW j, NEW t, Asked(j, t) PROVE Asked(j, t)'
<1>1. PICK q \in Requests : JobOf(q) = j /\ reqs[q].phase = "done" /\ reqs[q].next = t
  BY DEF Asked
<1>2. reqs'[q] = reqs[q]
  <2>1. reqs \in [Requests -> [phase : {"new", "create", "pause", "resume", "done"},
                              next : Times]]
    BY DEF TypeOK
  <2>2. ASSUME NEW p \in Requests, NEW a \in Apis, NewJob(p, a) \/ ReadJob(p, a)
        PROVE  reqs'[q] = reqs[q]
    BY <1>1, <2>1, <2>2 DEF NewJob, ReadJob, Prepare
  <2>3. ASSUME NEW p \in Requests, CreateJob(p) \/ SetJobEnabled(p)
        PROVE  reqs'[q] = reqs[q]
    BY <1>1, <2>1, <2>3 DEF CreateJob, SetJobEnabled, Write
  <2> QED BY <2>2, <2>3
          DEF Next, vars, SelectDue, FireDueJobs, Rollback, TimePasses
<1> QED BY <1>1, <1>2 DEF Asked

LEMMA LaterSum ==
  ASSUME NEW m \in Nat, NEW n \in Nat, NEW k \in Nat, m <= n
  PROVE  m + k \in Nat /\ n + k \in Nat /\ m + k <= n + k
  OBVIOUS

LEMMA PendingStep ==
  ASSUME \A a \in Apis : ApiAhead[a] >= DbAhead,
         SafetyInv, PendingInv, [Next]_vars
  PROVE  PendingInv'
<1>0. /\ TypeOK /\ LockInv /\ jobs \in [Jobs -> Job] /\ fired \in [Jobs -> Seq(Firing)]
      /\ \A q \in Requests : JobOf(q) \in Jobs
  BY DEF SafetyInv, TypeOK, JobOf, Requests
<1>1. DbNow \in Nat /\ DbNow' \in Nat /\ DbNow <= DbNow'
  <2>1. time \in Nat /\ time' \in {time, time + 1} /\ DbAhead \in Nat
    BY <1>0, SchedulerAssumption
       DEF TypeOK, Next, vars, SelectDue, FireDueJobs, Rollback, NewJob, ReadJob, Prepare,
           CreateJob, SetJobEnabled, Write, TimePasses
  <2>2. time' \in Nat /\ time <= time'
    BY <2>1
  <2>3. DbNow = time + DbAhead /\ DbNow' = time' + DbAhead
    BY DEF DbNow
  <2> QED BY <2>1, <2>2, <2>3, LaterSum
<1>2. \A j \in Jobs : \A i \in 1..Len(fired[j]) : fired[j][i].at \in Nat
  <2>1. \A j \in Jobs : \A i \in 1..Len(fired[j]) : fired[j][i] \in Firing
    <3>1. ASSUME NEW s \in Seq(Firing), NEW i \in 1..Len(s) PROVE s[i] \in Firing
      OBVIOUS
    <3> QED BY <1>0, <3>1
  <2> QED BY <2>1 DEF Firing
<1>3. ASSUME NEW j \in Jobs, fired'[j] = fired[j]
      PROVE  \A i \in 1..Len(fired'[j]) : fired'[j][i].at <= DbNow'
  <2>1. \A i \in 1..Len(fired[j]) : fired[j][i].at <= DbNow
    BY DEF PendingInv
  <2> QED BY <1>1, <1>2, <1>3, <2>1
<1>4. CASE UNCHANGED fired /\ UNCHANGED jobs
  BY <1>0, <1>3, <1>4, AskedStep DEF PendingInv
<1>5. ASSUME NEW q \in Requests, CreateJob(q) \/ SetJobEnabled(q) PROVE PendingInv'
  <2>1. /\ UNCHANGED fired
        /\ \A j \in Jobs : j # JobOf(q) => jobs'[j] = jobs[j]
    BY <1>0, <1>5 DEF CreateJob, SetJobEnabled, Write
  <2>2. /\ jobs'[JobOf(q)].next_run_at = reqs[q].next
        /\ reqs'[q].phase = "done" /\ reqs'[q].next = reqs[q].next
    BY <1>0, <1>5 DEF CreateJob, SetJobEnabled, Write, TypeOK
  <2>3. Asked(JobOf(q), jobs[JobOf(q)].next_run_at)'
    BY <2>2 DEF Asked
  <2> QED BY <1>0, <1>3, <2>1, <2>3, AskedStep DEF PendingInv
<1>6. ASSUME NEW a \in Apis, FireDueJobs(a) PROVE PendingInv'
  <2> SUFFICES ASSUME NEW j \in Jobs
               PROVE  /\ \A i \in 1..Len(fired'[j]) : fired'[j][i].at <= DbNow'
                      /\ Len(fired'[j]) > 0 /\ jobs'[j].next_run_at # NoTime =>
                           \/ jobs'[j].next_run_at > fired'[j][Len(fired'[j])].at
                           \/ Asked(j, jobs[j].next_run_at)'
    BY DEF PendingInv
  <2>1. UNCHANGED DbNow /\ UNCHANGED reqs
    BY <1>6 DEF FireDueJobs, DbNow
  <2>2. CASE tick[a][j] = NoTime
    <3>1. fired'[j] = fired[j] /\ jobs'[j] = jobs[j]
      BY <1>0, <1>6, <2>2 DEF FireDueJobs
    <3> QED BY <1>0, <1>3, <3>1, AskedStep DEF PendingInv
  <2>3. CASE tick[a][j] # NoTime
    <3>1. \A i \in 1..Len(fired'[j]) : fired'[j][i].at <= DbNow /\ fired'[j][i].at \in Nat
      <4>1. CASE fired'[j] = fired[j]
        BY <1>2, <1>3, <2>1, <4>1
      <4>2. CASE fired'[j] = Append(fired[j], [occurrence |-> tick[a][j], at |-> DbNow])
        <5> DEFINE new == [occurrence |-> tick[a][j], at |-> DbNow]
        <5>1. fired[j] \in Seq(Firing) /\ new \in Firing
          BY <1>0, <1>1, <2>3 DEF TypeOK, Times, Firing
        <5>2. /\ Len(fired[j]) \in Nat /\ Len(fired'[j]) = Len(fired[j]) + 1
              /\ \A i \in 1..Len(fired[j]) : fired'[j][i] = fired[j][i]
              /\ fired'[j][Len(fired[j]) + 1] = new
          BY <4>2, <5>1, Appended
        <5>3. \A i \in 1..Len(fired'[j]) :
                i \in 1..Len(fired[j]) \/ i = Len(fired[j]) + 1
          BY <5>2
        <5>4. ASSUME NEW i \in 1..Len(fired[j])
              PROVE  fired'[j][i].at <= DbNow /\ fired'[j][i].at \in Nat
          <6>1. fired[j][i].at <= DbNow
            BY DEF PendingInv
          <6>2. fired'[j][i] = fired[j][i]
            BY <5>2
          <6> QED BY <1>2, <6>1, <6>2
        <5>5. fired'[j][Len(fired[j]) + 1].at <= DbNow /\ fired'[j][Len(fired[j]) + 1].at \in Nat
          <6>1. new.at = DbNow
            OBVIOUS
          <6>2. new.at <= DbNow /\ new.at \in Nat
            BY <1>1, <6>1
          <6> QED BY <5>2, <6>2
        <5> HIDE DEF new
        <5> QED BY <5>3, <5>4, <5>5
      <4> QED BY <1>6, <4>1, <4>2 DEF FireDueJobs
    <3>2. jobs'[j].next_run_at = NextRun(j, ApiNow(a))
      BY <1>0, <1>6, <2>3 DEF FireDueJobs, FollowingRun, Job
    <3>3. ApiNow(a) \in Nat /\ DbNow <= ApiNow(a)
      BY <1>0, SchedulerAssumption DEF TypeOK, ApiNow, DbNow
    <3>4. jobs'[j].next_run_at # NoTime =>
            jobs'[j].next_run_at \in Nat /\ jobs'[j].next_run_at > DbNow
      <4>1. \/ NextRun(j, ApiNow(a)) = NoTime
            \/ NextRun(j, ApiNow(a)) \in Nat /\ NextRun(j, ApiNow(a)) > ApiNow(a)
        BY <1>0, ClockTypes
      <4> QED BY <1>1, <3>2, <3>3, <4>1
    <3>5. Len(fired'[j]) \in Nat
      <4>1. fired'[j] \in Seq(Firing)
        BY <1>0, TypeStep DEF TypeOK
      <4> QED BY <4>1
    <3>6. Len(fired'[j]) > 0 => Len(fired'[j]) \in 1..Len(fired'[j])
      BY <3>5
    <3> QED BY <1>1, <2>1, <3>1, <3>4, <3>6
  <2> QED BY <2>2, <2>3
<1>7. \/ \E a \in Apis : FireDueJobs(a)
      \/ \E q \in Requests : CreateJob(q) \/ SetJobEnabled(q)
      \/ UNCHANGED fired /\ UNCHANGED jobs
  BY DEF Next, vars, SelectDue, Rollback, NewJob, ReadJob, Prepare, TimePasses
<1> QED BY <1>4, <1>5, <1>6, <1>7

LEMMA ReplayStep ==
  ASSUME SafetyInv, PendingInv, NoReplay, [Next]_vars PROVE NoReplay'
<1>0. TypeOK /\ LockInv /\ fired \in [Jobs -> Seq(Firing)]
  BY DEF SafetyInv, TypeOK
<1> SUFFICES ASSUME NEW j \in Jobs, NEW i \in 2..Len(fired'[j])
             PROVE  \/ fired'[j][i].occurrence > fired'[j][i-1].at
                    \/ Asked(j, fired[j][i].occurrence)'
  BY DEF NoReplay, Asked
<1>1. \A k \in 2..Len(fired[j]) : \/ fired[j][k].occurrence > fired[j][k-1].at
                                  \/ Asked(j, fired[j][k].occurrence)
  BY DEF NoReplay, Asked
<1>2. CASE fired'[j] = fired[j]
  BY <1>0, <1>1, <1>2, AskedStep
<1>3. ASSUME NEW a \in Apis, tick[a][j] # NoTime,
             fired'[j] = Append(fired[j], [occurrence |-> tick[a][j], at |-> DbNow])
      PROVE  \/ fired'[j][i].occurrence > fired'[j][i-1].at
             \/ Asked(j, fired[j][i].occurrence)'
  <2> DEFINE new == [occurrence |-> tick[a][j], at |-> DbNow]
  <2>1. fired[j] \in Seq(Firing) /\ new \in Firing
    BY <1>0, <1>3, ClockTypes DEF TypeOK, Times, Firing
  <2>2. /\ Len(fired[j]) \in Nat /\ Len(fired'[j]) = Len(fired[j]) + 1
        /\ \A k \in 1..Len(fired[j]) : fired'[j][k] = fired[j][k]
        /\ fired'[j][Len(fired[j]) + 1] = new
    BY <1>3, <2>1, Appended
  <2>3. CASE i \in 2..Len(fired[j])
    <3>1. i \in 1..Len(fired[j]) /\ i - 1 \in 1..Len(fired[j])
      BY <2>2, <2>3
    <3>2. fired'[j][i] = fired[j][i] /\ fired'[j][i-1] = fired[j][i-1]
      BY <2>2, <3>1
    <3> QED BY <1>0, <1>1, <2>3, <3>2, AskedStep
  <2>4. CASE i = Len(fired[j]) + 1
    <3>1. Len(fired[j]) > 0 /\ i - 1 = Len(fired[j]) /\ Len(fired[j]) \in 1..Len(fired[j])
      BY <2>2, <2>4
    <3>2. fired'[j][i].occurrence = tick[a][j] /\ fired'[j][i-1] = fired[j][Len(fired[j])]
      BY <2>2, <2>4, <3>1
    <3>3. jobs[j].next_run_at = tick[a][j]
      BY <1>0, <1>3 DEF LockInv
    <3>4. \/ tick[a][j] > fired[j][Len(fired[j])].at
          \/ Asked(j, tick[a][j])
      BY <1>3, <3>1, <3>3 DEF PendingInv
    <3> QED BY <1>0, <3>2, <3>4, AskedStep
  <2>5. i \in 2..Len(fired[j]) \/ i = Len(fired[j]) + 1
    BY <2>2
  <2> QED BY <2>3, <2>4, <2>5
<1> QED BY <1>0, <1>2, <1>3, FiredStep

\* When no replica's clock is behind the database's, a job that was overdue
\* fires once and the occurrences it has missed are not replayed.
THEOREM MissedOccurrencesAreNotReplayed ==
  ASSUME \A a \in Apis : ApiAhead[a] >= DbAhead
  PROVE  Spec => []NoReplay
<1>1. Init => PendingInv /\ NoReplay
  BY DEF Init, PendingInv, NoReplay
<1>2. SafetyInv /\ PendingInv /\ NoReplay /\ [Next]_vars => PendingInv' /\ NoReplay'
  BY PendingStep, ReplayStep
<1> QED BY <1>1, <1>2, SafetyInvariant, PTL DEF Spec
=============================================================================
