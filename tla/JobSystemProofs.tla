--------------------------- MODULE JobSystemProofs --------------------------
(***************************************************************************)
(* Theorems about JobSystem, for every set of workers, slots and runs and  *)
(* every fault budget.                                                     *)
(*                                                                         *)
(* Each of the system's actions changes the table row by row and the slots *)
(* one by one.  The lemmas RowSteps, SlotSteps and ProcSteps say in which  *)
(* ways, once for all actions; the invariants are then proved from these   *)
(* ways alone.                                                             *)
(***************************************************************************)
EXTENDS JobSystem, TLAPS

-----------------------------------------------------------------------------
\* Type correctness.

\* The ways a row is requeued, as attempt n.
LEMMA RequeueTypes ==
  ASSUME NEW q \in Row, NEW n \in Nat
  PROVE  /\ [q EXCEPT !.status = "QUEUED", !.attempt = n,
                      !.finished_at = "null", !.next_attempt_at = "future",
                      !.queued_at = "fresh", !.worker_id = NoWorker,
                      !.last_heartbeat_at = "null"] \in Row
         /\ [q EXCEPT !.status = "QUEUED", !.attempt = n,
                      !.worker_id = NoWorker, !.last_heartbeat_at = "null",
                      !.queued_at = "fresh"] \in Row
         /\ [q EXCEPT !.status = "QUEUED", !.attempt = n,
                      !.finished_at = "null", !.queued_at = "fresh",
                      !.worker_id = NoWorker, !.last_heartbeat_at = "null"] \in Row
  BY DEF Row, Final

\* What every statement writes is a row.
LEMMA RowTypes ==
  ASSUME StoreTypeOK, NEW r \in Runs, NEW w \in Workers, NEW a \in Nat
  PROVE  /\ NewRow \in Row
         /\ AbsentRow \in Row
         /\ ClaimedRow(r, w) \in Row
         /\ FinishedRow(r, a) \in Row
         /\ FailedOrRetriedRow(r) \in Row
         /\ ReleasedRow(r) \in Row
         /\ ReapedRow(r) \in Row
<1>1. NewRow \in Row /\ AbsentRow \in Row
  BY DEF NewRow, AbsentRow, Row, Final
<1>2. runs[r] \in Row /\ runs[r].attempt + 1 \in Nat
  BY DEF StoreTypeOK, Row
<1>3. ClaimedRow(r, w) \in Row /\ FinishedRow(r, a) \in Row
  BY <1>2 DEF ClaimedRow, FinishedRow, Row, Final
<1>4. CASE Exhausted(r)
  <2>1. FailedOrRetriedRow(r) \in Row /\ ReapedRow(r) \in Row
    BY <1>2, <1>4 DEF FailedOrRetriedRow, ReapedRow, Row, Final
  <2>2. ReleasedRow(r) \in Row
    BY <1>2, RequeueTypes DEF ReleasedRow
  <2> QED BY <1>1, <1>3, <2>1, <2>2
<1>5. CASE ~Exhausted(r)
  <2>1. /\ FailedOrRetriedRow(r) \in Row
        /\ ReleasedRow(r) \in Row
        /\ ReapedRow(r) \in Row
    BY <1>2, <1>5, RequeueTypes DEF FailedOrRetriedRow, ReleasedRow, ReapedRow
  <2> QED BY <1>1, <1>3, <2>1
<1> QED BY <1>4, <1>5

-----------------------------------------------------------------------------
\* How a step may change a row.

\* The goroutine in slot s of w ends attempt runs[r].attempt of r, which w owns.
EndsBy(w, s, r, phase) ==
  /\ exec[w][s].run = r
  /\ exec[w][s].phase = phase
  /\ Owns(r, w, exec[w][s].attempt)
  /\ exec'[w][s].phase \in {"idle", "handoff"}

RowStep(r) ==
  \/ runs'[r] = runs[r]
  \/ runs[r].status = "ABSENT" /\ runs'[r] = NewRow
  \/ Claimable(r) /\ \E w \in Workers : runs'[r] = ClaimedRow(r, w)
  \/ /\ runs[r].status = "RUNNING"
     /\ \E h \in {"fresh", "stale"} :
          runs'[r] = [runs[r] EXCEPT !.last_heartbeat_at = h]
  \/ \E w \in Workers, s \in Slots :
       \/ EndsBy(w, s, r, "finish")
          /\ runs'[r] = FinishedRow(r, runs[r].attempt) /\ exec'[w][s] = Idle
       \/ EndsBy(w, s, r, "fail")    /\ runs'[r] = FailedOrRetriedRow(r)
       \/ EndsBy(w, s, r, "release") /\ runs'[r] = ReleasedRow(r)
  \/ r \in Stale /\ runs'[r] = ReapedRow(r)
  \/ /\ runs[r].status = "QUEUED"
     /\ req[r] = "undispatched"
     /\ runs'[r] = [runs[r] EXCEPT !.status = "FAILED", !.finished_at = "set"]
  \/ /\ runs[r].status = "QUEUED"
     /\ \/ \E t \in {"fresh", "old"} : runs'[r] = [runs[r] EXCEPT !.queued_at = t]
        \/ runs[r].next_attempt_at = "future"
           /\ runs'[r] = [runs[r] EXCEPT !.next_attempt_at = "due"]
        \/ runs[r].next_attempt_at = "due"
           /\ runs'[r] = [runs[r] EXCEPT !.next_attempt_at = "null",
                                         !.queued_at = "fresh"]

TableStep ==
  /\ runs' = [r \in Runs |-> runs'[r]]
  /\ \A r \in Runs : RowStep(r)

\* A step that leaves the table alone.
LEMMA NoTableStep == ASSUME TypeOK, UNCHANGED runs PROVE TableStep
  BY DEF TableStep, RowStep, TypeOK, StoreTypeOK

\* A step that changes at most the row of r.
LEMMA OneRowStep ==
  ASSUME TypeOK, NEW r \in Runs, NEW row, RowStep(r),
         runs' = [runs EXCEPT ![r] = row]
  PROVE  TableStep
<1>1. \A q \in Runs : q # r => runs'[q] = runs[q]
  BY DEF TypeOK, StoreTypeOK
<1>2. runs' = [q \in Runs |-> runs'[q]]
  BY DEF TypeOK, StoreTypeOK
<1>3. \A q \in Runs : q # r => RowStep(q)
  BY <1>1 DEF RowStep
<1> QED BY <1>2, <1>3 DEF TableStep

\* Goroutines of the API and the scheduler.
LEMMA QueueRunTable ==
  ASSUME TypeOK, NEW r \in Runs, QueueRun(r) PROVE TableStep
<1>1. CASE TriggerRun(r) \/ FireJob(r)
  <2>1. InsertRun(r)
    BY <1>1 DEF TriggerRun, FireJob, Insert
  <2>2. RowStep(r)
    BY <2>1 DEF InsertRun, RowStep, TypeOK, StoreTypeOK
  <2> QED BY <2>1, <2>2, OneRowStep DEF InsertRun
<1>2. CASE FailUndispatched(r)
  <2>1. CASE FailQueuedRun(r)
    <3>1. RowStep(r)
      BY <1>2, <2>1 DEF FailQueuedRun, FailUndispatched, Step, RowStep, TypeOK, StoreTypeOK
    <3> QED BY <2>1, <3>1, OneRowStep DEF FailQueuedRun
  <2>2. CASE UNCHANGED runs
    BY <2>2, NoTableStep
  <2> QED BY <1>2, <2>1, <2>2 DEF FailUndispatched
<1>3. CASE DispatchManual(r) \/ DispatchFired(r)
  BY <1>3, NoTableStep DEF DispatchManual, DispatchFired
<1> QED BY <1>1, <1>2, <1>3 DEF QueueRun

\* Time.
LEMMA TimePassesTable ==
  ASSUME TypeOK, NEW r \in Runs, TimePasses(r) PROVE TableStep
<1>1. CASE AgeHeartbeat(r)
  <2>1. RowStep(r)
    BY <1>1 DEF AgeHeartbeat, RowStep, TypeOK, StoreTypeOK
  <2> QED BY <1>1, <2>1, OneRowStep DEF AgeHeartbeat
<1>2. CASE AgeQueued(r)
  <2>1. RowStep(r)
    BY <1>2 DEF AgeQueued, RowStep, TypeOK, StoreTypeOK
  <2> QED BY <1>2, <2>1, OneRowStep DEF AgeQueued
<1>3. CASE AgeBackoff(r)
  <2>1. RowStep(r)
    BY <1>3 DEF AgeBackoff, RowStep, TypeOK, StoreTypeOK
  <2> QED BY <1>3, <2>1, OneRowStep DEF AgeBackoff
<1> QED BY <1>1, <1>2, <1>3 DEF TimePasses

\* Workers.
LEMMA ConsumeTable ==
  ASSUME TypeOK, NEW w \in Workers, NEW s \in Slots, NEW r \in Runs,
         Consume(w, s, r)
  PROVE  TableStep
<1>1. CASE ClaimRun(r, w)
  <2>1. RowStep(r)
    BY <1>1 DEF ClaimRun, RowStep, TypeOK, StoreTypeOK
  <2> QED BY <1>1, <2>1, OneRowStep DEF ClaimRun
<1>2. CASE UNCHANGED runs
  BY <1>2, NoTableStep
<1> QED BY <1>1, <1>2 DEF Consume

LEMMA ActiveType ==
  ASSUME TypeOK, NEW w \in Workers, NEW s \in Slots, Active(w, s)
  PROVE  exec[w][s] \in [phase : Phases, run : Runs, attempt : Nat, cause : Causes]
  BY DEF TypeOK, WorkerTypeOK, Exec, Idle, Active

LEMMA ExecuteTable ==
  ASSUME TypeOK, NEW w \in Workers, NEW s \in Slots, Execute(w, s)
  PROVE  TableStep
<1> DEFINE e == exec[w][s]
<1>0. CASE UNCHANGED runs
  BY <1>0, NoTableStep
<1>1. ASSUME e.phase # "idle" PROVE e.run \in Runs
  BY <1>1, ActiveType DEF Active
<1>2. exec \in [Workers -> [Slots -> Exec]] /\ runs \in [Runs -> Row]
  BY DEF TypeOK, WorkerTypeOK, StoreTypeOK
<1>3. CASE HeartbeatTick(w, s)
  <2>1. e.run \in Runs /\ Heartbeat(e.run, w, e.attempt)
    BY <1>1, <1>3 DEF HeartbeatTick
  <2>2. RowStep(e.run)
    BY <1>2, <2>1 DEF Heartbeat, Owns, RowStep
  <2> QED BY <2>1, <2>2, OneRowStep DEF Heartbeat
<1>4. CASE Succeed(w, s) /\ ~ UNCHANGED runs
  <2>1. e.run \in Runs /\ FinishRun(e.run, w, e.attempt) /\ exec'[w][s] = Idle
    BY <1>1, <1>2, <1>4 DEF Succeed, Done
  <2>2. ~Owns(e.run, w, e.attempt) => RowStep(e.run)
    BY <1>2, <2>1 DEF FinishRun, RowStep
  <2>3. ASSUME Owns(e.run, w, e.attempt) PROVE RowStep(e.run)
    <3>1. EndsBy(w, s, e.run, "finish")
      BY <1>4, <2>1, <2>3 DEF Succeed, EndsBy, Idle
    <3>2. runs'[e.run] = FinishedRow(e.run, runs[e.run].attempt)
      BY <1>2, <2>1, <2>3 DEF FinishRun, Owns
    <3> QED BY <2>1, <3>1, <3>2 DEF RowStep
  <2> QED BY <2>1, <2>2, <2>3, OneRowStep DEF FinishRun
<1>5. CASE Fail(w, s) /\ ~ UNCHANGED runs
  <2>1. e.run \in Runs /\ FailOrRetry(e.run, w, e.attempt) /\ exec'[w][s] = Idle
    BY <1>1, <1>2, <1>5 DEF Fail, Done
  <2>2. ~Owns(e.run, w, e.attempt) => RowStep(e.run)
    BY <1>2, <2>1 DEF FailOrRetry, RowStep
  <2>3. ASSUME Owns(e.run, w, e.attempt) PROVE RowStep(e.run)
    <3>1. EndsBy(w, s, e.run, "fail")
      BY <1>5, <2>1, <2>3 DEF Fail, EndsBy, Idle
    <3>2. runs'[e.run] = FailedOrRetriedRow(e.run)
      BY <1>2, <2>1, <2>3 DEF FailOrRetry
    <3> QED BY <3>1, <3>2 DEF RowStep
  <2> QED BY <2>1, <2>2, <2>3, OneRowStep DEF FailOrRetry
<1>6. CASE Release(w, s) /\ ~ UNCHANGED runs
  <2>1. /\ e.run \in Runs /\ ReleaseRun(e.run, w, e.attempt)
        /\ exec'[w][s].phase \in {"idle", "handoff"}
    BY <1>1, <1>2, <1>6 DEF Release, Done, Goto, Idle, Exec
  <2>2. RowStep(e.run)
    BY <1>2, <1>6, <2>1 DEF Release, ReleaseRun, Owns, RowStep, EndsBy
  <2> QED BY <2>1, <2>2, OneRowStep DEF ReleaseRun
<1>7. CASE LoadJob(w, s) \/ Timeout(w, s) \/ JobSucceeds(w, s) \/ JobFails(w, s)
             \/ Handoff(w, s)
  BY <1>0, <1>7 DEF LoadJob, Timeout, JobSucceeds, JobFails, Handoff
<1> QED BY <1>0, <1>3, <1>4, <1>5, <1>6, <1>7 DEF Execute

LEMMA MaintainTable ==
  ASSUME TypeOK, NEW w \in Workers, Maintain(w) PROVE TableStep
<1>1. CASE Reap(w)
  <2>1. PICK B \in Limited(Stale) : ReapStale(B)
    BY <1>1 DEF Reap
  <2>2. B \subseteq Stale
    BY DEF Limited
  <2>3. \A r \in Runs : RowStep(r)
    BY <2>1, <2>2 DEF ReapStale, RowStep
  <2> QED BY <2>1, <2>3 DEF ReapStale, TableStep
<1>2. CASE DispatchRetries(w)
  <2>1. PICK B \in Limited(DueForRetry) : DueRetries(B)
    BY <1>2 DEF DispatchRetries
  <2>2. B \subseteq DueForRetry
    BY DEF Limited
  <2>3. \A r \in Runs : RowStep(r)
    BY <2>1, <2>2 DEF DueRetries, DueForRetry, RowStep
  <2> QED BY <2>1, <2>3 DEF DueRetries, TableStep
<1>3. CASE Sweep(w)
  <2>1. PICK B \in Limited(Stuck) : SweepQueued(B)
    BY <1>3 DEF Sweep
  <2>2. B \subseteq Stuck
    BY DEF Limited
  <2>3. \A r \in Runs : RowStep(r)
    BY <2>1, <2>2 DEF SweepQueued, Stuck, RowStep
  <2> QED BY <2>1, <2>3 DEF SweepQueued, TableStep
<1>4. CASE MaintenanceError(w) \/ \E r \in Runs : Redispatch(w, r)
  BY <1>4, NoTableStep DEF MaintenanceError, Redispatch
<1> QED BY <1>1, <1>2, <1>3, <1>4 DEF Maintain

\* Every step changes each row in one of the ways of RowStep.
LEMMA RowSteps == ASSUME TypeOK, Next PROVE TableStep
<1>1. CASE ApiCrash \/ \E r \in Runs : QueueRun(r) \/ TimePasses(r)
  BY <1>1, QueueRunTable, TimePassesTable, NoTableStep DEF ApiCrash
<1>2. ASSUME NEW w \in Workers, WorkerNext(w) PROVE TableStep
  <2>1. CASE Lifecycle(w)
    BY <2>1, NoTableStep DEF Lifecycle, Sigterm, StopConsuming, FetchFails,
       GraceOver, Exit, Crash, Restart
  <2> QED BY <1>2, <2>1, ExecuteTable, ConsumeTable, MaintainTable DEF WorkerNext
<1> QED BY <1>1, <1>2 DEF Next

-----------------------------------------------------------------------------
\* Type correctness.

LEMMA TableTypes == ASSUME TypeOK, TableStep PROVE StoreTypeOK'
<1> SUFFICES ASSUME NEW r \in Runs PROVE runs'[r] \in Row
  BY DEF TableStep, StoreTypeOK
<1>1. StoreTypeOK /\ runs[r] \in Row /\ runs[r].attempt \in Nat
  BY DEF TypeOK, StoreTypeOK, Row
<1>2. \A h \in {"fresh", "stale"} : [runs[r] EXCEPT !.last_heartbeat_at = h] \in Row
  BY <1>1 DEF Row
<1>3. \A t \in {"fresh", "old"} : [runs[r] EXCEPT !.queued_at = t] \in Row
  BY <1>1 DEF Row
<1>4. /\ [runs[r] EXCEPT !.next_attempt_at = "due"] \in Row
      /\ [runs[r] EXCEPT !.next_attempt_at = "null", !.queued_at = "fresh"] \in Row
      /\ [runs[r] EXCEPT !.status = "FAILED", !.finished_at = "set"] \in Row
  BY <1>1 DEF Row, Final
<1>5. RowStep(r)
  BY DEF TableStep
<1>6. \A w \in Workers : ClaimedRow(r, w) \in Row
  BY <1>1, RowTypes
<1>7. NewRow \in Row
  BY DEF NewRow, Row, Final
<1>8. ASSUME NEW w \in Workers
      PROVE  /\ FinishedRow(r, runs[r].attempt) \in Row
             /\ FailedOrRetriedRow(r) \in Row
             /\ ReleasedRow(r) \in Row
  BY <1>1, RowTypes
<1>9. r \in Stale => ReapedRow(r) \in Row
  <2>1. CASE Exhausted(r)
    BY <1>1, <2>1 DEF ReapedRow, Row, Final
  <2>2. CASE ~Exhausted(r)
    <3>1. runs[r].attempt + 1 \in Nat
      BY <1>1
    <3> QED BY <1>1, <2>2, <3>1, RequeueTypes DEF ReapedRow
  <2> QED BY <2>1, <2>2
<1> QED BY <1>1, <1>2, <1>3, <1>4, <1>5, <1>6, <1>7, <1>8, <1>9 DEF RowStep

\* The part of TypeOK that is not about the table.
RestTypeOK ==
  /\ QueueTypeOK /\ FaultsTypeOK /\ WorkerTypeOK
  /\ req \in [Runs -> Requests]

LEMMA FaultTypes ==
  ASSUME FaultsTypeOK, NEW k \in FaultKinds, Fault(k) PROVE FaultsTypeOK'
  BY MaxFaultsAssumption DEF FaultsTypeOK, Fault

LEMMA TopicTypes ==
  ASSUME QueueTypeOK, NEW r \in Runs
  PROVE  /\ Published(r) \in [Runs -> 0..MaxCopies]
         /\ topic[r] > 0 => Committed(r) \in [Runs -> 0..MaxCopies]
  BY QueueAssumption DEF QueueTypeOK, Published, Committed

LEMMA SlotTypes ==
  ASSUME TypeOK, NEW w \in Workers, NEW s \in Slots
  PROVE  /\ Done(w, s) => exec' \in [Workers -> [Slots -> Exec]]
         /\ \A p \in Phases : Active(w, s) /\ Goto(w, s, p)
                               => exec' \in [Workers -> [Slots -> Exec]]
         /\ \A c \in Causes : Active(w, s) /\ Cancel(w, s, c)
                               => exec' \in [Workers -> [Slots -> Exec]]
<1>1. exec \in [Workers -> [Slots -> Exec]]
  BY DEF TypeOK, WorkerTypeOK
<1>2. Done(w, s) => exec' \in [Workers -> [Slots -> Exec]]
  BY <1>1 DEF Done, Exec
<1>3. ASSUME NEW p \in Phases, Active(w, s), Goto(w, s, p)
      PROVE  exec' \in [Workers -> [Slots -> Exec]]
  <2>1. [exec[w][s] EXCEPT !.phase = p, !.cause = "none"] \in Exec
    BY <1>3, ActiveType DEF Exec, Causes
  <2> QED BY <1>1, <1>3, <2>1 DEF Goto
<1>4. ASSUME NEW c \in Causes, Active(w, s), Cancel(w, s, c)
      PROVE  exec' \in [Workers -> [Slots -> Exec]]
  <2>1. [exec[w][s] EXCEPT !.cause = c] \in Exec
    BY <1>4, ActiveType DEF Exec
  <2> QED BY <1>1, <1>4, <2>1 DEF Cancel
<1> QED BY <1>2, <1>3, <1>4

LEMMA QueueRunRestTypes ==
  ASSUME TypeOK, NEW r \in Runs, QueueRun(r) PROVE RestTypeOK'
<1>1. QueueTypeOK /\ FaultsTypeOK /\ WorkerTypeOK /\ req \in [Runs -> Requests]
  BY DEF TypeOK
<1>2. WorkerTypeOK'
  BY <1>1 DEF QueueRun, WorkerTypeOK
<1>3. req' \in [Runs -> Requests]
  BY <1>1 DEF QueueRun, TriggerRun, FireJob, Insert, DispatchManual, FailUndispatched,
     DispatchFired, Step, Requests
<1>4. FaultsTypeOK'
  <2>1. UNCHANGED faults \/ \E k \in FaultKinds : Fault(k)
    BY DEF QueueRun, TriggerRun, FireJob, Insert, DispatchManual, FailUndispatched,
       DispatchFired, FaultKinds
  <2> QED BY <1>1, <2>1, FaultTypes DEF FaultsTypeOK
<1>5. QueueTypeOK'
  <2>1. UNCHANGED topic \/ topic' = Published(r)
    BY DEF QueueRun, TriggerRun, FireJob, Insert, DispatchManual, FailUndispatched,
       DispatchFired, Dispatch, DispatchError
  <2> QED BY <1>1, <2>1, TopicTypes DEF QueueTypeOK
<1> QED BY <1>2, <1>3, <1>4, <1>5 DEF RestTypeOK

LEMMA ApiCrashRestTypes == ASSUME TypeOK, ApiCrash PROVE RestTypeOK'
<1>1. QueueTypeOK' /\ WorkerTypeOK'
  BY DEF ApiCrash, TypeOK, QueueTypeOK, WorkerTypeOK
<1>2. req' \in [Runs -> Requests]
  BY DEF ApiCrash, Requests
<1>3. FaultsTypeOK'
  BY FaultTypes DEF ApiCrash, TypeOK, FaultsTypeOK, FaultKinds
<1> QED BY <1>1, <1>2, <1>3 DEF RestTypeOK

LEMMA WorkerRestTypes ==
  ASSUME TypeOK, NEW w \in Workers, WorkerNext(w), UNCHANGED req
  PROVE  RestTypeOK'
<1>1. QueueTypeOK /\ FaultsTypeOK /\ WorkerTypeOK /\ req \in [Runs -> Requests]
  BY DEF TypeOK
<1> USE <1>1
<1>2. ASSUME NEW s \in Slots, NEW r \in Runs, Consume(w, s, r) PROVE RestTypeOK'
  <2>1. topic' \in {topic, Committed(r)} /\ topic[r] > 0
    BY <1>2 DEF Consume, CommitMessage
  <2>2. QueueTypeOK'
    BY <2>1, TopicTypes DEF QueueTypeOK
  <2>3. UNCHANGED faults \/ \E k \in FaultKinds : Fault(k)
    BY <1>2 DEF Consume, CommitMessage, Fails, FaultKinds
  <2>4. FaultsTypeOK'
    BY <2>3, FaultTypes DEF FaultsTypeOK
  <2>5. runs[r].attempt \in Nat
    BY DEF TypeOK, StoreTypeOK, Row
  <2>6. [phase |-> "load", run |-> r, attempt |-> runs[r].attempt, cause |-> "none"]
          \in Exec
    BY <2>5 DEF Exec, Phases, Causes
  <2>7. exec' \in [Workers -> [Slots -> Exec]]
    <3>1. Idle \in Exec
      BY DEF Exec
    <3>2. UNCHANGED exec \/ \E x \in Exec : exec' = [exec EXCEPT ![w][s] = x]
      BY <1>2, <2>6, <3>1 DEF Consume, AfterClaim
    <3>3. exec \in [Workers -> [Slots -> Exec]]
      BY DEF WorkerTypeOK
    <3>4. ASSUME NEW x \in Exec
          PROVE  [exec EXCEPT ![w][s] = x] \in [Workers -> [Slots -> Exec]]
      BY <3>3
    <3> QED BY <3>2, <3>3, <3>4
  <2> QED BY <1>2, <2>2, <2>4, <2>7 DEF RestTypeOK, Consume, WorkerTypeOK
<1>3. ASSUME NEW s \in Slots, Execute(w, s) PROVE RestTypeOK'
  <2>1. Active(w, s)
    BY <1>3 DEF Execute, LoadJob, HeartbeatTick, Timeout, JobSucceeds,
       WriteOutputFile, JobFails, Succeed, Fail, Release, Handoff, Active
  <2>2. exec[w][s].run \in Runs /\ exec[w][s].attempt \in Nat
    BY <2>1, ActiveType
  <2>3. UNCHANGED faults \/ \E k \in FaultKinds : Fault(k)
    BY <1>3 DEF Execute, LoadJob, HeartbeatTick, Timeout, JobSucceeds,
       WriteOutputFile, JobFails, Succeed, Fail, Release, Handoff, FaultKinds
  <2>4. FaultsTypeOK'
    BY <2>3, FaultTypes DEF FaultsTypeOK
  <2>5. UNCHANGED topic \/ topic' = Published(exec[w][s].run)
    BY <1>3 DEF Execute, LoadJob, HeartbeatTick, Timeout, JobSucceeds,
       WriteOutputFile, JobFails, Succeed, Fail, Release, Handoff, Dispatch, DispatchError
  <2>6. QueueTypeOK'
    BY <2>2, <2>5, TopicTypes DEF QueueTypeOK
  <2>7. /\ UNCHANGED <<proc, maint>>
        /\ files' \in [Runs -> Nat]
    BY <1>3, <2>2 DEF Execute, LoadJob, HeartbeatTick, Timeout, JobSucceeds,
       WriteOutputFile, JobFails, Succeed, Fail, Release, Handoff, WorkerTypeOK
  <2>8. exec' \in [Workers -> [Slots -> Exec]]
    <3>1. CASE LoadJob(w, s)
      <4>1. CASE exec' = [exec EXCEPT ![w][s].phase = "run",
                                      ![w][s].cause = IF proc[w].stage = "handback"
                                                      THEN "shutdown" ELSE "none"]
        <5> DEFINE c == IF proc[w].stage = "handback" THEN "shutdown" ELSE "none"
        <5>1. [exec[w][s] EXCEPT !.phase = "run", !.cause = c] \in Exec
          BY <2>1, ActiveType DEF Exec, Phases, Causes
        <5> QED BY <4>1, <5>1 DEF WorkerTypeOK
      <4>2. CASE Goto(w, s, "fail")
        BY <2>1, <4>2, SlotTypes DEF Phases
      <4> QED BY <3>1, <4>1, <4>2 DEF LoadJob
    <3>2. CASE HeartbeatTick(w, s) \/ Timeout(w, s)
      <4>1. UNCHANGED exec \/ Cancel(w, s, "lost") \/ Cancel(w, s, "timeout")
        BY <3>2 DEF HeartbeatTick, Timeout
      <4> QED BY <2>1, <4>1, SlotTypes DEF Causes, WorkerTypeOK
    <3>3. CASE ~LoadJob(w, s) /\ ~HeartbeatTick(w, s) /\ ~Timeout(w, s)
      <4>1. Done(w, s) \/ \E p \in Phases : Goto(w, s, p)
        BY <1>3, <3>3 DEF Execute, JobSucceeds, WriteOutputFile, JobFails, Succeed, Fail, Release,
           Handoff, Phases
      <4> QED BY <2>1, <4>1, SlotTypes
    <3> QED BY <3>1, <3>2, <3>3
  <2> QED BY <2>4, <2>6, <2>7, <2>8 DEF RestTypeOK, WorkerTypeOK
<1>4. CASE Maintain(w)
  <2>1. UNCHANGED <<proc, exec, files>>
    BY <1>4 DEF Maintain, Reap, DispatchRetries, Sweep, MaintenanceError, Redispatch
  <2>2. UNCHANGED faults \/ \E k \in FaultKinds : Fault(k)
    BY <1>4 DEF Maintain, Reap, DispatchRetries, Sweep, MaintenanceError, Redispatch,
       Returns, Fails, FaultKinds
  <2>3. FaultsTypeOK'
    BY <2>2, FaultTypes DEF FaultsTypeOK
  <2>4. UNCHANGED topic \/ \E r \in Runs : topic' = Published(r)
    BY <1>4 DEF Maintain, Reap, DispatchRetries, Sweep, MaintenanceError, Redispatch,
       Dispatch, DispatchError
  <2>5. QueueTypeOK'
    BY <2>4, TopicTypes DEF QueueTypeOK
  <2>6. maint' \in [Workers -> Maint]
    <3>1. maint[w] \in Maint /\ Following[maint[w].next] \in {"reap", "retry", "sweep"}
      BY DEF WorkerTypeOK, Maint, Following
    <3>2. ASSUME NEW found \in SUBSET Runs, Returns(w, found)
          PROVE  maint' \in [Workers -> Maint]
      <4> DEFINE f == Following[maint[w].next]
      <4>1. maint \in [Workers -> Maint]
        BY DEF WorkerTypeOK
      <4>2. /\ [next |-> f, pending |-> found] \in Maint
            /\ [maint[w] EXCEPT !.next = f] \in Maint
        BY <3>1 DEF Maint
      <4>3. \/ maint' = [maint EXCEPT ![w] = [next |-> f, pending |-> found]]
            \/ maint' = [maint EXCEPT ![w] = [maint[w] EXCEPT !.next = f]]
        BY <3>2, <4>1 DEF Returns
      <4> HIDE DEF f
      <4> QED BY <4>1, <4>2, <4>3
    <3>3. CASE Reap(w) \/ DispatchRetries(w) \/ Sweep(w)
      <4>1. \E found \in SUBSET Runs : Returns(w, found)
        BY <3>3 DEF Reap, DispatchRetries, Sweep, Limited, Stale, DueForRetry, Stuck
      <4> QED BY <3>2, <4>1
    <3>4. CASE MaintenanceError(w)
      BY <3>1, <3>4 DEF MaintenanceError, WorkerTypeOK, Maint
    <3>5. CASE \E r \in Runs : Redispatch(w, r)
      BY <3>1, <3>5 DEF Redispatch, WorkerTypeOK, Maint
    <3> QED BY <1>4, <3>3, <3>4, <3>5 DEF Maintain
  <2> QED BY <2>1, <2>3, <2>5, <2>6 DEF RestTypeOK, WorkerTypeOK
<1>5. CASE Lifecycle(w)
  <2>1. UNCHANGED <<topic, files>>
    BY <1>5 DEF Lifecycle, Sigterm, StopConsuming, FetchFails, GraceOver, Exit, Crash,
       Restart
  <2>2. UNCHANGED faults \/ \E k \in FaultKinds : Fault(k)
    BY <1>5 DEF Lifecycle, Sigterm, StopConsuming, FetchFails, GraceOver, Exit, Crash,
       Restart, FaultKinds
  <2>3. FaultsTypeOK'
    BY <2>2, FaultTypes DEF FaultsTypeOK
  <2>4. proc' \in [Workers -> Proc]
    <3>1. /\ [stage |-> "down", ctx |-> "live"] \in Proc
          /\ [proc[w] EXCEPT !.ctx = "done"] \in Proc
          /\ \A st \in Stages : [proc[w] EXCEPT !.stage = st] \in Proc
      BY DEF WorkerTypeOK, Proc, Stages
    <3>2. \/ proc' = [proc EXCEPT ![w] = [stage |-> "down", ctx |-> "live"]]
          \/ proc' = [proc EXCEPT ![w].ctx = "done"]
          \/ \E st \in Stages : proc' = [proc EXCEPT ![w].stage = st]
      BY <1>5 DEF Lifecycle, Sigterm, StopConsuming, FetchFails, GraceOver, Exit, Crash,
         Restart, Stages
    <3> QED BY <3>1, <3>2 DEF WorkerTypeOK
  <2>5. maint' \in [Workers -> Maint]
    <3>1. NewMaint \in Maint
      BY DEF NewMaint, Maint
    <3> QED BY <1>5, <3>1 DEF Lifecycle, Sigterm, StopConsuming, FetchFails, GraceOver,
       Exit, Crash, Restart, WorkerTypeOK
  <2>6. exec' \in [Workers -> [Slots -> Exec]]
    <3>1. CASE GraceOver(w)
      <4>1. \A s \in Slots : exec[w][s].phase = "run" =>
                               [exec[w][s] EXCEPT !.cause = "shutdown"] \in Exec
        BY ActiveType DEF Active, Exec, Causes
      <4> QED BY <3>1, <4>1 DEF GraceOver, WorkerTypeOK
    <3>2. CASE ~GraceOver(w)
      BY <1>5, <3>2 DEF Lifecycle, Sigterm, StopConsuming, FetchFails, Exit, Crash,
         Restart, WorkerTypeOK, Exec
    <3> QED BY <3>1, <3>2
  <2> QED BY <2>1, <2>3, <2>4, <2>5, <2>6 DEF RestTypeOK, WorkerTypeOK, QueueTypeOK
<1> QED BY <1>2, <1>3, <1>4, <1>5 DEF WorkerNext

LEMMA TypeStep == ASSUME TypeOK, [Next]_vars PROVE TypeOK'
<1>1. CASE Next
  <2>1. StoreTypeOK'
    BY <1>1, RowSteps, TableTypes
  <2>2. CASE \E r \in Runs : TimePasses(r)
    BY <2>1, <2>2 DEF TimePasses, TypeOK, QueueTypeOK, FaultsTypeOK, WorkerTypeOK
  <2>3. CASE ~ \E r \in Runs : TimePasses(r)
    BY <1>1, <2>1, <2>3, QueueRunRestTypes, ApiCrashRestTypes, WorkerRestTypes
       DEF Next, TypeOK, RestTypeOK
  <2> QED BY <2>2, <2>3
<1>2. CASE UNCHANGED vars
  BY <1>2 DEF vars, TypeOK, StoreTypeOK, QueueTypeOK, FaultsTypeOK, WorkerTypeOK
<1> QED BY <1>1, <1>2

LEMMA TypeInit == ASSUME Init PROVE TypeOK
<1>1. AbsentRow \in Row
  BY DEF AbsentRow, NewRow, Row, Final
<1>2. StoreTypeOK /\ QueueTypeOK /\ FaultsTypeOK /\ req \in [Runs -> Requests]
  BY <1>1, QueueAssumption DEF Init, StoreInit, QueueInit, FaultsInit, StoreTypeOK,
     QueueTypeOK, FaultsTypeOK, Requests
<1>3. WorkerTypeOK
  BY DEF Init, WorkerInit, WorkerTypeOK, Proc, Stages, Exec, Maint, NewMaint
<1> QED BY <1>2, <1>3 DEF TypeOK

\* Every variable keeps its type: in particular a slot in use holds a run and an
\* attempt, and no message count becomes negative.
THEOREM TypeCorrect == Spec => []TypeOK
  BY TypeInit, TypeStep, PTL DEF Spec

-----------------------------------------------------------------------------
\* The rows.

LEMMA CoherentStep ==
  ASSUME TypeOK, RowsCoherent, TableStep PROVE RowsCoherent'
<1> SUFFICES ASSUME NEW r \in Runs PROVE RowCoherent(runs'[r])
  BY DEF RowsCoherent
<1>1. /\ runs[r] \in Row /\ runs[r].attempt \in Nat
      /\ RowCoherent(runs[r])
      /\ RowStep(r)
  BY DEF TypeOK, StoreTypeOK, Row, RowsCoherent, TableStep
<1>2. CASE runs'[r] = runs[r]
  BY <1>1, <1>2
<1>3. CASE runs'[r] = NewRow
  BY <1>3 DEF NewRow, RowCoherent
<1>4. CASE Claimable(r) /\ \E w \in Workers : runs'[r] = ClaimedRow(r, w)
  BY <1>1, <1>4, StoreAssumption DEF Claimable, ClaimedRow, RowCoherent, Row
<1>5. CASE /\ runs[r].status = "RUNNING"
           /\ \E h \in {"fresh", "stale"} :
                runs'[r] = [runs[r] EXCEPT !.last_heartbeat_at = h]
  BY <1>1, <1>5 DEF RowCoherent, Row
<1>6. CASE runs[r].status = "RUNNING" /\ runs'[r] = FinishedRow(r, runs[r].attempt)
  BY <1>1, <1>6 DEF FinishedRow, RowCoherent, Row
<1>7. CASE runs[r].status = "RUNNING" /\ runs'[r] = FailedOrRetriedRow(r)
  <2>1. CASE Exhausted(r)
    BY <1>1, <1>7, <2>1 DEF FailedOrRetriedRow, RowCoherent, Row
  <2>2. CASE ~Exhausted(r)
    BY <1>1, <1>7, <2>2 DEF FailedOrRetriedRow, RowCoherent, Row
  <2> QED BY <2>1, <2>2
<1>8. CASE runs[r].status = "RUNNING" /\ runs'[r] = ReleasedRow(r)
  BY <1>1, <1>8 DEF ReleasedRow, RowCoherent, Row
<1>9. CASE runs[r].status = "RUNNING" /\ runs'[r] = ReapedRow(r)
  <2>1. CASE Exhausted(r)
    BY <1>1, <1>9, <2>1 DEF ReapedRow, RowCoherent, Row
  <2>2. CASE ~Exhausted(r)
    BY <1>1, <1>9, <2>2 DEF ReapedRow, RowCoherent, Row
  <2> QED BY <2>1, <2>2
<1>10. CASE /\ runs[r].status = "QUEUED"
            /\ runs'[r] = [runs[r] EXCEPT !.status = "FAILED", !.finished_at = "set"]
  BY <1>1, <1>10 DEF RowCoherent, Row
<1>11. CASE /\ runs[r].status = "QUEUED"
            /\ \/ \E t \in {"fresh", "old"} : runs'[r] = [runs[r] EXCEPT !.queued_at = t]
               \/ runs'[r] = [runs[r] EXCEPT !.next_attempt_at = "due"]
               \/ runs'[r] = [runs[r] EXCEPT !.next_attempt_at = "null",
                                             !.queued_at = "fresh"]
  BY <1>1, <1>11 DEF RowCoherent, Row
<1> QED
  <2>1. \A w \in Workers, s \in Slots, p \in Phases :
          EndsBy(w, s, r, p) => runs[r].status = "RUNNING"
    BY DEF EndsBy, Owns
  <2>2. r \in Stale => runs[r].status = "RUNNING"
    BY DEF Stale
  <2>3. {"finish", "fail", "release"} \subseteq Phases
    BY DEF Phases
  <2> QED
    BY <1>1, <1>2, <1>3, <1>4, <1>5, <1>6, <1>7, <1>8, <1>9, <1>10, <1>11,
       <2>1, <2>2, <2>3
    DEF RowStep

\* The columns of every row agree with its status.
THEOREM RowsAreCoherent == Spec => []RowsCoherent
<1>1. Init => RowsCoherent
  <2>1. AbsentRow.status = "ABSENT"
    BY DEF AbsentRow, NewRow
  <2>2. RowCoherent(AbsentRow)
    BY <2>1 DEF RowCoherent
  <2> QED BY <2>2 DEF Init, StoreInit, RowsCoherent
<1>2. TypeOK /\ RowsCoherent /\ [Next]_vars => RowsCoherent'
  BY RowSteps, CoherentStep DEF vars, RowsCoherent
<1> QED BY <1>1, <1>2, TypeCorrect, PTL DEF Spec

-----------------------------------------------------------------------------
\* How a step may change a slot.

SlotFreed(w, s) == exec'[w][s] = Idle

SlotKept(w, s) ==
  /\ Active(w, s)
  /\ exec'[w][s].phase # "idle"
  /\ exec'[w][s].run = exec[w][s].run
  /\ exec'[w][s].attempt = exec[w][s].attempt

\* r is claimed for slot s of w, and all other slots stay as they are.
SlotClaims(w, s, r) ==
  /\ Claimable(r)
  /\ runs'[r] = ClaimedRow(r, w)
  /\ exec'[w][s].phase = "load"
  /\ exec'[w][s].cause = "none"
  /\ exec'[w][s].run = r
  /\ exec'[w][s].attempt = runs[r].attempt
  /\ \A v \in Workers, t \in Slots : v # w \/ t # s => exec'[v][t] = exec[v][t]
  /\ proc[w].stage = "consume" /\ proc[w].ctx = "live" /\ UNCHANGED proc

SlotStep(w, s) ==
  SlotFreed(w, s) \/ SlotKept(w, s) \/ \E r \in Runs : SlotClaims(w, s, r)

\* A slot that does not change is kept, or it was free and still is.
LEMMA SameSlot ==
  ASSUME TypeOK, NEW w \in Workers, NEW s \in Slots, exec'[w][s] = exec[w][s]
  PROVE  SlotStep(w, s)
<1>1. exec[w][s] = Idle \/ exec[w][s].phase # "idle"
  BY DEF TypeOK, WorkerTypeOK, Exec, Phases
<1> QED BY <1>1 DEF SlotStep, SlotFreed, SlotKept, Active

LEMMA SlotSteps ==
  ASSUME TypeOK, Next PROVE \A w \in Workers, s \in Slots : SlotStep(w, s)
<1>1. CASE UNCHANGED exec
  BY <1>1, SameSlot
<1>0. exec \in [Workers -> [Slots -> Exec]] /\ runs \in [Runs -> Row]
  BY DEF TypeOK, WorkerTypeOK, StoreTypeOK
<1>2. ASSUME NEW w \in Workers, NEW s \in Slots, NEW r \in Runs, Consume(w, s, r),
             exec' # exec
      PROVE  \A v \in Workers, t \in Slots : SlotStep(v, t)
  <2>1. /\ AfterClaim(w, s, r) /\ ClaimRun(r, w)
        /\ proc[w].stage = "consume" /\ proc[w].ctx = "live" /\ UNCHANGED proc
    BY <1>2 DEF Consume
  <2>2. \A v \in Workers, t \in Slots : v # w \/ t # s => exec'[v][t] = exec[v][t]
    BY <1>0, <2>1 DEF AfterClaim
  <2>3. CASE Claimable(r)
    <3>1. /\ exec'[w][s] = [phase |-> "load", run |-> r, attempt |-> runs[r].attempt,
                            cause |-> "none"]
          /\ runs'[r] = ClaimedRow(r, w)
      BY <1>0, <2>1, <2>3 DEF AfterClaim, ClaimRun
    <3>2. SlotClaims(w, s, r)
      BY <2>1, <2>2, <2>3, <3>1 DEF SlotClaims
    <3> QED BY <2>2, <3>2, SameSlot DEF SlotStep
  <2>4. CASE ~Claimable(r)
    <3>1. SlotFreed(w, s)
      BY <1>0, <2>1, <2>4 DEF AfterClaim, SlotFreed
    <3> QED BY <2>2, <3>1, SameSlot DEF SlotStep
  <2> QED BY <2>3, <2>4
<1>3. ASSUME NEW w \in Workers, NEW s \in Slots, Execute(w, s), exec' # exec
      PROVE  \A v \in Workers, t \in Slots : SlotStep(v, t)
  <2>1. Active(w, s)
    BY <1>3 DEF Execute, LoadJob, HeartbeatTick, Timeout, JobSucceeds,
       WriteOutputFile, JobFails, Succeed, Fail, Release, Handoff, Active
  <2>2. /\ exec[w][s] \in [phase : Phases, run : Runs, attempt : Nat, cause : Causes]
        /\ "idle" \notin Phases
    BY <2>1, ActiveType DEF Phases
  <2>3. \/ Done(w, s)
        \/ \E p \in Phases, c \in Causes :
             exec' = [exec EXCEPT ![w][s].phase = p, ![w][s].cause = c]
        \/ \E c \in Causes : Cancel(w, s, c)
    BY <1>3 DEF Execute, LoadJob, HeartbeatTick, Timeout, JobSucceeds,
       WriteOutputFile, JobFails, Succeed, Fail, Release, Handoff, Goto, Phases, Causes
  <2>4. CASE Done(w, s)
    BY <1>0, <2>4, SameSlot DEF Done, SlotStep, SlotFreed
  <2>5. ASSUME NEW p \in Phases, NEW c \in Causes,
               exec' = [exec EXCEPT ![w][s].phase = p, ![w][s].cause = c]
        PROVE  \A v \in Workers, t \in Slots : SlotStep(v, t)
    <3>1. exec'[w][s] = [exec[w][s] EXCEPT !.phase = p, !.cause = c]
      BY <1>0, <2>5
    <3>2. SlotKept(w, s)
      BY <2>1, <2>2, <3>1 DEF SlotKept
    <3>3. \A v \in Workers, t \in Slots : v # w \/ t # s => exec'[v][t] = exec[v][t]
      BY <1>0, <2>5
    <3> QED BY <3>2, <3>3, SameSlot DEF SlotStep
  <2>6. ASSUME NEW c \in Causes, Cancel(w, s, c)
        PROVE  \A v \in Workers, t \in Slots : SlotStep(v, t)
    <3>1. exec'[w][s] = [exec[w][s] EXCEPT !.cause = c]
      BY <1>0, <2>6 DEF Cancel
    <3>2. SlotKept(w, s)
      BY <2>1, <2>2, <3>1 DEF SlotKept, Active
    <3>3. \A v \in Workers, t \in Slots : v # w \/ t # s => exec'[v][t] = exec[v][t]
      BY <1>0, <2>6 DEF Cancel
    <3> QED BY <3>2, <3>3, SameSlot DEF SlotStep
  <2> QED BY <2>3, <2>4, <2>5, <2>6
<1>4. ASSUME NEW w \in Workers, GraceOver(w)
      PROVE  \A v \in Workers, t \in Slots : SlotStep(v, t)
  <2>1. ASSUME NEW t \in Slots, exec'[w][t] # exec[w][t] PROVE SlotKept(w, t)
    <3>1. /\ exec'[w][t] = [exec[w][t] EXCEPT !.cause = "shutdown"]
          /\ exec[w][t].phase = "run"
      BY <1>0, <1>4, <2>1 DEF GraceOver
    <3>2. exec[w][t] \in [phase : Phases, run : Runs, attempt : Nat, cause : Causes]
      BY <3>1, ActiveType DEF Active
    <3> QED BY <3>1, <3>2 DEF SlotKept, Active
  <2>2. \A v \in Workers, t \in Slots : v # w => exec'[v][t] = exec[v][t]
    BY <1>0, <1>4 DEF GraceOver
  <2> QED BY <2>1, <2>2, SameSlot DEF SlotStep
<1>5. ASSUME NEW w \in Workers, Crash(w)
      PROVE  \A v \in Workers, t \in Slots : SlotStep(v, t)
  BY <1>0, <1>5, SameSlot DEF Crash, SlotStep, SlotFreed
<1>6. CASE \E w \in Workers : WorkerNext(w)
  <2>1. PICK w \in Workers : WorkerNext(w)
    BY <1>6
  <2>2. CASE Lifecycle(w)
    <3>1. GraceOver(w) \/ Crash(w) \/ UNCHANGED exec
      BY <2>2 DEF Lifecycle, Sigterm, StopConsuming, FetchFails, Exit, Restart
    <3> QED BY <1>1, <1>4, <1>5, <3>1
  <2>3. CASE Maintain(w)
    BY <1>1, <2>3 DEF Maintain, Reap, DispatchRetries, Sweep, MaintenanceError,
       Redispatch
  <2> QED BY <1>1, <1>2, <1>3, <2>1, <2>2, <2>3 DEF WorkerNext
<1> QED BY <1>1, <1>6 DEF Next, QueueRun, ApiCrash, TimePasses

-----------------------------------------------------------------------------
\* One goroutine per attempt.

\* An attempt number never goes back, and while it stays the same the row of a
\* claimed attempt keeps its worker.  Only the finishing slot, which becomes
\* free, makes it SUCCEEDED.
LEMMA RowProgress ==
  ASSUME TypeOK, RowsCoherent, TableStep, NEW r \in Runs
  PROVE  /\ runs'[r].attempt \in Nat
         /\ runs'[r].attempt >= runs[r].attempt
         /\ /\ runs'[r].attempt = runs[r].attempt
            /\ runs[r].status \in {"RUNNING", "FAILED"}
            => /\ runs'[r].worker_id = runs[r].worker_id
               /\ \/ runs'[r].status \in {"RUNNING", "FAILED"}
                  \/ \E w \in Workers, s \in Slots :
                       EndsBy(w, s, r, "finish") /\ exec'[w][s] = Idle
<1>1. /\ runs[r] \in Row /\ runs[r].attempt \in Nat
      /\ runs[r].status = "ABSENT" => runs[r].attempt = 0
      /\ RowStep(r)
  <2>1. runs[r] \in Row /\ RowStep(r)
    BY DEF TypeOK, StoreTypeOK, TableStep
  <2>2. runs[r].attempt \in Nat
    BY <2>1 DEF Row
  <2>3. runs[r].status = "ABSENT" => runs[r] = AbsentRow
    BY DEF RowsCoherent, RowCoherent
  <2>4. AbsentRow.attempt = 0
    BY DEF AbsentRow, NewRow
  <2> QED BY <2>1, <2>2, <2>3, <2>4
<1>2. CASE runs'[r] = runs[r]
  BY <1>1, <1>2
<1>3. CASE runs[r].status = "ABSENT" /\ runs'[r] = NewRow
  BY <1>1, <1>3 DEF NewRow
<1>4. CASE Claimable(r) /\ \E w \in Workers : runs'[r] = ClaimedRow(r, w)
  BY <1>1, <1>4 DEF Claimable, ClaimedRow, Row
<1>5. CASE /\ runs[r].status = "RUNNING"
           /\ \E h \in {"fresh", "stale"} :
                runs'[r] = [runs[r] EXCEPT !.last_heartbeat_at = h]
  BY <1>1, <1>5 DEF Row
<1>6. CASE \E w \in Workers, s \in Slots :
             /\ EndsBy(w, s, r, "finish")
             /\ runs'[r] = FinishedRow(r, runs[r].attempt) /\ exec'[w][s] = Idle
  BY <1>1, <1>6 DEF FinishedRow, Row
<1>7. CASE runs'[r] = FailedOrRetriedRow(r)
  <2>1. CASE Exhausted(r)
    BY <1>1, <1>7, <2>1 DEF FailedOrRetriedRow, Row
  <2>2. CASE ~Exhausted(r)
    BY <1>1, <1>7, <2>2 DEF FailedOrRetriedRow, Row
  <2> QED BY <2>1, <2>2
<1>8. CASE runs'[r] = ReleasedRow(r)
  BY <1>1, <1>8 DEF ReleasedRow, Row
<1>9. CASE runs'[r] = ReapedRow(r)
  <2>1. CASE Exhausted(r)
    BY <1>1, <1>9, <2>1 DEF ReapedRow, Row
  <2>2. CASE ~Exhausted(r)
    BY <1>1, <1>9, <2>2 DEF ReapedRow, Row
  <2> QED BY <2>1, <2>2
<1>10. CASE /\ runs[r].status = "QUEUED"
            /\ \/ runs'[r] = [runs[r] EXCEPT !.status = "FAILED", !.finished_at = "set"]
               \/ \E t \in {"fresh", "old"} : runs'[r] = [runs[r] EXCEPT !.queued_at = t]
               \/ runs'[r] = [runs[r] EXCEPT !.next_attempt_at = "due"]
               \/ runs'[r] = [runs[r] EXCEPT !.next_attempt_at = "null",
                                             !.queued_at = "fresh"]
  <2>1. runs'[r].attempt = runs[r].attempt
    BY <1>1, <1>10 DEF Row
  <2> QED BY <1>1, <1>10, <2>1
<1> QED
  BY <1>1, <1>2, <1>3, <1>4, <1>5, <1>6, <1>7, <1>8, <1>9, <1>10 DEF RowStep

\* AttemptExclusive is inductive together with TypeOK and RowsCoherent.
LEMMA ExclusiveStep ==
  ASSUME TypeOK, RowsCoherent, AttemptExclusive, TableStep,
         \A w \in Workers, s \in Slots : SlotStep(w, s)
  PROVE  AttemptExclusive'
<1> SUFFICES ASSUME NEW w \in Workers, NEW s \in Slots, exec'[w][s].phase # "idle"
             PROVE
               LET e == exec'[w][s] IN
               /\ \A v \in Workers, t \in Slots :
                    exec'[v][t].run = e.run /\ exec'[v][t].attempt = e.attempt
                      => v = w /\ t = s
               /\ e.attempt <= runs'[e.run].attempt
               /\ e.attempt = runs'[e.run].attempt =>
                    /\ runs'[e.run].worker_id = w
                    /\ runs'[e.run].status \in {"RUNNING", "FAILED"}
  BY DEF AttemptExclusive, Active
<1>1. /\ SlotStep(w, s) /\ ~SlotFreed(w, s)
      /\ NoRun \notin Runs /\ Idle.run = NoRun
  BY WorkerAssumption DEF SlotFreed, Idle
<1>2. CASE SlotKept(w, s)
  <2> DEFINE e == exec[w][s]
  <2>1. /\ Active(w, s) /\ e.run \in Runs /\ e.attempt \in Nat
        /\ exec'[w][s].run = e.run /\ exec'[w][s].attempt = e.attempt
    BY <1>2, ActiveType DEF SlotKept
  <2>2. /\ \A v \in Workers, t \in Slots :
             exec[v][t].run = e.run /\ exec[v][t].attempt = e.attempt
               => v = w /\ t = s
        /\ e.attempt <= runs[e.run].attempt
        /\ e.attempt = runs[e.run].attempt =>
             /\ runs[e.run].worker_id = w
             /\ runs[e.run].status \in {"RUNNING", "FAILED"}
    BY <2>1 DEF AttemptExclusive
  <2>3. ASSUME NEW v \in Workers, NEW t \in Slots,
               exec'[v][t].run = e.run, exec'[v][t].attempt = e.attempt
        PROVE  v = w /\ t = s
    <3>1. CASE SlotFreed(v, t)
      BY <1>1, <2>1, <2>3, <3>1 DEF SlotFreed
    <3>2. CASE SlotKept(v, t)
      BY <2>2, <2>3, <3>2 DEF SlotKept
    <3>3. ASSUME NEW r \in Runs, SlotClaims(v, t, r) PROVE FALSE
      BY <2>2, <2>3, <3>3 DEF SlotClaims, Claimable
    <3> QED BY <3>1, <3>2, <3>3 DEF SlotStep
  <2>4. /\ runs[e.run].attempt \in Nat
        /\ runs'[e.run].attempt \in Nat
        /\ runs'[e.run].attempt >= runs[e.run].attempt
    <3>1. runs[e.run] \in Row
      BY <2>1 DEF TypeOK, StoreTypeOK
    <3>2. runs[e.run].attempt \in Nat
      BY <3>1 DEF Row
    <3> QED BY <2>1, <3>2, RowProgress
  <2>5. ASSUME e.attempt = runs'[e.run].attempt
        PROVE  /\ runs'[e.run].worker_id = w
               /\ runs'[e.run].status \in {"RUNNING", "FAILED"}
    <3>1. runs'[e.run].attempt = runs[e.run].attempt /\ e.attempt = runs[e.run].attempt
      BY <2>1, <2>2, <2>4, <2>5
    <3>2. ASSUME NEW v \in Workers, NEW t \in Slots, EndsBy(v, t, e.run, "finish"),
                 exec'[v][t] = Idle
          PROVE  FALSE
      <4>1. v = w /\ t = s
        BY <2>2, <3>1, <3>2 DEF EndsBy, Owns
      <4> QED BY <1>1, <3>2, <4>1 DEF SlotFreed
    <3> QED BY <2>1, <2>2, <3>1, <3>2, RowProgress
  <2> QED BY <2>1, <2>2, <2>3, <2>4, <2>5
<1>3. ASSUME NEW r \in Runs, SlotClaims(w, s, r)
      PROVE  LET e == exec'[w][s] IN
               /\ \A v \in Workers, t \in Slots :
                    exec'[v][t].run = e.run /\ exec'[v][t].attempt = e.attempt
                      => v = w /\ t = s
               /\ e.attempt <= runs'[e.run].attempt
               /\ e.attempt = runs'[e.run].attempt =>
                    /\ runs'[e.run].worker_id = w
                    /\ runs'[e.run].status \in {"RUNNING", "FAILED"}
  <2>1. /\ exec'[w][s].run = r /\ exec'[w][s].attempt = runs[r].attempt
        /\ runs[r].status = "QUEUED"
        /\ runs'[r].attempt = runs[r].attempt
        /\ runs'[r].worker_id = w /\ runs'[r].status = "RUNNING"
        /\ runs[r].attempt \in Nat
    BY <1>3 DEF SlotClaims, Claimable, ClaimedRow, TypeOK, StoreTypeOK, Row
  <2>2. ASSUME NEW v \in Workers, NEW t \in Slots, v # w \/ t # s,
               exec'[v][t].run = r, exec'[v][t].attempt = runs[r].attempt
        PROVE  FALSE
    <3>1. exec[v][t].run = r /\ exec[v][t].attempt = runs[r].attempt
      BY <1>3, <2>2 DEF SlotClaims
    <3>2. Active(v, t)
      BY <1>1, <3>1 DEF TypeOK, WorkerTypeOK, Exec, Active, Phases
    <3> QED BY <2>1, <3>1, <3>2 DEF AttemptExclusive
  <2> QED BY <2>1, <2>2
<1> QED BY <1>1, <1>2, <1>3 DEF SlotStep

\* Each attempt of each run is executed by one goroutine in the whole pool.
THEOREM AttemptsAreExclusive == Spec => []AttemptExclusive
<1>1. Init => AttemptExclusive
  BY DEF Init, WorkerInit, AttemptExclusive, Active, Idle
<1>2. TypeOK /\ RowsCoherent /\ AttemptExclusive /\ [Next]_vars => AttemptExclusive'
  <2> SUFFICES ASSUME TypeOK, RowsCoherent, AttemptExclusive, [Next]_vars
               PROVE  AttemptExclusive'
    OBVIOUS
  <2>1. CASE Next
    BY <2>1, RowSteps, SlotSteps, ExclusiveStep
  <2>2. CASE UNCHANGED vars
    BY <2>2 DEF vars, AttemptExclusive, Active
  <2> QED BY <2>1, <2>2
<1> QED BY <1>1, <1>2, TypeCorrect, RowsAreCoherent, PTL DEF Spec

-----------------------------------------------------------------------------
\* Who ends an attempt.

LEMMA OwnerStep ==
  ASSUME TypeOK, TableStep, NEW r \in Runs PROVE EndedByOwner(r)
<1> SUFFICES ASSUME runs[r].status = "RUNNING", runs[r].last_heartbeat_at = "fresh",
                    runs'[r].status # "RUNNING"
             PROVE  \E w \in Workers, s \in Slots, p \in {"finish", "fail", "release"} :
                      EndsBy(w, s, r, p)
  BY DEF EndedByOwner, EndsBy, Owns
<1>1. RowStep(r) /\ runs[r] \in Row
  BY DEF TableStep, TypeOK, StoreTypeOK
<1>2. \A h \in {"fresh", "stale"} :
        [runs[r] EXCEPT !.last_heartbeat_at = h].status = "RUNNING"
  BY <1>1 DEF Row
<1> QED BY <1>1, <1>2 DEF RowStep, Claimable, Stale

\* While an attempt's heartbeat is fresh, only the goroutine that executes it
\* ends it.
THEOREM OwnersEndAttempts == Spec => OwnerEndsAttempt
<1>1. TypeOK /\ [Next]_vars => [\A r \in Runs : EndedByOwner(r)]_vars
  BY RowSteps, OwnerStep
<1> QED BY <1>1, TypeCorrect, PTL DEF Spec, OwnerEndsAttempt

-----------------------------------------------------------------------------
\* The backoff of a retry.

\* What a maintenance pass may pick up for dispatch.
Picked == Stale \cup DueForRetry \cup Stuck

\* A statement returns a part of what it selected.
LEMMA ReturnsPicked ==
  ASSUME TypeOK, NEW w \in Workers, NEW found \in SUBSET Picked, Returns(w, found),
         NEW v \in Workers
  PROVE  maint'[v].pending \subseteq maint[v].pending \cup Picked
<1>1. maint[w] \in Maint /\ maint[v] \in Maint
  BY DEF TypeOK, WorkerTypeOK
<1>2. CASE v = w
  <2>1. maint'[w].pending \in {found, maint[w].pending}
    BY <1>1 DEF Returns, Maint, TypeOK, WorkerTypeOK
  <2> QED BY <1>2, <2>1
<1>3. CASE v # w
  BY <1>1, <1>3 DEF Returns, TypeOK, WorkerTypeOK
<1> QED BY <1>2, <1>3

LEMMA MaintainPicks ==
  ASSUME TypeOK, NEW w \in Workers, Maintain(w), NEW v \in Workers
  PROVE  maint'[v].pending \subseteq maint[v].pending \cup Picked
<1>1. CASE Reap(w)
  <2>1. PICK B \in Limited(Stale) : Returns(w, {r \in B : ~Exhausted(r)})
    BY <1>1 DEF Reap
  <2>2. {r \in B : ~Exhausted(r)} \in SUBSET Picked
    BY DEF Limited, Picked
  <2> QED BY <2>1, <2>2, ReturnsPicked
<1>2. CASE DispatchRetries(w)
  <2>1. PICK B \in Limited(DueForRetry) : Returns(w, B)
    BY <1>2 DEF DispatchRetries
  <2>2. B \in SUBSET Picked
    BY DEF Limited, Picked
  <2> QED BY <2>1, <2>2, ReturnsPicked
<1>3. CASE Sweep(w)
  <2>1. PICK B \in Limited(Stuck) : Returns(w, B)
    BY <1>3 DEF Sweep
  <2>2. B \in SUBSET Picked
    BY DEF Limited, Picked
  <2> QED BY <2>1, <2>2, ReturnsPicked
<1>4. CASE MaintenanceError(w)
  <2>1. maint[w] \in Maint /\ maint[v] \in Maint
    BY DEF TypeOK, WorkerTypeOK
  <2>2. maint'[v].pending = maint[v].pending
    BY <1>4, <2>1 DEF MaintenanceError, Maint, TypeOK, WorkerTypeOK
  <2> QED BY <2>2
<1>5. CASE \E r \in Runs : Redispatch(w, r)
  <2>1. PICK r \in Runs : Redispatch(w, r)
    BY <1>5
  <2>2. maint[w] \in Maint /\ maint[v] \in Maint
    BY DEF TypeOK, WorkerTypeOK
  <2>3. maint'[v].pending \subseteq maint[v].pending
    BY <2>1, <2>2 DEF Redispatch, Maint, TypeOK, WorkerTypeOK
  <2> QED BY <2>3
<1> QED BY <1>1, <1>2, <1>3, <1>4, <1>5 DEF Maintain

\* Nothing but a maintenance pass picks up runs; a pass that starts has none.
LEMMA PickedStep ==
  ASSUME TypeOK, [Next]_vars, NEW v \in Workers
  PROVE  maint'[v].pending \subseteq maint[v].pending \cup Picked
<1>1. CASE \/ UNCHANGED vars \/ ApiCrash
           \/ \E r \in Runs : QueueRun(r) \/ TimePasses(r)
  <2>1. maint' = maint
    BY <1>1 DEF vars, ApiCrash, QueueRun, TimePasses
  <2> QED BY <2>1
<1>2. ASSUME NEW w \in Workers, WorkerNext(w)
      PROVE  maint'[v].pending \subseteq maint[v].pending \cup Picked
  <2>1. CASE Maintain(w)
    BY <2>1, MaintainPicks
  <2>2. CASE Lifecycle(w)
    <3>1. \/ maint' = maint \/ maint' = [maint EXCEPT ![w] = NewMaint]
      BY <2>2 DEF Lifecycle, Sigterm, StopConsuming, FetchFails, GraceOver, Exit,
         Crash, Restart
    <3>2. maint'[v] \in {maint[v], NewMaint}
      BY <3>1 DEF TypeOK, WorkerTypeOK
    <3> QED BY <3>2 DEF NewMaint
  <2>3. CASE \E s \in Slots : Execute(w, s) \/ \E r \in Runs : Consume(w, s, r)
    <3>1. maint' = maint
      BY <2>3 DEF Execute, Consume, LoadJob, HeartbeatTick, Timeout, JobSucceeds,
         JobFails, Succeed, Fail, Release, Handoff
    <3> QED BY <3>1
  <2> QED BY <1>2, <2>1, <2>2, <2>3 DEF WorkerNext
<1> QED BY <1>1, <1>2 DEF Next

\* What may become of the row of a retry that waits.
LEMMA WaitingRow ==
  ASSUME TypeOK, TableStep, NEW r \in Runs,
         runs[r].status = "QUEUED", runs[r].next_attempt_at = "future"
  PROVE  \/ /\ runs'[r].status = "QUEUED" /\ runs'[r].attempt = runs[r].attempt
            /\ runs'[r].next_attempt_at \in {"future", "due"}
         \/ runs'[r].status = "FAILED" /\ req[r] = "undispatched"
<1>1. RowStep(r) /\ runs[r] \in Row
  BY DEF TableStep, TypeOK, StoreTypeOK
<1>2. ~Claimable(r) /\ r \notin Stale
  BY DEF Claimable, Stale
<1>3. \A w \in Workers, s \in Slots, p \in {"finish", "fail", "release"} :
        ~EndsBy(w, s, r, p)
  BY DEF EndsBy, Owns
<1>4. /\ \A t \in {"fresh", "old"} :
           LET row == [runs[r] EXCEPT !.queued_at = t] IN
           /\ row.status = "QUEUED" /\ row.attempt = runs[r].attempt
           /\ row.next_attempt_at = "future"
      /\ LET row == [runs[r] EXCEPT !.next_attempt_at = "due"] IN
         /\ row.status = "QUEUED" /\ row.attempt = runs[r].attempt
         /\ row.next_attempt_at = "due"
      /\ [runs[r] EXCEPT !.status = "FAILED", !.finished_at = "set"].status = "FAILED"
  BY <1>1 DEF Row
<1> QED BY <1>1, <1>2, <1>3, <1>4 DEF RowStep

\* A retry is neither claimed nor picked up for dispatch before its backoff ends,
\* whatever stray messages name it.
THEOREM BackoffsAreHeld == Spec => BackoffHeld
<1>1. TypeOK /\ [Next]_vars => [\A r \in Runs : BackoffKept(r)]_vars
  <2> SUFFICES ASSUME TypeOK, Next, NEW r \in Runs,
                      runs[r].status = "QUEUED", runs[r].next_attempt_at = "future"
               PROVE  BackoffKept(r)
    BY DEF BackoffKept
  <2>1. r \notin Picked
    BY DEF Picked, Stale, DueForRetry, Stuck
  <2>2. \A w \in Workers : r \in maint'[w].pending => r \in maint[w].pending
    BY <2>1, PickedStep
  <2> QED BY <2>2, RowSteps, WaitingRow DEF BackoffKept
<1> QED BY <1>1, TypeCorrect, PTL DEF Spec, BackoffHeld

-----------------------------------------------------------------------------
\* Refinement.

\* The moves of an entry, written out.
LEMMA LedgerMoves ==
  ASSUME NEW a \in Nat, NEW o
  PROVE  /\ [status |-> "QUEUED", attempt |-> 1, output |-> 0]
              \in Ledger!Moves([status |-> "ABSENT", attempt |-> a, output |-> o])
         /\ \A st \in {"RUNNING", "FAILED"} :
              [status |-> st, attempt |-> a, output |-> o]
                \in Ledger!Moves([status |-> "QUEUED", attempt |-> a, output |-> o])
         /\ {[status |-> "QUEUED", attempt |-> a + 1, output |-> o],
             [status |-> "FAILED", attempt |-> a, output |-> o],
             [status |-> "SUCCEEDED", attempt |-> a, output |-> a]}
              \subseteq Ledger!Moves([status |-> "RUNNING", attempt |-> a, output |-> o])
<1>1. Ledger!Moves([status |-> "ABSENT", attempt |-> a, output |-> o])
        = {[status |-> "QUEUED", attempt |-> 1, output |-> 0]}
  BY DEF Ledger!Moves, Ledger!Entry
<1>2. Ledger!Moves([status |-> "QUEUED", attempt |-> a, output |-> o])
        = {[status |-> "RUNNING", attempt |-> a, output |-> o],
           [status |-> "FAILED", attempt |-> a, output |-> o]}
  BY DEF Ledger!Moves, Ledger!Entry
<1>3. Ledger!Moves([status |-> "RUNNING", attempt |-> a, output |-> o])
        = {[status |-> "QUEUED", attempt |-> a + 1, output |-> o],
           [status |-> "FAILED", attempt |-> a, output |-> o],
           [status |-> "SUCCEEDED", attempt |-> a, output |-> a]}
  BY DEF Ledger!Moves, Ledger!Entry
<1> QED BY <1>1, <1>2, <1>3

LEMMA LedgerStep ==
  ASSUME TypeOK, TableStep PROVE Ledger!Next
<1> DEFINE L(row) == [status |-> row.status, attempt |-> row.attempt,
                      output |-> row.output]
<1> SUFFICES ASSUME NEW r \in Runs
             PROVE  L(runs'[r]) \in Ledger!Moves(L(runs[r])) \cup {L(runs[r])}
  BY DEF Ledger!Next
<1> DEFINE old == runs[r]
           new == runs'[r]
<1>1. old \in Row /\ RowStep(r) /\ old.attempt \in Nat
  BY DEF TypeOK, StoreTypeOK, Row, TableStep
<1>2. CASE L(new) = L(old)
  BY <1>2
<1>3. CASE old.status = "ABSENT" /\ new = NewRow
  <2>1. new.status = "QUEUED" /\ new.attempt = 1 /\ new.output = 0
    BY <1>3 DEF NewRow
  <2> QED BY <1>1, <1>3, <2>1, LedgerMoves
<1>4. CASE Claimable(r) /\ \E w \in Workers : new = ClaimedRow(r, w)
  <2>1. /\ old.status = "QUEUED" /\ new.status = "RUNNING"
        /\ new.attempt = old.attempt /\ new.output = old.output
    BY <1>1, <1>4 DEF Claimable, ClaimedRow, Row
  <2> QED BY <1>1, <2>1, LedgerMoves
<1>5. CASE old.status = "RUNNING" /\ new = FinishedRow(r, old.attempt)
  <2>1. /\ new.status = "SUCCEEDED"
        /\ new.attempt = old.attempt /\ new.output = old.attempt
    BY <1>1, <1>5 DEF FinishedRow, Row
  <2> QED BY <1>1, <1>5, <2>1, LedgerMoves
<1>6. ASSUME old.status = "RUNNING",
             new = FailedOrRetriedRow(r) \/ new = ReapedRow(r), Exhausted(r)
      PROVE  L(new) \in Ledger!Moves(L(old))
  <2>1. new.status = "FAILED" /\ new.attempt = old.attempt /\ new.output = old.output
    <3>1. CASE new = FailedOrRetriedRow(r)
      BY <1>1, <1>6, <3>1 DEF FailedOrRetriedRow, Row
    <3>2. CASE new = ReapedRow(r)
      BY <1>1, <1>6, <3>2 DEF ReapedRow, Row
    <3> QED BY <1>6, <3>1, <3>2
  <2> QED BY <1>1, <1>6, <2>1, LedgerMoves
<1>7. ASSUME old.status = "RUNNING",
             \/ new = ReleasedRow(r)
             \/ new \in {FailedOrRetriedRow(r), ReapedRow(r)} /\ ~Exhausted(r)
      PROVE  L(new) \in Ledger!Moves(L(old))
  <2>1. new.status = "QUEUED" /\ new.attempt = old.attempt + 1 /\ new.output = old.output
    <3>1. CASE new = ReleasedRow(r)
      BY <1>1, <3>1 DEF ReleasedRow, Row
    <3>2. CASE new = FailedOrRetriedRow(r) /\ ~Exhausted(r)
      BY <1>1, <3>2 DEF FailedOrRetriedRow, Row
    <3>3. CASE new = ReapedRow(r) /\ ~Exhausted(r)
      BY <1>1, <3>3 DEF ReapedRow, Row
    <3> QED BY <1>7, <3>1, <3>2, <3>3
  <2> QED BY <1>1, <1>7, <2>1, LedgerMoves
<1>8. CASE /\ old.status = "QUEUED"
           /\ new = [old EXCEPT !.status = "FAILED", !.finished_at = "set"]
  <2>1. new.status = "FAILED" /\ new.attempt = old.attempt /\ new.output = old.output
    BY <1>1, <1>8 DEF Row
  <2> QED BY <1>1, <1>8, <2>1, LedgerMoves
<1>9. /\ \A h \in {"fresh", "stale"} : L([old EXCEPT !.last_heartbeat_at = h]) = L(old)
      /\ \A t \in {"fresh", "old"} : L([old EXCEPT !.queued_at = t]) = L(old)
      /\ L([old EXCEPT !.next_attempt_at = "due"]) = L(old)
      /\ L([old EXCEPT !.next_attempt_at = "null", !.queued_at = "fresh"]) = L(old)
  BY <1>1 DEF Row
<1>10. /\ \A w \in Workers, s \in Slots, p \in {"finish", "fail", "release"} :
            EndsBy(w, s, r, p) => old.status = "RUNNING"
       /\ r \in Stale => old.status = "RUNNING"
  BY DEF EndsBy, Owns, Stale
<1> HIDE DEF L
<1> QED
  BY <1>1, <1>2, <1>3, <1>4, <1>5, <1>6, <1>7, <1>8, <1>9, <1>10 DEF RowStep

\* The system implements RunLedger: runs go through the statuses and attempts
\* it allows, and no others.
THEOREM ImplementsLedger == Spec => LedgerSpec
<1>1. Init => Ledger!Init
  BY DEF Init, StoreInit, AbsentRow, NewRow, Ledger!Init, Ledger!Absent,
     Ledger!Entry
<1>2. TypeOK /\ [Next]_vars
        => [Ledger!Next]_[r \in Runs |-> [status |-> runs[r].status,
                                          attempt |-> runs[r].attempt,
                                          output |-> runs[r].output]]
  BY RowSteps, LedgerStep DEF vars
<1> QED BY <1>1, <1>2, TypeCorrect, PTL DEF Spec, LedgerSpec, Ledger!Spec

-----------------------------------------------------------------------------
\* The number of attempts.

\* Times a worker was told to stop or lost its consumer.
Stops == faults["sigterm"] + faults["fetch"]

Draining(w) == proc[w].stage \in {"grace", "handback"} \/ proc[w].ctx = "done"

\* Only a worker whose grace period is over hands runs back.
HandbackInv ==
  \A w \in Workers, s \in Slots :
    exec[w][s].phase = "release" \/ exec[w][s].cause = "shutdown"
      => proc[w].stage = "handback"

\* The hand-back a draining worker may still make is within the budget.
DrainInv ==
  \A w \in Workers, s \in Slots :
    /\ Active(w, s)
    /\ Owns(exec[w][s].run, w, exec[w][s].attempt)
    /\ Draining(w)
    => runs[exec[w][s].run].attempt <= MaxRetries[exec[w][s].run] + Stops

LEMMA StopsStep ==
  ASSUME TypeOK, Next
  PROVE  /\ Stops \in Nat /\ Stops' \in Nat /\ Stops' >= Stops
         /\ \A w \in Workers : Draining(w)' => Draining(w) \/ Stops' > Stops
<1>1. /\ faults \in [FaultKinds -> Nat] /\ faults' \in [FaultKinds -> Nat]
      /\ proc \in [Workers -> Proc]
  BY TypeStep DEF TypeOK, FaultsTypeOK, WorkerTypeOK
<1>2. Stops \in Nat /\ Stops' \in Nat
  BY <1>1 DEF Stops, FaultKinds
<1>3. ASSUME NEW k \in FaultKinds, Fault(k)
      PROVE  Stops' >= Stops /\ (k \in {"sigterm", "fetch"} => Stops' > Stops)
  BY <1>1, <1>3 DEF Fault, Stops, FaultKinds
<1>4. UNCHANGED faults => Stops' = Stops
  BY DEF Stops
<1>5. ASSUME NEW w \in Workers, Sigterm(w) \/ FetchFails(w) \/ GraceOver(w) \/ Exit(w)
                                  \/ Crash(w) \/ Restart(w) \/ StopConsuming(w)
      PROVE  /\ Stops' >= Stops
             /\ \A v \in Workers : Draining(v)' => Draining(v) \/ Stops' > Stops
  <2>1. CASE Sigterm(w) \/ FetchFails(w)
    <3>1. Stops' > Stops
      BY <1>3, <2>1 DEF Sigterm, FetchFails, FaultKinds
    <3> QED BY <1>2, <3>1
  <2>2. CASE GraceOver(w) \/ StopConsuming(w)
    BY <1>1, <1>2, <1>4, <2>2 DEF GraceOver, StopConsuming, Draining, Proc
  <2>3. CASE Exit(w) \/ Crash(w)
    BY <1>1, <1>2, <1>3, <1>4, <2>3 DEF Exit, Crash, Draining, Proc, FaultKinds
  <2>4. CASE Restart(w)
    BY <1>1, <1>2, <1>4, <2>4 DEF Restart, Draining, Proc
  <2> QED BY <1>5, <2>1, <2>2, <2>3, <2>4
<1>6. CASE UNCHANGED proc /\ (UNCHANGED faults \/ \E k \in FaultKinds : Fault(k))
  BY <1>2, <1>3, <1>4, <1>6 DEF Draining
<1>7. CASE ApiCrash \/ \E r \in Runs : QueueRun(r)
  BY <1>6, <1>7 DEF QueueRun, TriggerRun, FireJob, Insert, DispatchManual,
     FailUndispatched, DispatchFired, ApiCrash, FaultKinds
<1>8. CASE \E r \in Runs : TimePasses(r)
  BY <1>6, <1>8 DEF TimePasses
<1>9. ASSUME NEW w \in Workers, WorkerNext(w), ~Lifecycle(w)
      PROVE  UNCHANGED proc /\ (UNCHANGED faults \/ \E k \in FaultKinds : Fault(k))
  <2>1. CASE Maintain(w)
    BY <2>1 DEF Maintain, Reap, DispatchRetries, Sweep, MaintenanceError, Redispatch,
       Returns, Fails, FaultKinds
  <2>2. CASE \E s \in Slots, r \in Runs : Consume(w, s, r)
    BY <2>2 DEF Consume, CommitMessage, Fails, FaultKinds
  <2>3. CASE \E s \in Slots : Execute(w, s)
    BY <2>3 DEF Execute, LoadJob, HeartbeatTick, Timeout, JobSucceeds,
       WriteOutputFile, JobFails, Succeed, Fail, Release, Handoff, FaultKinds
  <2> QED BY <1>9, <2>1, <2>2, <2>3 DEF WorkerNext
<1>10. CASE \E w \in Workers : WorkerNext(w)
  BY <1>2, <1>5, <1>6, <1>9, <1>10 DEF Lifecycle
<1> QED BY <1>2, <1>7, <1>8, <1>10 DEF Next

LEMMA HandbackStep ==
  ASSUME TypeOK, HandbackInv, Next PROVE HandbackInv'
<1>0. /\ exec \in [Workers -> [Slots -> Exec]] /\ proc \in [Workers -> Proc]
      /\ Idle.phase # "release" /\ Idle.cause # "shutdown"
  BY DEF TypeOK, WorkerTypeOK, Idle
<1>1. CASE UNCHANGED <<exec, proc>>
  BY <1>1 DEF HandbackInv
<1>2. ASSUME NEW w \in Workers, NEW s \in Slots, NEW r \in Runs, Consume(w, s, r)
      PROVE  HandbackInv'
  <2>1. UNCHANGED proc
    BY <1>2 DEF Consume
  <2>2. ASSUME NEW v \in Workers, NEW t \in Slots
        PROVE  \/ exec'[v][t] = exec[v][t]
               \/ exec'[v][t].phase # "release" /\ exec'[v][t].cause # "shutdown"
    BY <1>0, <1>2 DEF Consume, AfterClaim
  <2> QED BY <2>1, <2>2 DEF HandbackInv
<1>3. ASSUME NEW w \in Workers, NEW s \in Slots, Execute(w, s) PROVE HandbackInv'
  <2>1. UNCHANGED proc
    BY <1>3 DEF Execute, LoadJob, HeartbeatTick, Timeout, JobSucceeds,
       WriteOutputFile, JobFails, Succeed, Fail, Release, Handoff
  <2>2. \A v \in Workers, t \in Slots : v # w \/ t # s => exec'[v][t] = exec[v][t]
    BY <1>0, <1>3 DEF Execute, LoadJob, HeartbeatTick, Timeout, JobSucceeds,
       WriteOutputFile, JobFails, Succeed, Fail, Release, Handoff, Goto, Cancel, Done
  <2>3. Active(w, s)
    BY <1>3 DEF Execute, LoadJob, HeartbeatTick, Timeout, JobSucceeds,
       WriteOutputFile, JobFails, Succeed, Fail, Release, Handoff, Active
  <2>4. exec[w][s] \in [phase : Phases, run : Runs, attempt : Nat, cause : Causes]
    BY <2>3, ActiveType
  <2>5. exec'[w][s].phase = "release" \/ exec'[w][s].cause = "shutdown"
          => proc[w].stage = "handback"
    <3>1. CASE LoadJob(w, s)
      BY <1>0, <2>4, <3>1 DEF LoadJob, Goto, HandbackInv
    <3>2. CASE HeartbeatTick(w, s) \/ Timeout(w, s)
      BY <1>0, <2>4, <3>2 DEF HeartbeatTick, Timeout, Cancel, HandbackInv
    <3>3. CASE JobFails(w, s) \/ JobSucceeds(w, s)
      BY <1>0, <2>4, <3>3 DEF JobFails, JobSucceeds, Goto, Done, HandbackInv
    <3>4. CASE Succeed(w, s) \/ Fail(w, s) \/ Release(w, s) \/ Handoff(w, s)
      BY <1>0, <2>4, <3>4 DEF Succeed, Fail, Release, Handoff, Goto, Done
    <3> QED BY <1>3, <3>1, <3>2, <3>3, <3>4 DEF Execute
  <2> QED BY <2>1, <2>2, <2>5 DEF HandbackInv
<1>4. ASSUME NEW w \in Workers, Lifecycle(w) PROVE HandbackInv'
  <2>1. CASE GraceOver(w)
    BY <1>0, <2>1 DEF GraceOver, HandbackInv, Proc
  <2>2. CASE Crash(w)
    BY <1>0, <2>2 DEF Crash, HandbackInv
  <2>3. CASE Exit(w)
    <3>1. \A s \in Slots : exec[w][s] = Idle
      BY <1>0, <2>3 DEF Exit, Active, Exec, Phases
    <3> QED BY <1>0, <2>3, <3>1 DEF Exit, HandbackInv
  <2>4. CASE Sigterm(w) \/ StopConsuming(w) \/ FetchFails(w) \/ Restart(w)
    BY <1>0, <2>4 DEF Sigterm, StopConsuming, FetchFails, Restart, HandbackInv, Proc
  <2> QED BY <1>4, <2>1, <2>2, <2>3, <2>4 DEF Lifecycle
<1>5. ASSUME NEW w \in Workers, Maintain(w) PROVE HandbackInv'
  BY <1>1, <1>5 DEF Maintain, Reap, DispatchRetries, Sweep, MaintenanceError, Redispatch
<1>6. CASE ApiCrash \/ \E r \in Runs : QueueRun(r) \/ TimePasses(r)
  BY <1>1, <1>6 DEF QueueRun, ApiCrash, TimePasses
<1> QED BY <1>2, <1>3, <1>4, <1>5, <1>6 DEF Next, WorkerNext

\* An attempt number that grows stays within max_retries + 1, unless a worker
\* hands the run back.  A FAILED row stays FAILED.
LEMMA RowBudget ==
  ASSUME TypeOK, RowsCoherent, TableStep, NEW r \in Runs
  PROVE  /\ \/ runs'[r].attempt = runs[r].attempt
            \/ runs'[r].attempt <= MaxRetries[r] + 1
            \/ /\ runs'[r].attempt = runs[r].attempt + 1
               /\ \E w \in Workers, s \in Slots : EndsBy(w, s, r, "release")
         /\ runs[r].status = "FAILED" => runs'[r] = runs[r]
<1>1. /\ runs[r] \in Row /\ runs[r].attempt \in Nat /\ MaxRetries[r] \in Nat
      /\ RowStep(r)
  BY StoreAssumption DEF TypeOK, StoreTypeOK, Row, TableStep
<1>2. /\ \A w \in Workers, s \in Slots, p \in {"finish", "fail", "release"} :
           EndsBy(w, s, r, p) => runs[r].status = "RUNNING"
      /\ r \in Stale => runs[r].status = "RUNNING"
      /\ Claimable(r) => runs[r].status = "QUEUED"
  BY DEF EndsBy, Owns, Stale, Claimable
<1>3. /\ NewRow.attempt = 1
      /\ \A w \in Workers : ClaimedRow(r, w).attempt = runs[r].attempt
      /\ FinishedRow(r, runs[r].attempt).attempt = runs[r].attempt
      /\ ReleasedRow(r).attempt = runs[r].attempt + 1
  BY <1>1 DEF NewRow, ClaimedRow, FinishedRow, ReleasedRow, Row
<1>4. /\ FailedOrRetriedRow(r).attempt = runs[r].attempt
           \/ FailedOrRetriedRow(r).attempt <= MaxRetries[r] + 1
      /\ ReapedRow(r).attempt = runs[r].attempt
           \/ ReapedRow(r).attempt <= MaxRetries[r] + 1
  <2>1. CASE Exhausted(r)
    BY <1>1, <2>1 DEF FailedOrRetriedRow, ReapedRow, Row
  <2>2. CASE ~Exhausted(r)
    <3>1. /\ FailedOrRetriedRow(r).attempt = runs[r].attempt + 1
          /\ ReapedRow(r).attempt = runs[r].attempt + 1
      BY <1>1, <2>2 DEF FailedOrRetriedRow, ReapedRow, Row
    <3>2. runs[r].attempt <= MaxRetries[r]
      BY <1>1, <2>2 DEF Exhausted
    <3> QED BY <1>1, <3>1, <3>2
  <2> QED BY <2>1, <2>2
<1>5. /\ \A h \in {"fresh", "stale"} :
           [runs[r] EXCEPT !.last_heartbeat_at = h].attempt = runs[r].attempt
      /\ \A t \in {"fresh", "old"} :
           [runs[r] EXCEPT !.queued_at = t].attempt = runs[r].attempt
      /\ [runs[r] EXCEPT !.next_attempt_at = "due"].attempt = runs[r].attempt
      /\ [runs[r] EXCEPT !.next_attempt_at = "null", !.queued_at = "fresh"].attempt
           = runs[r].attempt
      /\ [runs[r] EXCEPT !.status = "FAILED", !.finished_at = "set"].attempt
           = runs[r].attempt
  BY <1>1 DEF Row
<1>6. 1 <= MaxRetries[r] + 1
  BY <1>1
<1> QED BY <1>1, <1>2, <1>3, <1>4, <1>5, <1>6 DEF RowStep

BudgetInv == RetryBudget /\ DrainInv /\ HandbackInv

LEMMA BudgetStep ==
  ASSUME TypeOK, RowsCoherent, AttemptExclusive, BudgetInv, Next
  PROVE  BudgetInv'
<1>1. TableStep /\ \A w \in Workers, s \in Slots : SlotStep(w, s)
  BY RowSteps, SlotSteps
<1>2. /\ Stops \in Nat /\ Stops' \in Nat /\ Stops' >= Stops
      /\ \A w \in Workers : Draining(w)' => Draining(w) \/ Stops' > Stops
  BY StopsStep
<1>3. /\ \A r \in Runs : runs[r].attempt \in Nat /\ MaxRetries[r] \in Nat
      /\ \A r \in Runs : runs'[r].attempt \in Nat
  BY <1>1, RowProgress, StoreAssumption DEF TypeOK, StoreTypeOK, Row
<1>4. \A r \in Runs : runs[r].attempt <= MaxRetries[r] + 1 + Stops
  <2>1. faults["sigterm"] \in Nat /\ faults["fetch"] \in Nat
    BY DEF TypeOK, FaultsTypeOK, FaultKinds
  <2> QED BY <1>3, <2>1 DEF BudgetInv, RetryBudget, Stops
<1>5. HandbackInv'
  BY HandbackStep DEF BudgetInv
<1>6. RetryBudget'
  <2>1. ASSUME NEW r \in Runs PROVE runs'[r].attempt <= MaxRetries[r] + 1 + Stops'
    <3>1. CASE \E w \in Workers, s \in Slots : EndsBy(w, s, r, "release")
      <4>1. PICK w \in Workers, s \in Slots : EndsBy(w, s, r, "release")
        BY <3>1
      <4>2. Active(w, s) /\ Owns(exec[w][s].run, w, exec[w][s].attempt) /\ Draining(w)
        BY <4>1 DEF EndsBy, Active, BudgetInv, HandbackInv, Draining
      <4>3. runs[r].attempt <= MaxRetries[r] + Stops
        BY <4>1, <4>2 DEF BudgetInv, DrainInv, EndsBy
      <4> QED BY <1>1, <1>2, <1>3, <1>4, <4>3, RowBudget
    <3>2. CASE ~ \E w \in Workers, s \in Slots : EndsBy(w, s, r, "release")
      <4>1. runs'[r].attempt = runs[r].attempt \/ runs'[r].attempt <= MaxRetries[r] + 1
        BY <1>1, <3>2, RowBudget
      <4> QED BY <1>2, <1>3, <1>4, <4>1
    <3> QED BY <3>1, <3>2
  <2>2. faults'["sigterm"] \in Nat /\ faults'["fetch"] \in Nat
    BY TypeStep DEF TypeOK, FaultsTypeOK, FaultKinds
  <2> QED BY <1>3, <2>1, <2>2 DEF RetryBudget, Stops
<1>7. DrainInv'
  <2> SUFFICES ASSUME NEW w \in Workers, NEW s \in Slots, Active(w, s)',
                      Owns(exec[w][s].run, w, exec[w][s].attempt)', Draining(w)'
               PROVE  runs'[exec'[w][s].run].attempt
                        <= MaxRetries[exec'[w][s].run] + Stops'
    BY DEF DrainInv
  <2>1. ~SlotFreed(w, s)
    BY DEF Active, SlotFreed, Idle
  <2>2. \A r \in Runs : ~SlotClaims(w, s, r)
    BY DEF SlotClaims, Draining
  <2>3. SlotKept(w, s)
    BY <1>1, <2>1, <2>2 DEF SlotStep
  <2> DEFINE r == exec[w][s].run
  <2>4. /\ r \in Runs /\ Active(w, s) /\ exec[w][s].attempt \in Nat
        /\ exec'[w][s].run = r /\ exec'[w][s].attempt = exec[w][s].attempt
    BY <2>3, ActiveType DEF SlotKept
  <2>5. runs'[r].attempt = exec[w][s].attempt /\ runs'[r].status = "RUNNING"
    BY <2>4 DEF Owns
  <2>6. exec[w][s].attempt <= runs[r].attempt /\ runs'[r].attempt >= runs[r].attempt
    BY <1>1, <2>4, RowProgress DEF AttemptExclusive
  <2>7. runs[r].attempt = exec[w][s].attempt
    BY <1>3, <2>4, <2>5, <2>6
  <2>8. runs[r].worker_id = w /\ runs[r].status \in {"RUNNING", "FAILED"}
    BY <2>4, <2>7 DEF AttemptExclusive
  <2>9. Owns(r, w, exec[w][s].attempt)
    <3>1. runs[r].status # "FAILED"
      BY <1>1, <2>4, <2>5, RowBudget
    <3> QED BY <2>7, <2>8, <3>1 DEF Owns
  <2>10. CASE Draining(w)
    BY <1>2, <1>3, <2>4, <2>5, <2>7, <2>9, <2>10 DEF BudgetInv, DrainInv
  <2>11. CASE Stops' > Stops
    BY <1>2, <1>3, <1>4, <2>4, <2>5, <2>7, <2>11
  <2> QED BY <1>2, <2>10, <2>11
<1> QED BY <1>5, <1>6, <1>7 DEF BudgetInv

\* A run makes at most max_retries + 1 attempts, and one more for each time a
\* worker was told to stop or lost its consumer.
THEOREM RetriesAreBounded == Spec => []RetryBudget
<1>1. Init => BudgetInv
  <2> SUFFICES ASSUME Init PROVE BudgetInv
    OBVIOUS
  <2>1. \A r \in Runs : runs[r].attempt = 0 /\ MaxRetries[r] \in Nat
    BY StoreAssumption DEF Init, StoreInit, AbsentRow, NewRow
  <2>2. faults["sigterm"] = 0 /\ faults["fetch"] = 0
    BY DEF Init, FaultsInit, FaultKinds
  <2>3. RetryBudget
    BY <2>1, <2>2 DEF RetryBudget
  <2>4. \A w \in Workers, s \in Slots : exec[w][s] = Idle
    BY DEF Init, WorkerInit
  <2>5. DrainInv /\ HandbackInv
    BY <2>4 DEF DrainInv, HandbackInv, Active, Idle
  <2> QED BY <2>3, <2>5 DEF BudgetInv
<1>2. TypeOK /\ RowsCoherent /\ AttemptExclusive /\ BudgetInv /\ [Next]_vars => BudgetInv'
  <2> SUFFICES ASSUME TypeOK, RowsCoherent, AttemptExclusive, BudgetInv, [Next]_vars
               PROVE  BudgetInv'
    OBVIOUS
  <2>1. CASE Next
    BY <2>1, BudgetStep
  <2>2. CASE UNCHANGED vars
    BY <2>2 DEF vars, BudgetInv, RetryBudget, DrainInv, HandbackInv, Active, Owns,
       Draining, Stops
  <2> QED BY <2>1, <2>2
<1>3. BudgetInv => RetryBudget
  BY DEF BudgetInv
<1> QED BY <1>1, <1>2, <1>3, TypeCorrect, RowsAreCoherent, AttemptsAreExclusive, PTL DEF Spec
=============================================================================
