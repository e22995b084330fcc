------------------------------ MODULE JobRuns -------------------------------
(***************************************************************************)
(* The job_runs table and the SQL statements of internal/store that write  *)
(* it.  Postgres decides who owns a run, so every guarantee of the system  *)
(* rests on the WHERE clauses and SET lists below.  Each statement is one  *)
(* atomic step.                                                            *)
(*                                                                         *)
(* The statements compare timestamps with now() only, so a timestamp is    *)
(* abstracted to the answer of that comparison: last_heartbeat_at is       *)
(* "stale" once it is older than STALE_AFTER, queued_at is "old" once it is *)
(* older than SWEEP_AFTER, next_attempt_at is "due" once it has passed.    *)
(* Time passing is the Age actions at the end.  output records which       *)
(* attempt produced it, 0 being NULL.                                      *)
(***************************************************************************)
EXTENDS Naturals, FiniteSets

CONSTANTS Runs,        \* the ids runs can get
          Workers,     \* the WORKER_IDs, unique per worker process
          NoWorker,    \* worker_id IS NULL
          MaxRetries,  \* max_retries of each run's job
          Batch        \* maintenanceBatch

ASSUME StoreAssumption ==
  /\ NoWorker \notin Workers
  /\ MaxRetries \in [Runs -> Nat]
  /\ Batch \in Nat \ {0}

VARIABLE runs          \* the table; a run not inserted yet is ABSENT

Final == {"SUCCEEDED", "FAILED"}

Row == [status            : {"ABSENT", "QUEUED", "RUNNING"} \cup Final,
        attempt           : Nat,
        worker_id         : Workers \cup {NoWorker},
        queued_at         : {"fresh", "old"},
        last_heartbeat_at : {"null", "fresh", "stale"},
        next_attempt_at   : {"null", "future", "due"},
        finished_at       : {"null", "set"},
        output            : Nat]

\* A row as INSERT ... (id, job_id, scheduled_time, trigger) leaves it.
NewRow == [status            |-> "QUEUED",
           attempt           |-> 1,
           worker_id         |-> NoWorker,
           queued_at         |-> "fresh",
           last_heartbeat_at |-> "null",
           next_attempt_at   |-> "null",
           finished_at       |-> "null",
           output            |-> 0]

AbsentRow == [NewRow EXCEPT !.status = "ABSENT", !.attempt = 0]

StoreTypeOK == runs \in [Runs -> Row]

StoreInit == runs = [r \in Runs |-> AbsentRow]

-----------------------------------------------------------------------------
\* Rows the statements select.

\* Mutant: the claim forgets next_attempt_at.
ClaimableEarly(r) == runs[r].status = "QUEUED"

Claimable(r) ==
  /\ runs[r].status = "QUEUED"
  /\ runs[r].next_attempt_at \in {"null", "due"}

\* Mutants: an owner's write that forgets one of its conditions.
OwnsAnyAttempt(r, w, a) == runs[r].worker_id = w /\ runs[r].status = "RUNNING"
OwnsAnyStatus(r, w, a)  == runs[r].worker_id = w /\ runs[r].attempt = a

\* id = $1 AND worker_id = $2 AND attempt = $3 AND status = 'RUNNING'
Owns(r, w, a) ==
  /\ runs[r].worker_id = w
  /\ runs[r].attempt = a
  /\ runs[r].status = "RUNNING"

\* Mutant: off by one.
ExhaustedLate(r) == runs[r].attempt > MaxRetries[r] + 1

Exhausted(r) == runs[r].attempt > MaxRetries[r]

\* Mutant: the reaper does not look at the heartbeat.
StaleAny == {r \in Runs : runs[r].status = "RUNNING"}

Stale == {r \in Runs : /\ runs[r].status = "RUNNING"
                       /\ runs[r].last_heartbeat_at = "stale"}

DueForRetry == {r \in Runs : /\ runs[r].status = "QUEUED"
                             /\ runs[r].next_attempt_at = "due"}

\* Mutant: next_attempt_at <= now() alone, which is not true of NULL.
StuckRetries == {r \in Runs : /\ runs[r].status = "QUEUED"
                              /\ runs[r].queued_at = "old"
                              /\ runs[r].next_attempt_at = "due"}

Stuck == {r \in Runs : /\ runs[r].status = "QUEUED"
                       /\ runs[r].queued_at = "old"
                       /\ runs[r].next_attempt_at \in {"null", "due"}}

\* LIMIT $n over a set of rows: all of them, or n when there are more.
Limited(S) ==
  {B \in SUBSET S : Cardinality(B) <= Batch /\ (B = S \/ Cardinality(B) = Batch)}

-----------------------------------------------------------------------------
\* What each statement makes of a row it selects.

\* Mutant: the claim does not count as the first heartbeat.
ClaimedSilently(r, w) ==
  [runs[r] EXCEPT !.status = "RUNNING", !.worker_id = w,
                  !.finished_at = "null", !.next_attempt_at = "null"]

ClaimedRow(r, w) ==
  [runs[r] EXCEPT !.status = "RUNNING", !.worker_id = w,
                  !.last_heartbeat_at = "fresh", !.finished_at = "null",
                  !.next_attempt_at = "null"]

\* Mutant: a status the schema does not have.
FinishedAsDone(r, a) ==
  [runs[r] EXCEPT !.status = "DONE", !.output = a, !.finished_at = "set"]

FinishedRow(r, a) ==
  [runs[r] EXCEPT !.status = "SUCCEEDED", !.output = a, !.finished_at = "set"]

FailedOrRetriedRow(r) ==
  IF Exhausted(r)
  THEN [runs[r] EXCEPT !.status = "FAILED", !.finished_at = "set",
                       !.next_attempt_at = "null"]
  ELSE [runs[r] EXCEPT !.status = "QUEUED", !.attempt = @ + 1,
                       !.finished_at = "null", !.next_attempt_at = "future",
                       !.queued_at = "fresh", !.worker_id = NoWorker,
                       !.last_heartbeat_at = "null"]

\* Mutant: the attempt handed back is executed again under its own number.
ReleasedSameAttempt(r) ==
  [runs[r] EXCEPT !.status = "QUEUED", !.worker_id = NoWorker,
                  !.last_heartbeat_at = "null", !.queued_at = "fresh"]

\* ReleaseRun does not look at max_retries and leaves next_attempt_at and
\* finished_at as they are.
ReleasedRow(r) ==
  [runs[r] EXCEPT !.status = "QUEUED", !.attempt = @ + 1,
                  !.worker_id = NoWorker, !.last_heartbeat_at = "null",
                  !.queued_at = "fresh"]

\* ReapStale leaves next_attempt_at as it is.
ReapedRow(r) ==
  IF Exhausted(r)
  THEN [runs[r] EXCEPT !.status = "FAILED", !.finished_at = "set"]
  ELSE [runs[r] EXCEPT !.status = "QUEUED", !.attempt = @ + 1,
                       !.finished_at = "null", !.queued_at = "fresh",
                       !.worker_id = NoWorker, !.last_heartbeat_at = "null"]

-----------------------------------------------------------------------------
\* The statements.

\* CreateManualRun, and the INSERT of FireDueJobs.
InsertRun(r) ==
  /\ runs[r].status = "ABSENT"
  /\ runs' = [runs EXCEPT ![r] = NewRow]

\* Updates one row, or none when its WHERE clause does not hold.
ClaimRun(r, w) ==
  runs' = [runs EXCEPT ![r] = IF Claimable(r) THEN ClaimedRow(r, w) ELSE @]

Heartbeat(r, w, a) ==
  runs' = [runs EXCEPT ![r] =
             IF Owns(r, w, a) THEN [@ EXCEPT !.last_heartbeat_at = "fresh"] ELSE @]

FinishRun(r, w, a) ==
  runs' = [runs EXCEPT ![r] = IF Owns(r, w, a) THEN FinishedRow(r, a) ELSE @]

FailOrRetry(r, w, a) ==
  runs' = [runs EXCEPT ![r] = IF Owns(r, w, a) THEN FailedOrRetriedRow(r) ELSE @]

ReleaseRun(r, w, a) ==
  runs' = [runs EXCEPT ![r] = IF Owns(r, w, a) THEN ReleasedRow(r) ELSE @]

FailQueuedRun(r) ==
  runs' = [runs EXCEPT ![r] =
             IF runs[r].status = "QUEUED"
             THEN [@ EXCEPT !.status = "FAILED", !.finished_at = "set"]
             ELSE @]

\* The maintenance statements update a batch B of the rows they select.
ReapStale(B) ==
  runs' = [r \in Runs |-> IF r \in B THEN ReapedRow(r) ELSE runs[r]]

DueRetries(B) ==
  runs' = [r \in Runs |-> IF r \in B
                          THEN [runs[r] EXCEPT !.next_attempt_at = "null",
                                               !.queued_at = "fresh"]
                          ELSE runs[r]]

SweepQueued(B) ==
  runs' = [r \in Runs |-> IF r \in B
                          THEN [runs[r] EXCEPT !.queued_at = "fresh"]
                          ELSE runs[r]]

-----------------------------------------------------------------------------
\* now() moves past a threshold.

AgeHeartbeat(r) ==
  /\ runs[r].status = "RUNNING"
  /\ runs[r].last_heartbeat_at = "fresh"
  /\ runs' = [runs EXCEPT ![r].last_heartbeat_at = "stale"]

AgeQueued(r) ==
  /\ runs[r].status = "QUEUED"
  /\ runs[r].queued_at = "fresh"
  /\ runs' = [runs EXCEPT ![r].queued_at = "old"]

AgeBackoff(r) ==
  /\ runs[r].status = "QUEUED"
  /\ runs[r].next_attempt_at = "future"
  /\ runs' = [runs EXCEPT ![r].next_attempt_at = "due"]
=============================================================================
