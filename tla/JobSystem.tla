----------------------------- MODULE JobSystem ------------------------------
(***************************************************************************)
(* The composed system: the API handler and the scheduler that queue runs, *)
(* the topic, the table and the worker pool.  Each run is queued once, by  *)
(* one request or one cron occurrence, so the state of the goroutine that  *)
(* queues it is kept per run.                                              *)
(***************************************************************************)
EXTENDS Worker

VARIABLE req   \* how far the goroutine that queues each run has got

vars == <<runs, topic, faults, proc, exec, maint, files, req>>

\* manual: handleRunJob inserted the run;  undispatched: its dispatch failed
\* fired:  the scheduler's tick inserted the run
Requests == {"none", "manual", "undispatched", "fired", "done"}

TypeOK ==
  /\ StoreTypeOK /\ QueueTypeOK /\ FaultsTypeOK /\ WorkerTypeOK
  /\ req \in [Runs -> Requests]

Init ==
  /\ StoreInit /\ QueueInit /\ FaultsInit /\ WorkerInit
  /\ req = [r \in Runs |-> "none"]

-----------------------------------------------------------------------------
\* The goroutine that queues run r.  All of these leave the workers alone.

Step(r, from, to) == req[r] = from /\ req' = [req EXCEPT ![r] = to]

\* The INSERT.  When its commit is not confirmed, the request or the tick ends
\* there although the run is queued.
Insert(r, to) ==
  /\ InsertRun(r)
  /\ \/ Step(r, "none", to) /\ UNCHANGED faults
     \/ Step(r, "none", "done") /\ Fault("db")
  /\ UNCHANGED topic

TriggerRun(r) == Insert(r, "manual")
FireJob(r)    == Insert(r, "fired")

\* handleRunJob's dispatch: 202, or on to failing the run.
DispatchManual(r) ==
  /\ \/ Step(r, "manual", "done") /\ Dispatch(r) /\ UNCHANGED faults
     \/ Step(r, "manual", "undispatched") /\ DispatchError(r) /\ Fault("kafka")
  /\ UNCHANGED runs

\* FailQueuedRun, then 502.
FailUndispatched(r) ==
  /\ Step(r, "undispatched", "done")
  /\ \/ FailQueuedRun(r) /\ UNCHANGED faults
     \/ UNCHANGED runs /\ Fault("db")
  /\ UNCHANGED topic

\* Tick's dispatch; a failure is left to the sweeper.
DispatchFired(r) ==
  /\ Step(r, "fired", "done")
  /\ \/ Dispatch(r) /\ UNCHANGED faults
     \/ DispatchError(r) /\ Fault("kafka")
  /\ UNCHANGED runs

QueueRun(r) ==
  /\ \/ TriggerRun(r) \/ DispatchManual(r) \/ FailUndispatched(r)
     \/ FireJob(r) \/ DispatchFired(r)
  /\ UNCHANGED <<proc, exec, maint, files>>

\* The API process dies, with every request and the tick it was working on.
ApiCrash ==
  /\ \E r \in Runs : req[r] \notin {"none", "done"}
  /\ req' = [r \in Runs |-> IF req[r] = "none" THEN "none" ELSE "done"]
  /\ Fault("crash")
  /\ UNCHANGED <<runs, topic, proc, exec, maint, files>>

-----------------------------------------------------------------------------

TimePasses(r) ==
  /\ AgeHeartbeat(r) \/ AgeQueued(r) \/ AgeBackoff(r)
  /\ UNCHANGED <<topic, faults, proc, exec, maint, files, req>>

Next ==
  \/ \E r \in Runs : QueueRun(r)
  \/ ApiCrash
  \/ \E w \in Workers : WorkerNext(w) /\ UNCHANGED req
  \/ \E r \in Runs : TimePasses(r)

Spec == Init /\ [][Next]_vars

-----------------------------------------------------------------------------
\* Fairness: what the code's scheduling guarantees.  Failures, job outcomes
\* and new requests are not fair; neither is a job that ignores its context.

\* A goroutine of execute goes on.  timeout_sec bounds the job, which returns
\* once its context is cancelled.
Advance(w, s) ==
  \/ LoadJob(w, s) \/ Timeout(w, s)
  \/ exec[w][s].cause # "none" /\ (JobSucceeds(w, s) \/ JobFails(w, s))
  \/ Succeed(w, s) \/ Fail(w, s) \/ Release(w, s) \/ Handoff(w, s)

\* The heartbeat of a run ages beyond STALE_AFTER when nobody refreshes it.
GoesSilent(r) ==
  /\ ~ \E w \in Workers, s \in Slots :
         /\ exec[w][s].phase = "run" /\ exec[w][s].cause = "none"
         /\ exec[w][s].run = r /\ Owns(r, w, exec[w][s].attempt)
  /\ AgeHeartbeat(r)

Elapse(Age(_), r) ==
  Age(r) /\ UNCHANGED <<topic, faults, proc, exec, maint, files, req>>

Fairness ==
  /\ \A w \in Workers :
       /\ WF_vars((\E s \in Slots, r \in Runs : Consume(w, s, r)) /\ UNCHANGED req)
       /\ WF_vars(Maintain(w) /\ UNCHANGED req)
       /\ WF_vars((StopConsuming(w) \/ GraceOver(w) \/ Exit(w) \/ Restart(w))
                    /\ UNCHANGED req)
       /\ \A s \in Slots : WF_vars(Advance(w, s) /\ UNCHANGED req)
  /\ \A r \in Runs :
       /\ WF_vars((DispatchManual(r) \/ FailUndispatched(r) \/ DispatchFired(r))
                    /\ UNCHANGED <<proc, exec, maint, files>>)
       /\ WF_vars(Elapse(AgeQueued, r))
       /\ WF_vars(Elapse(AgeBackoff, r))
       /\ WF_vars(Elapse(GoesSilent, r))

FairSpec == Spec /\ Fairness

-----------------------------------------------------------------------------
\* Invariants.

\* A row's columns agree with its status, whatever sequence of statements led
\* there.  In particular a RUNNING row has a heartbeat (the reaper's comparison
\* is never true of NULL, so without one a dead worker's run would stay RUNNING
\* for ever) and a SUCCEEDED row has the output of its own last attempt.
RowCoherent(row) ==
  /\ row.status = "ABSENT" => row = AbsentRow
  /\ row.status = "QUEUED" => /\ row.attempt > 0
                              /\ row.worker_id = NoWorker
                              /\ row.last_heartbeat_at = "null"
                              /\ row.finished_at = "null"
                              /\ row.output = 0
  /\ row.status = "RUNNING" => /\ row.attempt > 0
                               /\ row.worker_id # NoWorker
                               /\ row.last_heartbeat_at # "null"
                               /\ row.next_attempt_at = "null"
                               /\ row.finished_at = "null"
                               /\ row.output = 0
  /\ row.status = "SUCCEEDED" => /\ row.finished_at = "set"
                                 /\ row.output = row.attempt
                                 /\ row.worker_id # NoWorker
  /\ row.status = "FAILED" => row.finished_at = "set" /\ row.output = 0

RowsCoherent == \A r \in Runs : RowCoherent(runs[r])

\* An attempt is executed by one goroutine in the whole pool, whatever
\* messages are duplicated and whichever workers were reaped, restarted or
\* shut down: two slots on the same run are on different attempts, and the one
\* on the run's current attempt belongs to the worker the row names.
AttemptExclusive ==
  \A w \in Workers, s \in Slots :
    Active(w, s) =>
      LET e == exec[w][s] IN
      /\ \A v \in Workers, t \in Slots :
           /\ exec[v][t].run = e.run
           /\ exec[v][t].attempt = e.attempt
           => v = w /\ t = s
      /\ e.attempt <= runs[e.run].attempt
      /\ e.attempt = runs[e.run].attempt =>
           /\ runs[e.run].worker_id = w
           /\ runs[e.run].status \in {"RUNNING", "FAILED"}

\* Failures and lost workers take a run through at most max_retries + 1
\* attempts.  Only the hand-backs of a draining worker, which ReleaseRun makes
\* without looking at max_retries, add to that, at most one for each time a
\* worker is told to stop or loses its consumer.
RetryBudget ==
  \A r \in Runs :
    runs[r].attempt <= MaxRetries[r] + 1 + faults["sigterm"] + faults["fetch"]

-----------------------------------------------------------------------------
\* Action properties.

\* While its heartbeat is fresh, an attempt ends only by the hand of the
\* goroutine that executes this very attempt: neither a reaped worker that wakes
\* up, nor another slot of the same worker, nor a duplicate message, nor the
\* API's clean-up takes it away.
EndedByOwner(r) ==
  /\ runs[r].status = "RUNNING"
  /\ runs[r].last_heartbeat_at = "fresh"
  /\ runs'[r].status # "RUNNING"
  => \E s \in Slots :
       LET e == exec[runs[r].worker_id][s] IN
       /\ e.run = r /\ e.attempt = runs[r].attempt
       /\ e.phase \in {"finish", "fail", "release"}
       /\ exec'[runs[r].worker_id][s].phase \in {"idle", "handoff"}

OwnerEndsAttempt == [][\A r \in Runs : EndedByOwner(r)]_vars

\* README: "A retry can't be claimed before its backoff ends, even if a stray
\* message arrives early."  Until its next_attempt_at has passed, a queued retry
\* keeps its attempt, is claimed by nobody and is not picked up for dispatch;
\* only the API's failed dispatch can end it.
BackoffKept(r) ==
  runs[r].status = "QUEUED" /\ runs[r].next_attempt_at = "future" =>
    \/ /\ runs'[r].status = "QUEUED" /\ runs'[r].attempt = runs[r].attempt
       /\ runs'[r].next_attempt_at \in {"future", "due"}
       /\ \A w \in Workers : r \in maint'[w].pending => r \in maint[w].pending
    \/ runs'[r].status = "FAILED" /\ req[r] = "undispatched"

BackoffHeld == [][\A r \in Runs : BackoffKept(r)]_vars

\* The system implements the run ledger: each run goes through the statuses
\* and attempts RunLedger allows, and no others.
Ledger == INSTANCE RunLedger WITH
  ledger <- [r \in Runs |-> [status  |-> runs[r].status,
                             attempt |-> runs[r].attempt,
                             output  |-> runs[r].output]]

LedgerSpec == Ledger!Spec

-----------------------------------------------------------------------------
\* Liveness, under FairSpec.

\* Every queued run reaches a final status, whatever messages, writes, workers
\* and API processes were lost on the way.
EventuallyFinal ==
  \A r \in Runs : runs[r].status = "QUEUED" ~> runs[r].status \in Final

\* A worker that is told to stop does stop: its consumer returns, its jobs end
\* or are handed back, and its maintenance loop ends.
ShutdownCompletes ==
  \A w \in Workers : proc[w].ctx = "done" ~> proc[w].stage = "down"

-----------------------------------------------------------------------------
\* Statements of the repository that the code does not keep.

\* "FailQueuedRun marks a run that never reached a worker as failed."  Such a
\* run is at its first attempt, since only a claimed attempt is ever retried.
FailsOnlyUnclaimed ==
  \A r \in Runs :
    runs[r].status = "FAILED" /\ runs[r].worker_id = NoWorker => runs[r].attempt = 1

\* "OutputDir, if set, receives a text file of each successful run's output":
\* the file of a run that is over, if there is one, holds its output.
FileIsOutput ==
  \A r \in Runs : runs[r].status \in Final => files[r] \in {0, runs[r].output}

\* "Run consumes dispatch messages until ctx is cancelled": a consumer that
\* failed makes Run return, so that the process is started again.
FetchErrorReturns ==
  \A w \in Workers :
    proc[w].stage = "grace" /\ proc[w].ctx = "live" ~> proc[w].stage = "down"
=============================================================================
