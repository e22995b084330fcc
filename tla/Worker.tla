------------------------------- MODULE Worker -------------------------------
(***************************************************************************)
(* internal/worker: the pool of worker processes.  Each worker runs, all   *)
(* concurrently, the consume loop (Consume), one goroutine per claimed run *)
(* (the Execute actions), a heartbeat goroutine for each of those          *)
(* (HeartbeatTick) and the maintenance loop (Maintain), and it starts,     *)
(* drains, stops and crashes (Lifecycle).                                  *)
(*                                                                         *)
(* A goroutine's local state between two of its steps is the exec record:  *)
(* the run and attempt it claimed, where in execute it is, and the cause   *)
(* its context was cancelled with.                                         *)
(***************************************************************************)
EXTENDS Queue

CONSTANTS Slots,   \* the slots of the consume loop: Concurrency of them
          NoRun    \* the run of a free slot

ASSUME WorkerAssumption == NoRun \notin Runs

VARIABLES proc,    \* where each worker's Run method is, and its ctx
          exec,    \* what each slot of each worker executes
          maint,   \* each worker's maintenance pass
          files    \* OutputDir/<run>.txt: the attempt it holds, 0 for none

workerVars == <<runs, topic, faults, proc, exec, maint, files>>

\* grace:    consume has returned, running jobs get ShutdownGrace
\* handback: the grace period is over, jobsCtx is cancelled with errShutdown
Stages == {"down", "consume", "grace", "handback"}
Proc   == [stage : Stages, ctx : {"live", "done"}]

\* load: before GetJob;  run: in job.Run;  finish, fail, release: about to
\* write the result;  handoff: released, about to dispatch the next attempt
Phases == {"load", "run", "finish", "fail", "release", "handoff"}
Causes == {"none", "lost", "shutdown", "timeout"}
Idle   == [phase |-> "idle", run |-> NoRun, attempt |-> 0, cause |-> "none"]
Exec   == [phase : Phases, run : Runs, attempt : Nat, cause : Causes] \cup {Idle}

\* next: the statement the pass runs next;  pending: what the statement just
\* run returned and the pass has still to publish
Maint    == [next : {"reap", "retry", "sweep"}, pending : SUBSET Runs]
NewMaint == [next |-> "reap", pending |-> {}]

WorkerTypeOK ==
  /\ proc  \in [Workers -> Proc]
  /\ exec  \in [Workers -> [Slots -> Exec]]
  /\ maint \in [Workers -> Maint]
  /\ files \in [Runs -> Nat]

WorkerInit ==
  /\ proc  = [w \in Workers |-> [stage |-> "consume", ctx |-> "live"]]
  /\ exec  = [w \in Workers |-> [s \in Slots |-> Idle]]
  /\ maint = [w \in Workers |-> NewMaint]
  /\ files = [r \in Runs |-> 0]

Active(w, s) == exec[w][s].phase # "idle"

\* The next phase of execute; the cause only matters while the job runs.
Goto(w, s, phase) ==
  exec' = [exec EXCEPT ![w][s].phase = phase, ![w][s].cause = "none"]
Cancel(w, s, cause) == exec' = [exec EXCEPT ![w][s].cause = cause]
Done(w, s) == exec' = [exec EXCEPT ![w][s] = Idle]

-----------------------------------------------------------------------------
\* consume: with a free slot, fetch a message, claim its run and commit the
\* offset whether or not the claim succeeded.

\* A call made under ctx fails: by a fault of kind k, or because ctx was
\* cancelled under it.
Fails(w, k) == Fault(k) \/ (proc[w].ctx = "done" /\ UNCHANGED faults)

\* What the claim leaves in the slot: execute starts, or the slot is free.
AfterClaim(w, s, r) ==
  exec' = [exec EXCEPT ![w][s] =
             IF Claimable(r)
             THEN [phase |-> "load", run |-> r, attempt |-> runs[r].attempt,
                   cause |-> "none"]
             ELSE Idle]

\* A failed claim may have been applied, and its message is committed too.
Consume(w, s, r) ==
  /\ proc[w].stage = "consume"
  /\ ~Active(w, s)
  /\ topic[r] > 0
  /\ \/ /\ proc[w].ctx = "live"
        /\ ClaimRun(r, w)
        /\ AfterClaim(w, s, r)
        /\ CommitMessage(r)
     \/ /\ Fails(w, "db")
        /\ ClaimRun(r, w) \/ UNCHANGED runs
        /\ topic' \in {topic, Committed(r)}
        /\ UNCHANGED exec
  /\ UNCHANGED <<proc, maint, files>>

-----------------------------------------------------------------------------
\* execute, one goroutine per claimed run.

\* GetJob, then the job's context under jobsCtx, which may be cancelled already.
LoadJob(w, s) ==
  /\ exec[w][s].phase = "load"
  /\ \/ /\ exec' = [exec EXCEPT ![w][s].phase = "run",
                                ![w][s].cause = IF proc[w].stage = "handback"
                                                THEN "shutdown" ELSE "none"]
        /\ UNCHANGED faults
     \/ Goto(w, s, "fail") /\ Fault("db")
  /\ UNCHANGED <<runs, topic, proc, maint, files>>

\* One tick of the heartbeat goroutine.  A failed call changes nothing.
HeartbeatTick(w, s) ==
  LET e == exec[w][s] IN
  /\ e.phase = "run"
  /\ e.cause = "none"
  /\ Heartbeat(e.run, w, e.attempt)
  /\ IF Owns(e.run, w, e.attempt) THEN UNCHANGED exec ELSE Cancel(w, s, "lost")
  /\ UNCHANGED <<topic, faults, proc, maint, files>>

\* The job's own timeout_sec.
Timeout(w, s) ==
  /\ exec[w][s].phase = "run"
  /\ exec[w][s].cause = "none"
  /\ Cancel(w, s, "timeout")
  /\ UNCHANGED <<runs, topic, faults, proc, maint, files>>

\* writeOutputFile
WriteOutputFile(r, a) ==
  \/ files' = [files EXCEPT ![r] = a] /\ UNCHANGED faults
  \/ UNCHANGED files /\ Fault("disk")

\* job.Run returns nil, which it may even when its context was cancelled; the
\* heartbeats stop, the log is flushed and the output file is written.
JobSucceeds(w, s) ==
  LET e == exec[w][s] IN
  /\ e.phase = "run"
  /\ Goto(w, s, "finish")
  /\ WriteOutputFile(e.run, e.attempt)
  /\ UNCHANGED <<runs, topic, proc, maint>>

\* job.Run returns an error, its own or its context's; the cause decides.
JobFails(w, s) ==
  LET e == exec[w][s] IN
  /\ e.phase = "run"
  /\ \/ e.cause = "lost"                /\ Done(w, s)
     \/ e.cause = "shutdown"            /\ Goto(w, s, "release")
     \/ e.cause \in {"timeout", "none"} /\ Goto(w, s, "fail")
  /\ UNCHANGED <<runs, topic, faults, proc, maint, files>>

\* succeed.  An error that was applied looks the same as no error.
Succeed(w, s) ==
  LET e == exec[w][s] IN
  /\ e.phase = "finish"
  /\ \/ FinishRun(e.run, w, e.attempt) /\ UNCHANGED faults
     \/ UNCHANGED runs /\ Fault("db")
  /\ Done(w, s)
  /\ UNCHANGED <<topic, proc, maint, files>>

\* fail
Fail(w, s) ==
  LET e == exec[w][s] IN
  /\ e.phase = "fail"
  /\ \/ FailOrRetry(e.run, w, e.attempt) /\ UNCHANGED faults
     \/ UNCHANGED runs /\ Fault("db")
  /\ Done(w, s)
  /\ UNCHANGED <<topic, proc, maint, files>>

\* release, up to its dispatch; it gives up unless the row was updated.
Release(w, s) ==
  LET e == exec[w][s] IN
  /\ e.phase = "release"
  /\ \/ /\ ReleaseRun(e.run, w, e.attempt)
        /\ IF Owns(e.run, w, e.attempt) THEN Goto(w, s, "handoff") ELSE Done(w, s)
        /\ UNCHANGED faults
     \/ /\ Fault("db")
        /\ ReleaseRun(e.run, w, e.attempt) \/ UNCHANGED runs
        /\ Done(w, s)
  /\ UNCHANGED <<topic, proc, maint, files>>

\* The dispatch of a released run.
Handoff(w, s) ==
  LET e == exec[w][s] IN
  /\ e.phase = "handoff"
  /\ \/ Dispatch(e.run) /\ UNCHANGED faults
     \/ DispatchError(e.run) /\ Fault("kafka")
  /\ Done(w, s)
  /\ UNCHANGED <<runs, proc, maint, files>>

-----------------------------------------------------------------------------
\* maintain: reap, publish what was requeued, dispatch due retries, sweep, and
\* again at the next tick, until ctx is done.

Following == [reap |-> "retry", retry |-> "sweep", sweep |-> "reap"]

\* Mutant: the loop does not look at ctx.
MaintainingForever(w) == proc[w].stage # "down" /\ maint[w].pending = {}

\* The pass is about to run a statement.
Maintaining(w) ==
  /\ proc[w].stage # "down"
  /\ proc[w].ctx = "live"
  /\ maint[w].pending = {}

\* The statement returns the runs to publish, or an error and nothing.
Returns(w, found) ==
  \/ /\ maint' = [maint EXCEPT ![w] = [next |-> Following[@.next], pending |-> found]]
     /\ UNCHANGED faults
  \/ /\ maint' = [maint EXCEPT ![w].next = Following[@]]
     /\ Fault("db")

\* Runs the reaper failed for good are not published.
Reap(w) ==
  /\ Maintaining(w) /\ maint[w].next = "reap"
  /\ \E B \in Limited(Stale) :
       ReapStale(B) /\ Returns(w, {r \in B : ~Exhausted(r)})
  /\ UNCHANGED <<topic, proc, exec, files>>

DispatchRetries(w) ==
  /\ Maintaining(w) /\ maint[w].next = "retry"
  /\ \E B \in Limited(DueForRetry) : DueRetries(B) /\ Returns(w, B)
  /\ UNCHANGED <<topic, proc, exec, files>>

Sweep(w) ==
  /\ Maintaining(w) /\ maint[w].next = "sweep"
  /\ \E B \in Limited(Stuck) : SweepQueued(B) /\ Returns(w, B)
  /\ UNCHANGED <<topic, proc, exec, files>>

\* A statement that fails without effect; the pass goes on.
MaintenanceError(w) ==
  /\ Maintaining(w)
  /\ maint' = [maint EXCEPT ![w].next = Following[@]]
  /\ Fault("db")
  /\ UNCHANGED <<runs, topic, proc, exec, files>>

\* redispatch of one run the last statement returned.
Redispatch(w, r) ==
  /\ proc[w].stage # "down"
  /\ r \in maint[w].pending
  /\ maint' = [maint EXCEPT ![w].pending = @ \ {r}]
  /\ \/ Dispatch(r) /\ UNCHANGED faults
     \/ DispatchError(r) /\ Fails(w, "kafka")
  /\ UNCHANGED <<runs, proc, exec, files>>

-----------------------------------------------------------------------------
\* Worker.Run and the process around it.

\* SIGTERM cancels ctx.
Sigterm(w) ==
  /\ proc[w].stage # "down"
  /\ proc[w].ctx = "live"
  /\ Fault("sigterm")
  /\ proc' = [proc EXCEPT ![w].ctx = "done"]
  /\ UNCHANGED <<runs, topic, exec, maint, files>>

\* consume sees the cancelled ctx, waiting for a slot or in FetchMessage.
StopConsuming(w) ==
  /\ proc[w].stage = "consume"
  /\ proc[w].ctx = "done"
  /\ proc' = [proc EXCEPT ![w].stage = "grace"]
  /\ UNCHANGED <<runs, topic, faults, exec, maint, files>>

\* FetchMessage fails although ctx is live: consume returns the error.
FetchFails(w) ==
  /\ proc[w].stage = "consume"
  /\ proc[w].ctx = "live"
  /\ \E s \in Slots : ~Active(w, s)
  /\ Fault("fetch")
  /\ proc' = [proc EXCEPT ![w].stage = "grace"]
  /\ UNCHANGED <<runs, topic, exec, maint, files>>

\* time.After(ShutdownGrace) with jobs still running: stopJobs(errShutdown).
GraceOver(w) ==
  /\ proc[w].stage = "grace"
  /\ \E s \in Slots : Active(w, s)
  /\ proc' = [proc EXCEPT ![w].stage = "handback"]
  /\ exec' = [exec EXCEPT ![w] =
                [s \in Slots |->
                   IF @[s].phase = "run" /\ @[s].cause = "none"
                   THEN [@[s] EXCEPT !.cause = "shutdown"] ELSE @[s]]]
  /\ UNCHANGED <<runs, topic, faults, maint, files>>

\* Run returns: every job has ended and maint.Wait() has seen the maintenance
\* loop end, which only a cancelled ctx makes it do.
Exit(w) ==
  /\ proc[w].stage \in {"grace", "handback"}
  /\ \A s \in Slots : ~Active(w, s)
  /\ proc[w].ctx = "done"
  /\ maint[w].pending = {}
  /\ proc' = [proc EXCEPT ![w] = [stage |-> "down", ctx |-> "live"]]
  /\ maint' = [maint EXCEPT ![w] = NewMaint]
  /\ UNCHANGED <<runs, topic, faults, exec, files>>

\* The process dies: its goroutines and what they had in hand are gone.
Crash(w) ==
  /\ proc[w].stage # "down"
  /\ Fault("crash")
  /\ proc' = [proc EXCEPT ![w] = [stage |-> "down", ctx |-> "live"]]
  /\ exec' = [exec EXCEPT ![w] = [s \in Slots |-> Idle]]
  /\ maint' = [maint EXCEPT ![w] = NewMaint]
  /\ UNCHANGED <<runs, topic, files>>

\* The container is started again, under the same WORKER_ID.
Restart(w) ==
  /\ proc[w].stage = "down"
  /\ proc' = [proc EXCEPT ![w].stage = "consume"]
  /\ UNCHANGED <<runs, topic, faults, exec, maint, files>>

-----------------------------------------------------------------------------

Execute(w, s) ==
  \/ LoadJob(w, s) \/ HeartbeatTick(w, s) \/ Timeout(w, s)
  \/ JobSucceeds(w, s) \/ JobFails(w, s)
  \/ Succeed(w, s) \/ Fail(w, s) \/ Release(w, s) \/ Handoff(w, s)

Maintain(w) ==
  \/ Reap(w) \/ DispatchRetries(w) \/ Sweep(w) \/ MaintenanceError(w)
  \/ \E r \in Runs : Redispatch(w, r)

Lifecycle(w) ==
  \/ Sigterm(w) \/ StopConsuming(w) \/ FetchFails(w) \/ GraceOver(w)
  \/ Exit(w) \/ Crash(w) \/ Restart(w)

WorkerNext(w) ==
  \/ \E s \in Slots : Execute(w, s) \/ \E r \in Runs : Consume(w, s, r)
  \/ Maintain(w)
  \/ Lifecycle(w)
=============================================================================
