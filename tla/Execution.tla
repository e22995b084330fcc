----------------------------- MODULE Execution ------------------------------
(***************************************************************************)
(* One run of a generate_text job, in numbers: the checks of a create      *)
(* request, the executor line by line (internal/job), the cancellation of  *)
(* its context by the timeout or a shutdown, what the worker makes of the  *)
(* result, and the size of the backoff (retryDelay).                       *)
(*                                                                         *)
(* JobSystem looks at the same worker from outside: there a job ends in    *)
(* any way at any time and competes with other workers for its run.  Here  *)
(* the worker is alone with the run, and what is checked is which way.     *)
(***************************************************************************)
EXTENDS Integers, FiniteSetsExt, Faults

CONSTANTS maxLines, maxDelayMs, maxFailAttempts,          \* internal/job
          defaultMaxRetries, maxMaxRetries, maxTimeoutSec, \* internal/api
          Progress,  \* "about 20 times": 20
          Width,     \* bits of a time.Duration: 64
          Configs,   \* RetryBaseDelay and RetryMaxDelay of the workers
          Requests   \* create requests, good and bad

\* loadConfig checks the order of the two delays.
Loadable(c) == 0 < c.base /\ c.base <= c.max

\* It does not check their size: in nanoseconds, 2^62 are 146 years.
ASSUME ExecutionAssumption ==
  /\ Configs \subseteq [base : Nat, max : Nat]
  /\ {maxLines, maxDelayMs, maxFailAttempts, defaultMaxRetries, maxTimeoutSec} \subseteq Nat
  /\ maxMaxRetries \in Nat /\ defaultMaxRetries <= maxMaxRetries
  /\ Progress \in Nat \ {0, 1} /\ Width \in Nat \ {0, 1}
  /\ \A c \in Configs : Loadable(c) /\ c.max <= 2^(Width - 2)

VARIABLES job,         \* the job as stored
          run,         \* its run
          exec,        \* the attempt being executed
          ctx,         \* the attempt's context: live, or the cause of its end
          cfg,         \* the configuration of the worker that claimed last
          interrupted  \* history: something other than the job failed an attempt

vars == <<job, run, exec, ctx, cfg, interrupted, faults>>

\* load: execute has not read the job;   check, write, sleep: the loop over i
\* end: after the loop;   ok, error: job.Run has returned
\* fail: the job could not be loaded
Phases == {"idle", "load", "check", "write", "sleep", "end", "ok", "error", "fail"}

NoJob == [lines |-> 0, delay_ms |-> 0, fail_at |-> 0, fail_attempts |-> 0, max_retries |-> 0]
Idle == [phase |-> "idle", i |-> 1, log |-> 0, late |-> 0]

\* next_attempt_at is {} for NULL, or holds the backoff it was computed from.
Run == [status : {"ABSENT", "QUEUED", "RUNNING", "SUCCEEDED", "FAILED"},
        attempt : Nat \ {0}, next_attempt_at : SUBSET (Nat \ {0}), output : Nat]

TypeOK ==
  /\ job \in [lines : 0..maxLines, delay_ms : 0..maxDelayMs, fail_at : 0..maxLines,
              fail_attempts : 0..maxFailAttempts, max_retries : 0..maxMaxRetries]
  /\ run \in Run
  /\ exec \in [phase : Phases, i : Nat \ {0}, log : Nat, late : Nat]
  /\ ctx \in {"live", "timeout", "shutdown"}
  /\ cfg \in Configs /\ interrupted \in BOOLEAN
  /\ FaultsTypeOK

Init ==
  /\ job = NoJob
  /\ run = [status |-> "ABSENT", attempt |-> 1, next_attempt_at |-> {}, output |-> 0]
  /\ exec = Idle
  /\ ctx = "live" /\ cfg \in Configs /\ interrupted = FALSE
  /\ FaultsInit

At(phase) == exec.phase = phase
Goto(phase) == exec' = [exec EXCEPT !.phase = phase]
Cancelled == ctx # "live"

-----------------------------------------------------------------------------
\* Creating the job.

\* GenerateText.validate
ValidPayload(p) ==
  /\ p.lines \in 1..maxLines /\ p.delay_ms \in 0..maxDelayMs
  /\ p.fail_at \in 0..p.lines /\ p.fail_attempts \in 0..maxFailAttempts

Validate(type, payload) == type = "generate_text" /\ ValidPayload(payload)

\* newJob, without the schedule, which is Scheduler's: an optional number is a set
\* of at most one.
Valid(req) ==
  /\ req.name # "" /\ Validate(req.type, req.payload)
  /\ req.max_retries \subseteq 0..maxMaxRetries
  /\ req.timeout_sec \subseteq 1..maxTimeoutSec

NewJob(req) ==
  [lines |-> req.payload.lines, delay_ms |-> req.payload.delay_ms,
   fail_at |-> req.payload.fail_at, fail_attempts |-> req.payload.fail_attempts,
   max_retries |-> IF req.max_retries = {} THEN defaultMaxRetries ELSE Max(req.max_retries)]

CreateJob(req) ==
  /\ job = NoJob
  /\ Valid(req)
  /\ job' = NewJob(req)
  /\ UNCHANGED <<run, exec, ctx, cfg, interrupted, faults>>

RunJob ==
  /\ job # NoJob /\ run.status = "ABSENT"
  /\ run' = [run EXCEPT !.status = "QUEUED"]
  /\ UNCHANGED <<job, exec, ctx, cfg, interrupted, faults>>

-----------------------------------------------------------------------------
\* One attempt.

\* Some worker claims the run; a backoff has passed by then.
Claim(c) ==
  /\ run.status = "QUEUED" /\ At("idle")
  /\ run' = [run EXCEPT !.status = "RUNNING", !.next_attempt_at = {}]
  /\ exec' = [Idle EXCEPT !.phase = "load"]
  /\ ctx' = "live" /\ cfg' = c
  /\ UNCHANGED <<job, interrupted, faults>>

\* execute reads the job; generateText logs "generating".
LoadJob ==
  /\ At("load")
  /\ exec' = [exec EXCEPT !.phase = "check", !.log = 1]
  /\ UNCHANGED <<job, run, ctx, cfg, interrupted, faults>>

LoadFails ==
  /\ At("load")
  /\ Fault("db")
  /\ Goto("fail")
  /\ interrupted' = TRUE
  /\ UNCHANGED <<job, run, ctx, cfg>>

\* Mutant: only sleep notices that the context has ended.
CheckLinesOnly ==
  /\ At("check")
  /\ Goto(IF exec.i > job.lines THEN "end" ELSE "write")
  /\ UNCHANGED <<job, run, ctx, cfg, interrupted, faults>>

\* Mutant: the loop is left without an error.
CheckBreaks ==
  /\ At("check")
  /\ Goto(IF exec.i > job.lines \/ Cancelled THEN "end" ELSE "write")
  /\ UNCHANGED <<job, run, ctx, cfg, interrupted, faults>>

\* The head of the loop, and ctx.Err().
Check ==
  /\ At("check")
  /\ Goto(IF exec.i > job.lines THEN "end" ELSE IF Cancelled THEN "error" ELSE "write")
  /\ UNCHANGED <<job, run, ctx, cfg, interrupted, faults>>

\* Mutant: every line is reported.
EveryLine == 1

\* every
Every == Max({1, job.lines \div Progress})

\* The body of the loop up to sleep.
WriteLine ==
  /\ At("write")
  /\ LET i       == exec.i
         fails   == i = job.fail_at
         reports == i % Every = 0 \/ i = job.lines
         sleeps  == job.delay_ms > 0 /\ i < job.lines
     IN exec' = [phase |-> IF fails THEN "error" ELSE IF sleeps THEN "sleep" ELSE "check",
                 i     |-> i + 1,
                 log   |-> exec.log + IF fails \/ reports THEN 1 ELSE 0,
                 late  |-> exec.late + IF Cancelled THEN 1 ELSE 0]
  /\ UNCHANGED <<job, run, ctx, cfg, interrupted, faults>>

\* sleep: the timer fires ...
Wake ==
  /\ At("sleep")
  /\ Goto("check")
  /\ UNCHANGED <<job, run, ctx, cfg, interrupted, faults>>

\* Mutant: sleep waits for the worker's context, without the timeout.
StoppedByShutdown ==
  /\ At("sleep")
  /\ ctx = "shutdown"
  /\ Goto("error")
  /\ UNCHANGED <<job, run, ctx, cfg, interrupted, faults>>

\* ... or the context has ended.
Stopped ==
  /\ At("sleep")
  /\ Cancelled
  /\ Goto("error")
  /\ UNCHANGED <<job, run, ctx, cfg, interrupted, faults>>

\* Mutant: off by one.
EndFailsFewer ==
  /\ At("end")
  /\ exec' = IF run.attempt < job.fail_attempts
             THEN [exec EXCEPT !.phase = "error", !.log = @ + 1]
             ELSE [exec EXCEPT !.phase = "ok"]
  /\ UNCHANGED <<job, run, ctx, cfg, interrupted, faults>>

\* After the loop: fail_attempts.
End ==
  /\ At("end")
  /\ exec' = IF run.attempt <= job.fail_attempts
             THEN [exec EXCEPT !.phase = "error", !.log = @ + 1]
             ELSE [exec EXCEPT !.phase = "ok"]
  /\ UNCHANGED <<job, run, ctx, cfg, interrupted, faults>>

\* The context ends.  The first cause counts.  Until execute reads the cause
\* this may also happen after job.Run has returned.
Cancel(cause) ==
  /\ ~At("idle") /\ ~Cancelled
  /\ \/ cause = "timeout" /\ ~At("load") /\ UNCHANGED faults
     \/ cause = "shutdown" /\ Fault("sigterm")
  /\ ctx' = cause
  /\ interrupted' = TRUE
  /\ UNCHANGED <<job, run, exec, cfg>>

-----------------------------------------------------------------------------
\* What becomes of the run.

\* Mutants: the loop goes on past the cap; its result is not cut.
RetryDelayUnguarded(c, attempt) ==
  LET d[i \in 1..attempt] ==
        IF i = 1 THEN c.base
        ELSE ((2 * d[i - 1] + 2^(Width - 1)) % 2^Width) - 2^(Width - 1)
  IN Min({d[attempt], c.max})
RetryDelayUncut(c, attempt) ==
  LET d[i \in 1..attempt] ==
        IF i = 1 THEN c.base ELSE IF d[i - 1] < c.max THEN 2 * d[i - 1] ELSE d[i - 1]
  IN d[attempt]

\* A time.Duration is a signed integer of Width bits.
Duration(n) == ((n + 2^(Width - 1)) % 2^Width) - 2^(Width - 1)

\* retryDelay: d[i] is d after i - 1 rounds of the loop.
RetryDelay(c, attempt) ==
  LET d[i \in 1..attempt] ==
        IF i = 1 THEN c.base
        ELSE IF d[i - 1] < c.max THEN Duration(2 * d[i - 1]) ELSE d[i - 1]
  IN Min({d[attempt], c.max})

\* attempt > max_retries
Exhausted == run.attempt > job.max_retries

FailedRun == [run EXCEPT !.status = "FAILED", !.next_attempt_at = {}]
RequeuedRun(at) ==
  [run EXCEPT !.status = "QUEUED", !.attempt = @ + 1, !.next_attempt_at = at]

\* succeed: err == nil counts whatever has become of the context.
Succeed ==
  /\ At("ok")
  /\ run' = [run EXCEPT !.status = "SUCCEEDED", !.output = exec.i - 1]
  /\ exec' = Idle /\ ctx' = "live"
  /\ UNCHANGED <<job, cfg, interrupted, faults>>

\* fail and FailOrRetry
Fail ==
  /\ At("fail") \/ (At("error") /\ ctx # "shutdown")
  /\ run' = IF Exhausted THEN FailedRun ELSE RequeuedRun({RetryDelay(cfg, run.attempt)})
  /\ exec' = Idle /\ ctx' = "live"
  /\ UNCHANGED <<job, cfg, interrupted, faults>>

\* release and ReleaseRun
Release ==
  /\ At("error") /\ ctx = "shutdown"
  /\ run' = RequeuedRun({})
  /\ exec' = Idle /\ ctx' = "live"
  /\ UNCHANGED <<job, cfg, interrupted, faults>>

\* The worker dies, or the write of its result is lost ...
Lose ==
  /\ ~At("idle")
  /\ \/ Fault("crash")
     \/ exec.phase \in {"ok", "error", "fail"} /\ Fault("db")
  /\ exec' = Idle /\ ctx' = "live" /\ interrupted' = TRUE
  /\ UNCHANGED <<job, run, cfg>>

\* ... and the reaper takes the run.
Reap ==
  /\ run.status = "RUNNING" /\ At("idle")
  /\ run' = IF Exhausted THEN FailedRun ELSE RequeuedRun(run.next_attempt_at)
  /\ UNCHANGED <<job, exec, ctx, cfg, interrupted, faults>>

-----------------------------------------------------------------------------

\* The steps the worker takes without waiting for anything but the processor.
Proceed ==
  \/ LoadJob \/ Check \/ WriteLine \/ Stopped \/ End
  \/ Succeed \/ Fail \/ Release

Next ==
  \/ \E req \in Requests : CreateJob(req)
  \/ RunJob
  \/ \E c \in Configs : Claim(c)
  \/ Proceed \/ Wake \/ LoadFails
  \/ \E cause \in {"timeout", "shutdown"} : Cancel(cause)
  \/ Lose \/ Reap

Spec == Init /\ [][Next]_vars

\* No fairness of Wake: a timer may be as far away as it likes.
FairSpec == Spec /\ WF_vars(Proceed)

-----------------------------------------------------------------------------
\* Invariants.

\* "RetryBaseDelay, doubled for each earlier attempt, capped at RetryMaxDelay":
\* computed in a Duration of limited width, the backoff is the one computed
\* without limits, for each attempt and configuration.
BackoffSchedule ==
  \A d \in run.next_attempt_at :
    d = Min({cfg.base * 2^(run.attempt - 2), cfg.max})

\* What the fields of GenerateText promise: "FailAt makes every attempt fail",
\* "FailAttempts makes the first this-many attempts fail [...] so the run only
\* succeeds on a retry".  A job that only fails on purpose ends as its numbers
\* foretell, after exactly so many attempts, and a success, even one that comes
\* after the timeout, a shutdown or lost attempts, is of a whole output and of
\* an attempt that was not to fail.
OutcomeForetold ==
  /\ run.status = "SUCCEEDED" =>
       job.fail_at = 0 /\ run.attempt > job.fail_attempts /\ run.output = job.lines
  /\ run.status \in {"SUCCEEDED", "FAILED"} /\ ~interrupted =>
       IF job.fail_at = 0 /\ job.fail_attempts <= job.max_retries
       THEN run.status = "SUCCEEDED" /\ run.attempt = job.fail_attempts + 1
       ELSE run.status = "FAILED" /\ run.attempt = job.max_retries + 1

\* "Report progress about 20 times however large the job is": an attempt logs at
\* most 2 * 20 + 1 lines.  The log of an attempt therefore never fills
\* logMaxBatch (200), and the API, the stream and jobctl read it in one page.
LogFits == exec.log <= 2 * Progress + 1

\* Run "stops early [...] if ctx is cancelled": at most the line that was being
\* written is still written, wherever in the loop the cancellation strikes.
StopsPromptly == exec.late <= 1

-----------------------------------------------------------------------------
\* Refinement.

\* The run as an entry of the ledger that JobSystem implements: there an output is
\* known by the attempt that wrote it, here it is that attempt's when it is whole.
LedgerEntry ==
  [status  |-> run.status,
   attempt |-> IF run.status = "ABSENT" THEN 0 ELSE run.attempt,
   output  |-> IF run.output > 0 /\ run.output = job.lines THEN run.attempt ELSE 0]

Ledger == INSTANCE RunLedger WITH Runs <- {"run"}, ledger <- [r \in {"run"} |-> LedgerEntry]

\* The executor, with its timeouts, shutdowns, losses and retries, keeps what
\* RunLedger promises of a run, and a success is recorded with the whole output
\* of the attempt it ends: the two models of the worker agree about the run.
FollowsLedger == Ledger!Spec

-----------------------------------------------------------------------------
\* Liveness, under FairSpec.

\* An attempt whose context has ended comes to its end, even when it sleeps
\* and its timer never fires.
CancelStops == Cancelled ~> At("idle")
=============================================================================
