# jobsys in TLA+

A verification project for jobsys: TLA+ models of its run table, worker pool,
scheduler, run log, job executor, startup and web page, TLC runs that check them on small
instances, and proofs that TLAPS checks for every value of the constants.

    tlc -workers 2 -config MCslots.cfg MCJobSystem     # one run; PROJECT.json lists them all
    tlapm JobSystemProofs.tla                          # the proofs of one module

`PROJECT.json` maps every definition to the lines it models, and lists the runs,
the mutants each property is known to detect, the hazards and the theorems.

## 1. The system

Postgres holds all state. Kafka carries messages that say no more than "run r may
be ready". API replicas serve HTTP and run the scheduler; workers consume, execute
and do the maintenance.

| component | state | operations that change it |
|---|---|---|
| run table, `internal/store` | `job_runs`: status, attempt, worker_id and five timestamps | ClaimRun, Heartbeat, FinishRun, FailOrRetry, ReleaseRun, FailQueuedRun, ReapStale, DueRetries, SweepQueued, the two INSERTs |
| dispatch topic, `internal/queue` | messages not yet committed | Dispatch, FetchMessage, CommitMessages |
| worker, `internal/worker` | the goroutines of `Run`: consume loop, one `execute` per slot with its heartbeat, maintenance loop; output files | claim, execute, succeed / fail / release, a maintenance pass, drain, exit |
| scheduler, `internal/scheduler` | `jobs`: enabled, next_run_at; an open transaction and its row locks | FireDueJobs, then Dispatch |
| API, `internal/api` | requests in flight | run a job; create, pause, resume a job; read |
| run log, `worker/runlog.go` | a buffer, a sequence number and a flush loop per attempt; `job_logs` | Log, flush, Close, AppendLogs |
| live stream, `api/stream.go` | attempt, next line and a snapshot of the run, per client | open, the poll loop, end, break off |
| job executor, `internal/job` | the line it has got to, its context | one line, sleep, end; cancelled by timeout or shutdown |
| migrations, `store/migrate.go` | `schema_migrations`, an advisory lock, a transaction per file | Migrate, by every pod that starts |
| startup, `internal/app`, `cmd/*/main.go`, `deploy/` | the place of each container | wait for Postgres, for the topic; serve; start again |
| jobctl, `cmd/jobctl` | | one request each; `logs -f` follows the stream and exits with its end |
| web page, `web/app.js` | filter, selected run, EventSource, what table and panel show | poll, click, an answer or an event arrives |

How they interact: a handler or a tick inserts a run and then publishes a message; a
worker that receives the message claims the row with a conditional UPDATE, executes,
and writes the result with another one whose condition is that it still owns the
attempt. Any worker's maintenance loop takes runs away from silent workers, publishes
retries that are due and publishes again what seems stuck. The log of an attempt is
written by the job's goroutine and by the flush loop, and read by streams that poll.

What is hard here:

- **Ownership without locks.** A worker that is slow is reaped and does not know. Its
  writes arrive late, perhaps when the run has come back to the same worker. Only
  `worker_id`, `attempt` and `status` in three WHERE clauses tell them apart.
- **Everything is two steps.** Insert then publish, claim then commit the offset,
  update then publish, compute `next_run_at` then write it: a crash, an error or
  another actor comes in between.
- **Errors that are not failures.** A call that returns an error may have been applied.
- **Drain.** Four kinds of goroutines with three contexts have to end in order.
- **Two clocks.** The database decides what is due, a replica what comes next.
- **Order of log lines.** They are numbered under a mutex and inserted outside it.
- **Commits nobody heard of.** A pod that dies during a COMMIT leaves a session behind that
  holds the migration lock and may still commit.
- **Numbers that have to agree.** `attempt > max_retries` in two statements,
  `attempt <= fail_attempts` in the job, a doubling loop in the worker, an integer division that
  decides how much is logged.
- **Answers in any order.** The page asks for the same things every two seconds without waiting,
  and stops asking about a run when its stream has ended.

What makes each component correct:

- run table: no two goroutines execute the same attempt; nobody but its owner ends a
  live attempt; the columns of a row agree; retries are bounded and wait for their
  backoff; a final status is final.
- the whole: a queued run ends SUCCEEDED or FAILED; a worker told to stop stops.
- scheduler: an occurrence is queued once, is not lost, and missed ones are not replayed;
  a paused job is silent; an overdue job fires.
- run log and stream: the log is complete before the result; a stream that ended showed
  everything stored in time and told the run's result; the stream of a finished run ends.
- job executor: a job ends as its numbers say, backs off as configured, stops within a line of
  being told to, and never logs more than the log's readers take in one page.
- startup: each migration is applied once and in order; nobody serves without its schema; in the
  end everybody serves.
- web page: log and panel are the selected run's; what is shown comes to be true.

## 2. The modules

An arrow points from a module to the ones that extend it.

    JobRuns, Faults -> Queue -> Worker -> JobSystem -> JobSystemProofs, MCJobSystem
                                          JobSystem instantiates RunLedger
    Faults -> Scheduler -> SchedulerProofs, MCScheduler
    Faults -> RunLog -> RunLogProofs, MCRunLog
    Faults -> Execution -> ExecutionProofs, MCExecution
                           Execution instantiates RunLedger
    Faults -> Startup -> StartupProofs, MCStartup
    Faults -> WebPage -> WebPageProofs, MCWebPage
    NumberLemmas -> RunLogProofs, ExecutionProofs

- **Faults**: a budget for each kind of failure. It bounds how many strike, never when.
- **JobRuns**: the table and every statement that writes it. A statement is a row
  selection (`Claimable`, `Owns`, `Stale`, `DueForRetry`, `Stuck`, `Exhausted`), a row it
  produces (`ClaimedRow`, ...) and the update. The statements only compare timestamps with
  `now()`, so a timestamp is the answer to that comparison (fresh or stale, future or due)
  and time passes in the `Age` actions.
- **Queue**: how many messages name each run. Delivery is in any order, to any worker, and
  again when the offset was not committed.
- **Worker**: the worker processes. `exec[w][s]` is the local state of the goroutine in a
  slot: the run and attempt it claimed, its place in `execute` and the cause its context
  was cancelled with. `maint[w]` is the maintenance pass: the next statement, and the runs
  it has still to publish. `proc[w]` is the place in `Run` and whether ctx is cancelled.
- **JobSystem**: the composition, with the goroutine that queues each run (`handleRunJob`
  or `Tick`), the fairness and the properties.
- **RunLedger**: the abstract specification. A run is submitted once, its attempts follow
  each other one by one, a success records the output of the attempt it ends, a final
  status is final.
- **Scheduler**: the `jobs` table. `SelectDue` is the SELECT with its row locks,
  `FireDueJobs` the INSERTs, UPDATEs and COMMIT, `Rollback` the failure. Requests compute
  the next occurrence in one step (`NewJob`, `ReadJob`) and write it in another. `NextRun`,
  the cron expression, is a parameter: any operator that returns a later time or none.
- **RunLog**: one run and its attempts. `logger[a]` holds the buffer, the batches in the
  hands of the job's goroutine and of the flush loop, and the place of each. The run's row
  is reduced to status and attempt. `dropped` and `late` are history variables. `stream` is
  one client's stream, opened at any time from any attempt and line, perhaps again after it
  broke off.
- **Execution**: one job and its run, without competitors, in numbers: the checks of the create
  request, the loop of `generateText` with `ctx.Err()`, the line and `sleep` as steps of their
  own, so that the context can end between them, and `retryDelay` in integers of `Width` bits.
  Worker abstracts the same goroutine to "the job ends somehow, at any time", so what is proved
  there does not depend on this module; what is checked here is which way it ends. What the two
  have in common is the ledger: `FollowsLedger` says that the run goes its way here too, where
  an output is recorded only when it is whole.
- **Startup**: pods with an init container that runs `Migrate`, one statement per action, and a
  container that waits and serves. `lock` may be held by a session whose client is gone
  (`Ghost`), and `ghost` is the file whose COMMIT that session was sent. `applied` is a history
  variable: the files in the order of their commits.
- **WebPage**: the page's `state`, its open EventSources, what log, panel and table show, and the
  asynchronous functions under way (`tasks`): a request is sent with what it captured (`arg`),
  carried out (`Serve`) and answered (`Deliver`), or fails. An asynchronous function is split
  at its `await`s.

An action is a handler up to its next call that another actor can see between; the map
in `PROJECT.json` gives the lines. Definitions marked "Mutant" are plausible bugs. They are
in no specification; each is the evidence that some property would notice it.

## 3. What is abstracted

- Claim and offset commit are one step (`Consume`): between them nothing is visible that
  the failure branches of the action do not produce. A worker that dies between them is
  covered by the branch that claims without executing and may leave the message.
- A write that was applied and reported as failed looks like success where the code does
  nothing else on success; where it does (claim, release, dispatch, the maintenance
  statements), the failing branch has both outcomes. `flush` goes on alike after an INSERT of
  log lines that succeeded, that was applied and reported as failed, and that failed: the first
  two are one branch of `AppendLogs`. An INSERT carried out only after the client gave up on it
  is left out; if the attempt is over by then its lines are `late`.
- `Published` saturates at `MaxCopies`: the sweeper would publish for ever. A message
  beyond the bound is one more delivery of a message that is still there.
- `started_at`, `error`, levels and texts are left out. The status CANCELLED is in the schema but no statement sets it.
- Malformed messages are left out: nothing in the repository publishes one.
- Log lines are sets of numbers; ListLogs returns them by number, so order is preserved.
- Manual runs take `now()` as their `scheduled_time`. One that coincides with an occurrence
  of the same job to the microsecond would take the occurrence's key; left out.
- `RunLog` lets the reaper strike at any time, a superset of what the heartbeats allow, and lets
  an attempt end without a line, as when GetJob fails. A worker that dies is one that takes no
  more steps. One stream is open at a time; streams do not interact.
- `RunLog` checks buffers of two. In the code a buffer holds 200 lines and an attempt of
  `generate_text` logs at most 41 (`LogFits`), so the flush of a full buffer, and with it lines
  stored out of order, waits for a job type that logs more.
- Execution: a backoff has passed when the run is claimed again; that it is waited for is
  `BackoffHeld` of JobSystem. The schedule of a create request is Scheduler's.
- Startup: what a file does is left out; files differ by their place in the order. A session that
  still waits for the lock when its client dies is left out: it takes the lock and is ended like
  a `Ghost`. A startup probe that kills a waiting container is a `WaitForFails`. docker-compose
  runs migrate once (`restart: "no"`); the restarts are those of Kubernetes.
- WebPage: a run is a number, its events come in order on a stream that is open. After `close()`
  a browser dispatches no more events of an EventSource. The tables' `rendered` keys only save
  work and are left out, as are the jobs table, the form and `limit=50`. `runJob` disables its
  button, but only that of one job, and only until `loadJobs` draws a new one: POSTs overlap,
  also of one job, and `RunJob` bounds them by the runs left to create and by the tasks left for
  what follows. A run that is over is SUCCEEDED; the page treats the other final status alike.

## 4. The runs

Sizes are distinct states; times are with two workers.

| run | instance | shows |
|---|---|---|
| slots | 1 worker, 2 slots, 1 run, 1 retry, 2 messages, one fault of every kind but crash (2.4M, 65 s) | `TypeOK`, `RowsCoherent`, `AttemptExclusive`, `RetryBudget`, `OwnerEndsAttempt`, `BackoffHeld` |
| pool | 2 workers (symmetric), 1 slot each, 1 run, 1 retry; crash, SIGTERM, database error (2.4M, 110 s) | `OwnerEndsAttempt`, `LedgerSpec` |
| liveness | 1 worker, 1 slot, 1 run, 1 retry; crash, SIGTERM, database and Kafka error (197k, 41 s) | `EventuallyFinal`, `ShutdownCompletes` |
| schedule | 2 jobs, a batch of 1, 2 replicas, clocks 0 and 2 ahead, 3 and 1 requests, 5 units of time; a failed transaction (304k, 42 s) | `TypeOK`, `ScheduleCoherent`, `OccurrenceOnce`, `NoReplay`, `OccurrenceKept`, `OverdueFires` |
| runLog | 2 attempts, 3 and 1 lines, buffer of 2, stream batch of 1, 3 starting points; failed insertion (1.0M, 70 s) | `TypeOK`, `FlushedBeforeEnd`, `BufferBounded`, `StreamTimely`, `FollowTruthful`, `StreamEnds` |
| startup | 3 pods, images with 2 and 3 files; 2 crashes, 2 database faults (231k, 21 s) | `TypeOK`, `AppliedInOrder`, `TurnsTaken`, `SchemaReady`, `AllServe` |
| execution | 78 requests with 1, 3, 39 or 41 lines and 14 bad ones, 3 retry configurations in 5 bits; crash, SIGTERM, database error (164k, 13 s) | `TypeOK`, `BackoffSchedule`, `OutcomeForetold`, `LogFits`, `StopsPromptly`, `FollowsLedger`, `CancelStops` |
| page | 2 runs of 2 jobs, one created by the page, 2 requests at a time, 2 clicks, 1 failure (727k, 51 s) | `TypeOK`, `LogFaithful`, `MetaBelongs`, `TableCatchesUp`, `PanelFollows`, `LogCatchesUp` |

Why the bounds are enough: two slots or two workers and one retry are the least that lets
an old goroutine and its successor coexist, on the same worker and on different ones; two
messages are the least that lets both slots fetch the same run. `AttemptExclusive` is checked
within a worker; across workers it is a theorem. Batches of several runs are
left to the theorems of section 6, which hold for any number. One fault of a kind combines
with one of every other kind. Three lines and a buffer of two are the least that lets the
loop and the job insert at the same time and leaves a line for Close. Two replicas and
three requests let a creation, a pause and a resume overlap two transactions. Three pods are
one that migrates, one that waits and one whose session is left behind; two images let an
old pod migrate before and after a new one. 39 lines are where an attempt logs most; five bits
hold every cap up to 8, and four retries pass it. Two clicks open a run and then leave, reopen,
reconnect or replace it, and two requests are the least that can overtake each other. With two,
POSTs of `runJob` do not overlap; with three they do, but then the liveness properties are out of
TLC's reach, and overlapping POSTs are left to the theorems about the page. The theorems
of section 6 lift every one of these properties except liveness to every size.

`CHECK_DEADLOCK FALSE` is set where the system really may stop: the time watched ends
(Scheduler), a run that is over has nothing more to do or to log (Execution, RunLog), pods
that serve go on serving (Startup). WebPage polls for ever, and JobSystem is checked for deadlock.

### What the code does not keep

Four runs expect a violation; each checks a sentence of the repository.

- **ackLost** (`FailsOnlyUnclaimed`): "FailQueuedRun marks a run that never reached a worker
  as failed". If Kafka stored the message and only the acknowledgement was lost, a worker
  executes attempt 1, it fails and is queued for its retry, and the API, still handling its
  error, fails the run.
- **outputFile** (`FileIsOutput`): a file per *successful* run. The file is written before
  `FinishRun` checks ownership, so a reaped worker leaves one for a run that ends FAILED.
- **fetchError** (`FetchErrorReturns`, under the fairness of section 5): after an error of the
  Kafka reader `Run` waits for the maintenance loop, which only a cancelled ctx ends. The
  process neither consumes nor exits, and is not restarted.
- **stalePanel** (`PanelCatchesUp`, under the fairness of section 5): the page "polls for status
  changes every couple of seconds". When the stream of the selected run ends, the page asks for
  the run a last time and stops polling it. An answer asked for earlier that arrives after the
  last one puts the old status back, and the panel shows QUEUED or RUNNING from then on.

`PanelFollows` says what does hold: until its stream has ended, the panel catches up.
`StreamTimely` says what does hold: the only lines an ended stream may miss are those stored
after a later line, or after the attempt lost the run.

## 5. Fairness

Weak fairness, and only of what the code schedules by itself:

- a worker consumes while there are messages and free slots, its maintenance ticker fires,
  and a drain goes on (grace timer, exit); a stopped container is started again
  (`restart: unless-stopped` in docker-compose, a Deployment on Kubernetes);
- a goroutine of `execute` goes on. A job ends because `timeout_sec` is positive and
  `generate_text`, the only job type, returns when its context is cancelled; a job that has
  not been cancelled is not assumed to return;
- the handler and the tick go on to their dispatch;
- time passes: `queued_at` grows old, a backoff ends, and the heartbeat of a run that no
  goroutine refreshes goes stale. Heartbeats of a run being executed may or may not.
- a scheduler's ticker fires and its transaction ends; a stream polls while its client
  listens;
- Execution: the goroutine takes its steps. The timer of `sleep` is not fair, so that
  `CancelStops` shows that a cancelled job does not wait for it;
- Startup: containers go on and are started again, Postgres comes up and ends the sessions of
  clients that are gone (TCP keepalive), `kafka-init` creates the topic;
- WebPage: the interval timer fires, requests are answered or fail, an open stream delivers what
  there is (strong fairness, because the model's bound on requests under way disables the end
  event now and then). The user and the runs are not fair.

Failures, SIGTERM, requests and job results are not fair. Budgets make failures stop in the
end, which liveness needs; section 4 says how many strike before.

## 6. The proofs

**JobSystemProofs**, for any sets of workers, slots and runs, any max_retries, batch, number
of messages and faults. Assumed: `NoWorker`, `NoRun` are no worker and no run, and the
bounds are natural numbers (the `ASSUME`s of Faults, JobRuns, Queue, Worker).

The argument goes through two summaries of `Next`, proved action by action: `TableStep`, what
one step may do to each row, and `SlotStep`, what it may do to a slot. Everything else
reasons about those.

- `TypeCorrect`: `TypeOK`.
- `RowsAreCoherent`: `RowsCoherent` is inductive with `TypeOK`, by the cases of `TableStep`.
- `AttemptsAreExclusive`: `AttemptExclusive` is inductive with `TypeOK` and `RowsCoherent`.
  A claim takes the row's current attempt; no slot has it, because a slot on the current
  attempt means the row is RUNNING or FAILED; and attempts only grow when a row leaves RUNNING.
- `OwnersEndAttempts`: the action property, from `TableStep` under the same invariant.
- `BackoffsAreHeld`: the action property. `TableStep` says what may become of the row of a
  waiting retry; `PickedStep` that a maintenance pass picks up only what its statement selected.
- `ImplementsLedger`: refinement of RunLedger. Each row step is a move of the ledger or a
  stutter; `RowsCoherent` supplies that output is 0 until success.
- `RetriesAreBounded`: `RetryBudget` is not inductive, since a release looks at no budget. The
  strengthening `BudgetInv` adds `DrainInv` (an attempt a draining worker owns is one
  below the bound, so that its hand-back stays within it) and `HandbackInv` (only a worker
  whose grace period is over hands runs back).

**SchedulerProofs**, for any jobs, replicas, requests, clocks and any `NextRun` that returns a
later time or none.

- `SchedulerTypeCorrect`, `SchedulesAreCoherent`: from `SafetyInv`, that is `TypeOK`,
  `ScheduleCoherent`, `RequestInv` (a request that will enable a job has an occurrence for it, one
  that will pause it has none, and only one creates it) and `LockInv` (a job an open
  transaction has locked still has the next_run_at the transaction read, and one transaction
  has it).
- `OccurrencesAreQueuedOnce`: by the unique key alone, whatever the clocks say.
- `OccurrencesAreKept`: from `LockInv`; without the row locks it fails.
- `MissedOccurrencesAreNotReplayed`: `NoReplay`, under the additional assumption that no replica's
  clock is behind the database's, from `PendingInv` (the pending occurrence lies after the last
  firing, or a request asked for it). With a replica behind, `NextRun` may return an occurrence
  the database holds for past, and the job fires again at once.

**StartupProofs**, for any pods and images, any number of files and faults.

- `StartupTypeCorrect`: `TypeOK`, with `OwnFiles` (what a migrator applies is a file of its image),
  without which the place after a commit could lie past the end of the loop.
- `MigrationsAppliedInOrder`, `MigratorsTakeTurns`, `SchemaIsReady`: from `MigrateInv`.
  `AppliedInOrder` is not inductive by itself: a commit has to be of the first file that is
  missing. `PlaceInv` says so of every migrator between its check and its commit and of the
  session left behind, and `LockInv` says why nobody else commits in between: whoever is past
  `pg_advisory_lock` holds the lock, and so does a session that outlived its client.

**RunLogProofs**, for any number of attempts and lines, any size of a buffer and of a stream's
batch, any starting point of the stream and any number of faults.

- `RunLogTypeCorrect`, `LogIsFlushedBeforeEnd`, `BuffersAreBounded`: from `LogInv`. Its core,
  `Sound`, says where the lines of an attempt are (buffer, the batch of the job's goroutine, the
  batch of the loop, stored, dropped) and what each place of `Log`, `flush` and `Close` implies
  of them.
- `FollowIsTruthful`, `StreamsAreTimely`: from `FollowInv`, which adds `AttemptsInv` (attempts
  to come have no lines) and `StreamInv`: where the stream is (`PositionInv`), and that it has
  shown every timely line before that place and, once it has read the lines of an attempt that
  its snapshot showed over, all of them (`ShownInv`). That snapshot may be stale when it is used;
  it is enough because a line stored after the attempt lost the run is late.

**ExecutionProofs**, for any limits, configurations and requests. Assumed: each configuration
passed `loadConfig`, and its cap is at most 2^(Width - 2), 146 years in a `time.Duration`. Beyond
that the doubling may overflow, and nothing in the code prevents it.

- `ExecutionTypeCorrect`: `TypeOK`.
- `OutcomeIsForetold`, `AttemptStopsPromptly`: from `OutcomeInv`: what each place of the loop
  knows of the attempt (`LoopInv`), that an attempt which fails without being meant to was
  interrupted (`InterruptedInv`), that uninterrupted attempts are counted by the failures that
  were meant (`CountedInv`), and that a late line is the last (`LateInv`).
- `ExecutionImplementsLedger`: refinement of RunLedger, from the same invariant. A success is a
  move of the ledger because `LoopInv` lets `ok` be reached after the last line only.
- `BackoffIsOnSchedule`: `RetryDelayValue` is the statement about the loop of `retryDelay` for
  every attempt: no round overflows, since a delay is doubled only below the cap. `BackoffInv`
  ties the stored backoff to the worker that computed it.
- `LogOfAttemptFits`: from `ReportsInv`: n reports take up at least (n - 1) * every lines, and a
  job has fewer than (every + 1) * Progress (`EveryType`); `FewReports` concludes.

**WebPageProofs**, for any runs and jobs, any length of a log, any number of requests under way,
clicks and broken connections.

- `WebPageTypeCorrect`, `LogIsFaithful`: `LogFaithful` is inductive with `TypeOK` and `RetryInv`:
  when the log has ended there is neither a stream nor a Reconnect button, and a button belongs to
  the selected run. Hence `onerror` always finds its own stream, closes it, and the
  branch that leaves reconnecting to the browser is never taken.
- `MetaBelongsToSelection`: the action property, from `AnswersInv`: the answer to a request about
  a run is about that run.

**NumberLemmas** holds what these proofs need of numbers. The provers know no induction;
`LeastElement` takes its place: a statement that fails for some number fails for a least one.
Nor do they know powers; `PowerPositive` and `PowerDoubles` are derived from the number of
subsets of a finite set. `MinOfSet`, `MaxOfSet` and the like say what `Min` and `Max` choose.

Only model-checked: liveness (`EventuallyFinal`, `ShutdownCompletes`, `OverdueFires`,
`StreamEnds`, `AllServe`, `CancelStops`, `TableCatchesUp`, `PanelFollows`, `LogCatchesUp`), which,
like ENABLED, is out of the prover's reach.

## 7. Plan

Done, in this order: run table, topic, worker, their composition, the ledger and their proofs;
scheduler and its proofs; run log and stream; migrations and startup; the executor and
`retryDelay`; the web page; the proofs about the last four; the executor and the ledger. Every
invariant and action property that a run checks is a theorem.

Next, most valuable first:

1. The safety half of the liveness arguments: that in each state that is not final the next
   statement of someone selects the run (what `EventuallyFinal` needs besides fairness), and that
   a drain always has a goroutine whose next step is enabled (`ShutdownCompletes`).
2. Scheduler: how far a replica's clock may be behind for `NoReplay` to hold, instead of the
   assumption that it is not.

## 8. Not modelled

- Cron expressions: parsing and evaluation are the library's; `NextRun` is a parameter.
- The graceful shutdown of the HTTP server (`cmd/api/main.go`): it waits for its handlers, streams
  among them, for ten seconds. A handler that is cut off is a crash of the API in JobSystem and a
  broken stream in RunLog.
- Reading the environment, except the check of the retry delays.
- `jobctl` besides `logs`: one request and one answer, printed. `jobctl logs` reads pages of 1000
  lines, each for the attempt that is current by then; with at most 41 lines an attempt
  (`LogFits`) there is no second page.
- The page's jobs table, its form, and everything that only formats.
- Lists and reads of the API, except as the page uses them; health checks; the deployment of
  Kafka and Postgres.
