------------------------------- MODULE RunLog -------------------------------
(***************************************************************************)
(* The log of one run: the buffered logger each attempt has                *)
(* (internal/worker/runlog.go), the job_logs table, the stream that        *)
(* follows the log (internal/api/stream.go), and the clients of the        *)
(* stream, of which jobctl's follow exits with the status it was told.     *)
(*                                                                         *)
(* The run's row changes as JobSystem says; what matters here is who ends  *)
(* an attempt: its own goroutine, once its log is closed, or the reaper,   *)
(* at any time, while the goroutine goes on unaware.  No step of a         *)
(* goroutine is fair: a worker that dies is one that takes no more steps.  *)
(***************************************************************************)
EXTENDS Naturals, FiniteSets, FiniteSetsExt, Faults

CONSTANTS MaxAttempt,    \* the run is not retried beyond this attempt
          MaxLines,      \* how many lines the job logs at most, by attempt
          LogMaxBatch,   \* logMaxBatch
          StreamBatch,   \* streamBatch
          StreamStarts   \* the attempt and from_seq streams are asked to start at

ASSUME RunLogAssumption ==
  /\ MaxAttempt \in Nat \ {0} /\ MaxLines \in [1..MaxAttempt -> Nat]
  /\ LogMaxBatch \in Nat \ {0} /\ StreamBatch \in Nat \ {0}
  /\ StreamStarts \subseteq (1..MaxAttempt) \X (Nat \ {0})

Attempts == 1..MaxAttempt
Seqs     == Nat \ {0}
Final    == {"SUCCEEDED", "FAILED"}
Run      == [status : {"QUEUED", "RUNNING"} \cup Final, attempt : Attempts]

VARIABLES run,      \* the run's status and attempt
          logger,   \* each attempt's runLogger and the goroutines that use it
          logs,     \* job_logs: the seqs stored for each attempt
          dropped,  \* the seqs whose insertion failed
          late,     \* the seqs stored after a later one, or after the attempt
          stream    \* handleStreamLogs

vars == <<run, logger, logs, dropped, late, stream, faults>>

\* phase, of the goroutine of execute:
\*   job: in job.Run;  full: about to flush a full buffer;  append: inserting;
\*   closing: waiting for the loop to stop;  last: inserting the rest;
\*   closed: about to write the result;  gone: not started, or over
\* loop: the flush loop is waiting, inserting or has returned
\* buf, batch, ticked: the lines buffered, and those each of the two inserts
Logger == [phase : {"job", "full", "append", "closing", "last", "closed", "gone"},
           loop : {"wait", "append", "stopped"},
           seq : Nat,
           buf : SUBSET Seqs, batch : SUBSET Seqs, ticked : SUBSET Seqs]

NoLogger == [phase |-> "gone", loop |-> "stopped", seq |-> 0,
             buf |-> {}, batch |-> {}, ticked |-> {}]

Nothing == [a \in Attempts |-> {}]

\* phase: run, lines, decide: what the handler does next;  ended: it has sent
\* the end event;  closed: no stream is open, or it broke off
\* start: what the client asked for;  snap: the run as the stream has last read
\* it;  shown: the lines it has sent
Stream == [phase : {"run", "lines", "decide", "ended", "closed"}, attempt : Attempts,
           next : Nat, start : Attempts \X Nat, snap : Run,
           shown : [Attempts -> SUBSET Seqs]]

NoStream == [phase |-> "closed", attempt |-> 1, next |-> 1, start |-> <<1, 1>>,
             snap |-> [status |-> "QUEUED", attempt |-> 1], shown |-> Nothing]

TypeOK ==
  /\ run \in Run
  /\ logger \in [Attempts -> Logger]
  /\ logs \in [Attempts -> SUBSET Seqs]
  /\ dropped \in [Attempts -> SUBSET Seqs]
  /\ late \in [Attempts -> SUBSET Seqs]
  /\ stream \in Stream
  /\ FaultsTypeOK

Init ==
  /\ run = [status |-> "QUEUED", attempt |-> 1]
  /\ logger = [a \in Attempts |-> NoLogger]
  /\ logs = Nothing /\ dropped = Nothing /\ late = Nothing
  /\ stream = NoStream
  /\ FaultsInit

-----------------------------------------------------------------------------
\* The run's row.

Owned(a) == run = [status |-> "RUNNING", attempt |-> a]

\* An attempt ends: in a final status or requeued as the next attempt.
Ends(statuses) ==
  \/ \E s \in statuses : run' = [run EXCEPT !.status = s]
  \/ /\ run.attempt < MaxAttempt
     /\ run' = [status |-> "QUEUED", attempt |-> run.attempt + 1]

\* A worker claims the run and starts the attempt's logger.
Claim ==
  /\ run.status = "QUEUED"
  /\ run' = [run EXCEPT !.status = "RUNNING"]
  /\ logger' = [logger EXCEPT ![run.attempt] =
                  [NoLogger EXCEPT !.phase = "job", !.loop = "wait"]]
  /\ UNCHANGED <<logs, dropped, late, stream, faults>>

\* Mutant: the result is written whoever owns the attempt.
EndAnyAttempt(a) ==
  /\ logger[a].phase = "closed"
  /\ logger' = [logger EXCEPT ![a] = NoLogger]
  /\ Ends(Final)
  /\ UNCHANGED <<logs, dropped, late, stream, faults>>

\* The result of an attempt is written, if the worker still owns it.
EndAttempt(a) ==
  /\ logger[a].phase = "closed"
  /\ logger' = [logger EXCEPT ![a] = NoLogger]
  /\ IF Owned(a) THEN Ends(Final) ELSE UNCHANGED run
  /\ UNCHANGED <<logs, dropped, late, stream, faults>>

\* The reaper takes the run away from a worker that is slow or dead.
Reap ==
  /\ run.status = "RUNNING"
  /\ Ends({"FAILED"})
  /\ UNCHANGED <<logger, logs, dropped, late, stream, faults>>

\* The API fails a run it could not dispatch.
FailQueuedRun ==
  /\ run.status = "QUEUED"
  /\ run' = [run EXCEPT !.status = "FAILED"]
  /\ UNCHANGED <<logger, logs, dropped, late, stream, faults>>

-----------------------------------------------------------------------------
\* runLogger.  The mutex guards seq and buf only: the goroutine of the job and
\* the flush loop insert their batches concurrently.

\* AppendLogs: its INSERT is carried out, and whether its answer arrives or is
\* reported as an error makes no difference, as flush goes on alike and inserts
\* no line twice; or it is not, and the lines are lost.
AppendLogs(a, lines) ==
  \/ /\ logs' = [logs EXCEPT ![a] = @ \cup lines]
     /\ late' = [late EXCEPT ![a] = @ \cup
                   {s \in lines : ~Owned(a) \/ \E t \in logs[a] : t > s}]
     /\ UNCHANGED <<dropped, faults>>
  \/ /\ dropped' = [dropped EXCEPT ![a] = @ \cup lines]
     /\ Fault("db")
     /\ UNCHANGED <<logs, late>>

\* Mutant: a full buffer is left to the loop.
LogOnly(a) ==
  LET l == logger[a] IN
  /\ l.phase = "job"
  /\ l.seq < MaxLines[a]
  /\ logger' = [logger EXCEPT ![a].seq = @ + 1, ![a].buf = @ \cup {l.seq + 1}]
  /\ UNCHANGED <<run, logs, dropped, late, stream, faults>>

\* Log, up to the flush of a full buffer.
Log(a) ==
  LET l == logger[a] IN
  /\ l.phase = "job"
  /\ l.seq < MaxLines[a]
  /\ logger' = [logger EXCEPT
       ![a].seq = @ + 1,
       ![a].buf = @ \cup {l.seq + 1},
       ![a].phase = IF Cardinality(l.buf) + 1 >= LogMaxBatch THEN "full" ELSE "job"]
  /\ UNCHANGED <<run, logs, dropped, late, stream, faults>>

\* flush in the goroutine of the job: it takes the buffer, if there is any.
Take(a, inserting, after) ==
  /\ logger' = [logger EXCEPT ![a].batch = logger[a].buf, ![a].buf = {},
                              ![a].phase = IF logger[a].buf = {} THEN after ELSE inserting]
  /\ UNCHANGED <<run, logs, dropped, late, stream, faults>>

FlushFull(a) == logger[a].phase = "full" /\ Take(a, "append", "job")

\* Then it inserts what it took.
Inserted(a) ==
  /\ logger[a].phase \in {"append", "last"}
  /\ AppendLogs(a, logger[a].batch)
  /\ logger' = [logger EXCEPT ![a].batch = {},
                  ![a].phase = IF @ = "last" THEN "closed" ELSE "job"]
  /\ UNCHANGED <<run, stream>>

\* A tick of loop: take the buffer, then insert.
LoopFlush(a) ==
  /\ logger[a].loop = "wait"
  /\ logger[a].buf # {}
  /\ logger' = [logger EXCEPT ![a].ticked = logger[a].buf, ![a].buf = {},
                              ![a].loop = "append"]
  /\ UNCHANGED <<run, logs, dropped, late, stream, faults>>

LoopInserted(a) ==
  /\ logger[a].loop = "append"
  /\ AppendLogs(a, logger[a].ticked)
  /\ logger' = [logger EXCEPT ![a].ticked = {}, ![a].loop = "wait"]
  /\ UNCHANGED <<run, stream>>

\* The job has returned: Close closes stop.
JobReturns(a) ==
  /\ logger[a].phase = "job"
  /\ logger' = [logger EXCEPT ![a].phase = "closing"]
  /\ UNCHANGED <<run, logs, dropped, late, stream, faults>>

LoopStops(a) ==
  /\ logger[a].phase = "closing"
  /\ logger[a].loop = "wait"
  /\ logger' = [logger EXCEPT ![a].loop = "stopped"]
  /\ UNCHANGED <<run, logs, dropped, late, stream, faults>>

\* Mutant: Close does not wait for the loop.
CloseAtOnce(a) == logger[a].phase = "closing" /\ Take(a, "last", "closed")

\* Close has waited for the loop and flushes the rest.
Close(a) ==
  /\ logger[a].phase = "closing"
  /\ logger[a].loop = "stopped"
  /\ Take(a, "last", "closed")

-----------------------------------------------------------------------------
\* handleStreamLogs.

\* ListLogs: the first n seqs of an attempt from seq on.
ListLogs(a, seq, n) ==
  LET rest == {s \in logs[a] : s >= seq} IN
  {s \in rest : Cardinality({t \in rest : t < s}) < n}

\* What follows the last of some lines, or seq when there are none.
NextSeq(lines, seq) == IF lines = {} THEN seq ELSE Max(lines) + 1

\* A client asks for the stream, for an attempt there has been.
StreamOpens ==
  /\ stream = NoStream
  /\ \E start \in StreamStarts :
       /\ start[1] <= run.attempt
       /\ stream' = [NoStream EXCEPT !.phase = "run", !.start = start,
                                     !.attempt = start[1], !.next = start[2]]
  /\ UNCHANGED <<run, logger, logs, dropped, late, faults>>

\* A query fails, the API dies or the client leaves.  follow then returns
\* "stream closed before the run finished".
StreamBreaks ==
  /\ stream.phase \in {"run", "lines", "decide"}
  /\ stream' = NoStream
  /\ UNCHANGED <<run, logger, logs, dropped, late, faults>>

\* Mutant: the run is not read again.
StreamPolls ==
  /\ stream.phase = "run"
  /\ stream' = [stream EXCEPT !.phase = "lines"]
  /\ UNCHANGED <<run, logger, logs, dropped, late, faults>>

\* GetRun, before the lines.
StreamRun ==
  /\ stream.phase = "run"
  /\ stream' = [stream EXCEPT !.phase = "lines", !.snap = run]
  /\ UNCHANGED <<run, logger, logs, dropped, late, faults>>

\* One ListLogs; the last of them is the one that returns fewer lines than asked.
StreamLines ==
  LET lines == ListLogs(stream.attempt, stream.next, StreamBatch) IN
  /\ stream.phase = "lines"
  /\ stream' = [stream EXCEPT
       !.shown[stream.attempt] = @ \cup lines,
       !.next = NextSeq(lines, stream.next),
       !.phase = IF Cardinality(lines) < StreamBatch THEN "decide" ELSE "lines"]
  /\ UNCHANGED <<run, logger, logs, dropped, late, faults>>

\* Mutant: the run is read after the lines.
SeenNow == run

\* The run as the stream knows it.
Seen == stream.snap

\* Mutant: off by one.
AttemptOverEarly == stream.attempt <= Seen.attempt

\* The run has gone on to another attempt.
AttemptOver == stream.attempt < Seen.attempt

\* After the lines: go on to the next attempt, end, or poll again.
StreamDecides ==
  /\ stream.phase = "decide"
  /\ stream' = IF AttemptOver
               THEN [stream EXCEPT !.attempt = @ + 1, !.next = 1, !.phase = "run"]
               ELSE [stream EXCEPT !.phase = IF Seen.status \in Final
                                            THEN "ended" ELSE "run"]
  /\ UNCHANGED <<run, logger, logs, dropped, late, faults>>

-----------------------------------------------------------------------------

LoggerNext(a) ==
  \/ Log(a) \/ FlushFull(a) \/ Inserted(a) \/ JobReturns(a) \/ Close(a)
  \/ LoopFlush(a) \/ LoopInserted(a) \/ LoopStops(a)
  \/ EndAttempt(a)

Next ==
  \/ Claim \/ Reap \/ FailQueuedRun
  \/ \E a \in Attempts : LoggerNext(a)
  \/ StreamOpens \/ StreamRun \/ StreamLines \/ StreamDecides \/ StreamBreaks

Spec == Init /\ [][Next]_vars

\* The stream polls for as long as its client listens.
FairSpec ==
  Spec /\ WF_vars(StreamRun) /\ WF_vars(StreamLines) /\ WF_vars(StreamDecides)

-----------------------------------------------------------------------------
\* Invariants.

\* execute: "flush the log before the status changes".  When an attempt's
\* result is about to be written, every line of the attempt is stored or was
\* dropped by a failed insertion: no line is still in the buffer or in the
\* hands of the flush loop.
FlushedBeforeEnd ==
  \A a \in Attempts :
    logger[a].phase = "closed" => 1..logger[a].seq \subseteq logs[a] \cup dropped[a]

\* The buffer never holds more than a batch, although it is flushed outside
\* the mutex.
BufferBounded == \A a \in Attempts : Cardinality(logger[a].buf) <= LogMaxBatch

\* A stream that has ended has shown every line from its starting point on, of
\* that attempt and of every later one, that was stored in time: while the
\* attempt owned the run and before any later line.
StreamTimely ==
  stream.phase = "ended" =>
    \A a \in stream.start[1]..MaxAttempt : \A s \in logs[a] :
      \/ s \in stream.shown[a] \cup late[a]
      \/ a = stream.start[1] /\ s < stream.start[2]

\* follow: "streams a run's log until the run finishes, and fails if the run
\* did".  The status and attempt the end event names, and jobctl exits with, are
\* the run's for good, although a reaped worker may still write its result.
FollowTruthful == stream.phase = "ended" => stream.snap = run

-----------------------------------------------------------------------------
\* Liveness, under FairSpec.

Following == stream.phase \in {"run", "lines", "decide"}

\* A stream of a run that is over ends or breaks off: it does not poll for ever.
StreamEnds == run.status \in Final /\ Following ~> ~Following
=============================================================================
