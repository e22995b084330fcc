---------------------------- MODULE RunLogProofs -----------------------------
(***************************************************************************)
(* Proofs about the run log and its stream, for any number of attempts and *)
(* lines, any size of the buffer and of the stream's batches, streams that *)
(* start anywhere, and any number of failed insertions.                    *)
(*                                                                         *)
(* The logger's half rests on LoggerInv: a line that was logged is in one   *)
(* of the places that the phase of its goroutine allows.  The stream's half    *)
(* rests on StreamInv: the stream is never ahead of the run, and what was  *)
(* stored behind its back is late.                                         *)
(***************************************************************************)
EXTENDS RunLog, NumberLemmas, TLAPS

-----------------------------------------------------------------------------
\* ListLogs.

\* What ListLogs returns is stored, and from seq on.
LEMMA PageStored ==
  ASSUME NEW a, NEW seq, NEW n
  PROVE  ListLogs(a, seq, n) \subseteq {s \in logs[a] : s >= seq}
BY DEF ListLogs

\* ListLogs leaves out no line before one that it returns.
LEMMA PageClosed ==
  ASSUME NEW a, logs[a] \subseteq Nat, IsFiniteSet(logs[a]), NEW seq \in Nat, NEW n \in Nat,
         NEW m \in ListLogs(a, seq, n), NEW s \in logs[a], seq <= s, s <= m
  PROVE  s \in ListLogs(a, seq, n)
<1> DEFINE rest == {t \in logs[a] : t >= seq}
           Below(x) == {t \in rest : t < x}
<1>1. m \in rest /\ s \in rest /\ Cardinality(Below(m)) < n
  BY DEF ListLogs
<1>2. IsFiniteSet(Below(m)) /\ Below(s) \subseteq Below(m)
  <2>1. Below(m) \subseteq logs[a]
    OBVIOUS
  <2>2. IsFiniteSet(Below(m))
    BY <2>1, FS_Subset
  <2> QED BY <1>1, <2>2
<1>3. /\ Cardinality(Below(s)) <= Cardinality(Below(m))
      /\ Cardinality(Below(s)) \in Nat /\ Cardinality(Below(m)) \in Nat
  BY <1>2, FS_Subset, FS_CardinalityType
<1>4. Cardinality(Below(s)) < n
  BY <1>1, <1>3
<1> QED BY <1>1, <1>4 DEF ListLogs

\* A page that is not full is the last one.
LEMMA ShortPage ==
  ASSUME NEW a, logs[a] \subseteq Nat, IsFiniteSet(logs[a]), NEW seq \in Nat, NEW n \in Nat,
         Cardinality(ListLogs(a, seq, n)) < n
  PROVE  ListLogs(a, seq, n) = {s \in logs[a] : s >= seq}
<1> DEFINE rest == {t \in logs[a] : t >= seq}
           Below(x) == {t \in rest : t < x}
           page == ListLogs(a, seq, n)
           missing == rest \ page
<1>1. page = {s \in rest : Cardinality(Below(s)) < n}
  BY DEF ListLogs
<1>2. SUFFICES ASSUME missing # {} PROVE FALSE
  BY <1>1
<1>3. PICK s \in missing : \A t \in missing : s <= t
  <2>1. missing \in SUBSET Nat
    OBVIOUS
  <2> HIDE DEF missing
  <2> QED BY <1>2, <2>1, LeastElement
<1>4. Below(s) \subseteq page
  BY <1>3
<1>5. IsFiniteSet(page)
  <2>1. page \subseteq logs[a]
    BY <1>1
  <2> QED BY <2>1, FS_Subset
<1> HIDE DEF page
<1>6. IsFiniteSet(Below(s)) /\ Cardinality(Below(s)) <= Cardinality(page)
      /\ Cardinality(page) \in Nat /\ Cardinality(Below(s)) \in Nat
  <2>1. IsFiniteSet(Below(s)) /\ Cardinality(Below(s)) <= Cardinality(page)
    BY <1>4, <1>5, FS_Subset
  <2> QED BY <1>5, <2>1, FS_CardinalityType
<1>7. ~(Cardinality(Below(s)) < n)
  BY <1>1, <1>3
<1>8. Cardinality(page) < n
  BY DEF page
<1> QED BY <1>6, <1>7, <1>8

\* NextSeq goes past a page, and no further.
LEMMA NextSeqPast ==
  ASSUME NEW lines \in SUBSET Nat, IsFiniteSet(lines), NEW seq \in Nat
  PROVE  /\ NextSeq(lines, seq) \in Nat
         /\ lines = {} => NextSeq(lines, seq) = seq
         /\ lines # {} => NextSeq(lines, seq) - 1 \in lines
<1>1. CASE lines = {}
  BY <1>1 DEF NextSeq
<1>2. CASE lines # {}
  <2>1. Max(lines) \in lines
    BY <1>2, MaxOfSet
  <2>2. PICK m \in Nat : m = Max(lines)
    BY <2>1
  <2>3. NextSeq(lines, seq) = Max(lines) + 1
    BY <1>2 DEF NextSeq
  <2>4. (m + 1) - 1 = m /\ m + 1 \in Nat
    OBVIOUS
  <2> QED BY <1>2, <2>1, <2>2, <2>3, <2>4
<1> QED BY <1>1, <1>2

-----------------------------------------------------------------------------
\* Types.

LogsFinite == \A a \in Attempts : IsFiniteSet(logs[a])

LEMMA EndsType ==
  ASSUME TypeOK, NEW statuses \in SUBSET Final, Ends(statuses)
  PROVE  run' \in Run
<1>1. run \in Run /\ MaxAttempt \in Nat
  BY RunLogAssumption DEF TypeOK
<1>2. CASE \E s \in statuses : run' = [run EXCEPT !.status = s]
  BY <1>1, <1>2 DEF Run
<1>3. CASE /\ run.attempt < MaxAttempt
           /\ run' = [status |-> "QUEUED", attempt |-> run.attempt + 1]
  BY <1>1, <1>3 DEF Run, Attempts
<1> QED BY <1>2, <1>3 DEF Ends

LEMMA AppendLogsType ==
  ASSUME TypeOK, LogsFinite, NEW a \in Attempts, NEW lines \in SUBSET Seqs,
         IsFiniteSet(lines), AppendLogs(a, lines)
  PROVE  /\ logs' \in [Attempts -> SUBSET Seqs] /\ LogsFinite'
         /\ dropped' \in [Attempts -> SUBSET Seqs]
         /\ late' \in [Attempts -> SUBSET Seqs]
         /\ FaultsTypeOK'
<1>1. CASE UNCHANGED <<dropped, faults>>
           /\ logs' = [logs EXCEPT ![a] = @ \cup lines]
           /\ late' = [late EXCEPT ![a] = @ \cup
                         {s \in lines : ~Owned(a) \/ \E t \in logs[a] : t > s}]
  <2>1. IsFiniteSet(logs[a] \cup lines)
    BY FS_Union DEF LogsFinite
  <2>2. LogsFinite'
    BY <1>1, <2>1 DEF LogsFinite, TypeOK
  <2> QED BY <1>1, <2>2 DEF TypeOK, FaultsTypeOK
<1>2. CASE /\ dropped' = [dropped EXCEPT ![a] = @ \cup lines]
           /\ Fault("db") /\ UNCHANGED <<logs, late>>
  BY <1>2 DEF TypeOK, FaultsTypeOK, Fault, FaultKinds, LogsFinite
<1> QED BY <1>1, <1>2 DEF AppendLogs

\* The steps of the stream.
StreamNext == StreamOpens \/ StreamRun \/ StreamLines \/ StreamDecides \/ StreamBreaks

LEMMA StreamType ==
  ASSUME TypeOK, LogsFinite, StreamNext
  PROVE  stream' \in Stream /\ UNCHANGED <<run, logger, logs, dropped, late, faults>>
<1>0. stream \in Stream /\ run \in Run /\ NoStream \in Stream
  <2>1. 1 \in Attempts
    BY RunLogAssumption DEF Attempts
  <2> QED BY <2>1 DEF TypeOK, NoStream, Stream, Run, Nothing
<1>1. CASE StreamOpens
  <2>1. PICK start \in StreamStarts :
          stream' = [NoStream EXCEPT !.phase = "run", !.start = start,
                                     !.attempt = start[1], !.next = start[2]]
    BY <1>1 DEF StreamOpens
  <2>2. start \in Attempts \X Nat /\ start[1] \in Attempts /\ start[2] \in Nat
    BY RunLogAssumption DEF Attempts
  <2> QED BY <1>0, <1>1, <2>1, <2>2 DEF StreamOpens, Stream
<1>2. CASE StreamRun
  BY <1>0, <1>2 DEF StreamRun, Stream
<1>3. CASE StreamLines
  <2> DEFINE a == stream.attempt
             lines == ListLogs(a, stream.next, StreamBatch)
  <2>1. a \in Attempts /\ stream.next \in Nat /\ logs[a] \in SUBSET Seqs
        /\ stream.shown \in [Attempts -> SUBSET Seqs]
    BY <1>0 DEF Stream, TypeOK
  <2>2. lines \subseteq logs[a]
    BY PageStored
  <2>3. lines \in SUBSET Nat /\ IsFiniteSet(lines)
    BY <2>1, <2>2, FS_Subset DEF LogsFinite, Seqs
  <2> HIDE DEF lines
  <2>4. NextSeq(lines, stream.next) \in Nat
    BY <2>1, <2>3, NextSeqPast
  <2>5. stream.shown[a] \cup lines \in SUBSET Seqs
    BY <2>1, <2>2
  <2>6. PICK phase \in {"decide", "lines"} :
          stream' = [stream EXCEPT !.shown[a] = @ \cup lines,
                                   !.next = NextSeq(lines, stream.next), !.phase = phase]
    BY <1>3 DEF StreamLines, lines
  <2>7. [stream.shown EXCEPT ![a] = stream.shown[a] \cup lines] \in [Attempts -> SUBSET Seqs]
    BY <2>1, <2>5
  <2>8. stream' \in Stream
    BY <1>0, <2>4, <2>6, <2>7 DEF Stream
  <2> QED BY <1>3, <2>8 DEF StreamLines
<1>4. CASE StreamDecides
  <2>1. CASE AttemptOver
    <3>1. stream.attempt + 1 \in Attempts
      <4>1. stream.attempt \in Attempts /\ stream.snap.attempt \in Attempts
        BY <1>0 DEF Stream, Run
      <4>2. stream.attempt < stream.snap.attempt
        BY <2>1 DEF AttemptOver, Seen
      <4> QED BY <4>1, <4>2, RunLogAssumption DEF Attempts
    <3> QED BY <1>0, <1>4, <2>1, <3>1 DEF StreamDecides, Stream
  <2>2. CASE ~AttemptOver
    BY <1>0, <1>4, <2>2 DEF StreamDecides, Stream
  <2> QED BY <2>1, <2>2
<1>5. CASE StreamBreaks
  BY <1>0, <1>5 DEF StreamBreaks
<1> QED BY <1>1, <1>2, <1>3, <1>4, <1>5 DEF StreamNext, StreamOpens, StreamRun, StreamLines,
                                            StreamDecides, StreamBreaks

-----------------------------------------------------------------------------
\* The logger.

\* A logger and what is stored or dropped of its attempt: every line is
\* somewhere, a batch is in the hands of the goroutine that inserts it, and the
\* buffer has room whenever the job may log.
Sound(l, stored) ==
  /\ l.buf \cup l.batch \cup l.ticked \subseteq 1..l.seq
  /\ 1..l.seq \subseteq l.buf \cup l.batch \cup l.ticked \cup stored
  /\ l.phase \notin {"append", "last"} => l.batch = {}
  /\ l.loop # "append" => l.ticked = {}
  /\ l.phase \in {"last", "closed"} => l.loop = "stopped"
  /\ l.phase \in {"append", "last", "closed"} => l.buf = {}
  /\ Cardinality(l.buf) <= LogMaxBatch
  /\ l.phase \in {"job", "closing"} => Cardinality(l.buf) < LogMaxBatch

LoggerInv == \A a \in Attempts : Sound(logger[a], logs[a] \cup dropped[a])

\* A buffer is emptied in one piece.
LEMMA EmptyBuffer == Cardinality({}) = 0 /\ 0 < LogMaxBatch /\ LogMaxBatch \in Nat
BY FS_EmptySet, RunLogAssumption

LEMMA NoLoggerSound == NoLogger \in Logger /\ \A stored : Sound(NoLogger, stored)
BY EmptyBuffer DEF NoLogger, Logger, Sound

\* What an attempt inserts is a finite set of lines.
LEMMA LinesFinite ==
  ASSUME TypeOK, LoggerInv, NEW a \in Attempts
  PROVE  \A lines \in {logger[a].buf, logger[a].batch, logger[a].ticked} :
           lines \in SUBSET Seqs /\ IsFiniteSet(lines)
<1>1. logger[a].seq \in Nat
  BY DEF TypeOK, Logger
<1>2. IsFiniteSet(1..logger[a].seq)
  BY <1>1, FS_Interval
<1>3. \A lines \in {logger[a].buf, logger[a].batch, logger[a].ticked} :
        lines \subseteq 1..logger[a].seq
  BY DEF LoggerInv, Sound
<1> QED BY <1>1, <1>2, <1>3, FS_Subset DEF Seqs

\* The database's part of a step of an attempt's goroutines.
LEMMA StoreStep ==
  ASSUME TypeOK, LoggerInv, NEW a \in Attempts, LoggerNext(a)
  PROVE  \/ UNCHANGED <<logs, dropped, late, faults>>
         \/ /\ UNCHANGED run
            /\ \E lines \in SUBSET Seqs : IsFiniteSet(lines) /\ AppendLogs(a, lines)
<1>1. CASE Inserted(a) \/ LoopInserted(a)
  BY <1>1, LinesFinite DEF Inserted, LoopInserted
<1>2. CASE \/ Log(a) \/ FlushFull(a) \/ JobReturns(a) \/ Close(a)
           \/ LoopFlush(a) \/ LoopStops(a) \/ EndAttempt(a)
  BY <1>2 DEF Log, FlushFull, Close, Take, JobReturns, LoopFlush, LoopStops, EndAttempt
<1> QED BY <1>1, <1>2 DEF LoggerNext

\* AppendLogs puts the lines in one of two places and removes none.
LEMMA StoredGrows ==
  ASSUME TypeOK, NEW a \in Attempts, NEW lines, AppendLogs(a, lines)
  PROVE  /\ logs[a] \cup dropped[a] \cup lines \subseteq logs'[a] \cup dropped'[a]
         /\ \A b \in Attempts : logs[b] \cup dropped[b] \subseteq logs'[b] \cup dropped'[b]
BY DEF AppendLogs, TypeOK

\* The goroutines of an attempt keep its logger sound, and touch no other.
LEMMA LoggerStep ==
  ASSUME TypeOK, LoggerInv, NEW a \in Attempts, LoggerNext(a)
  PROVE  /\ logger' = [logger EXCEPT ![a] = logger'[a]]
         /\ logger'[a] \in Logger /\ Sound(logger'[a], logs'[a] \cup dropped'[a])
<1> DEFINE l == logger[a]
           stored == logs[a] \cup dropped[a]
           Goal == /\ logger' = [logger EXCEPT ![a] = logger'[a]]
                   /\ logger'[a] \in Logger
                   /\ Sound(logger'[a], logs'[a] \cup dropped'[a])
<1>0. logger \in [Attempts -> Logger] /\ l \in Logger /\ Sound(l, stored)
  BY DEF TypeOK, LoggerInv
<1>1. CASE Log(a)
  <2> DEFINE phase == IF Cardinality(l.buf) + 1 >= LogMaxBatch THEN "full" ELSE "job"
             r == [l EXCEPT !.seq = l.seq + 1, !.buf = l.buf \cup {l.seq + 1},
                            !.phase = phase]
  <2>1. logger' = [logger EXCEPT ![a] = r] /\ UNCHANGED <<logs, dropped>>
    BY <1>0, <1>1 DEF Log, Logger
  <2>2. l.seq \in Nat /\ l.buf \subseteq 1..l.seq /\ IsFiniteSet(l.buf)
    BY <1>0, LinesFinite DEF Logger, Sound
  <2>3. /\ Cardinality(l.buf \cup {l.seq + 1}) = Cardinality(l.buf) + 1
        /\ Cardinality(l.buf) \in Nat /\ Cardinality(l.buf) < LogMaxBatch
    <3>1. l.seq + 1 \notin l.buf
      BY <2>2
    <3>2. Cardinality(l.buf) < LogMaxBatch
      BY <1>0, <1>1 DEF Log, Sound
    <3> QED BY <2>2, <3>1, <3>2, FS_AddElement, FS_CardinalityType
  <2>4. r \in Logger
    <3>1. phase \in {"full", "job"}
      OBVIOUS
    <3>2. PICK seq \in Nat : seq = l.seq + 1
      BY <2>2
    <3>3. PICK buf \in SUBSET Seqs : buf = l.buf \cup {l.seq + 1}
      <4>1. l.buf \in SUBSET Seqs
        BY <1>0 DEF Logger
      <4>2. l.seq + 1 \in Seqs
        BY <2>2 DEF Seqs
      <4> QED BY <4>1, <4>2
    <3> HIDE DEF phase, l
    <3>4. [l EXCEPT !.seq = seq, !.buf = buf, !.phase = phase] \in Logger
      BY <1>0, <3>1 DEF Logger
    <3> QED BY <3>2, <3>3, <3>4
  <2>5. /\ r.seq = l.seq + 1 /\ r.buf = l.buf \cup {l.seq + 1} /\ r.phase = phase
        /\ r.batch = l.batch /\ r.ticked = l.ticked /\ r.loop = l.loop
    BY <1>0 DEF Logger
  <2>6. 1..r.seq = (1..l.seq) \cup {l.seq + 1}
    BY <2>2, <2>5
  <2>7. l.phase = "job"
    BY <1>1 DEF Log
  <2> HIDE DEF r
  <2>8. Cardinality(r.buf) <= LogMaxBatch
        /\ (r.phase = "job" => Cardinality(r.buf) < LogMaxBatch)
        /\ r.phase \in {"job", "full"}
    BY <2>3, <2>5, EmptyBuffer
  <2>9. Sound(r, stored)
    BY <1>0, <2>5, <2>6, <2>7, <2>8 DEF Sound
  <2> QED BY <1>0, <2>1, <2>4, <2>9
<1>2. CASE FlushFull(a) \/ Close(a)
  <2>1. PICK inserting \in {"append", "last"}, after \in {"job", "closed"} :
          /\ Take(a, inserting, after)
          /\ \/ l.phase = "full" /\ inserting = "append" /\ after = "job"
             \/ /\ l.phase = "closing" /\ l.loop = "stopped"
                /\ inserting = "last" /\ after = "closed"
    BY <1>2 DEF FlushFull, Close
  <2> DEFINE r == [l EXCEPT !.batch = l.buf, !.buf = {},
                            !.phase = IF l.buf = {} THEN after ELSE inserting]
  <2>2. logger' = [logger EXCEPT ![a] = r] /\ UNCHANGED <<logs, dropped>>
    BY <1>0, <2>1 DEF Take, Logger
  <2>3. r \in Logger
    BY <1>0 DEF Logger
  <2>4. /\ r.seq = l.seq /\ r.buf = {} /\ r.batch = l.buf /\ r.ticked = l.ticked
        /\ r.loop = l.loop /\ r.phase = IF l.buf = {} THEN after ELSE inserting
    BY <1>0 DEF Logger
  <2>5. l.batch = {}
    BY <1>0, <2>1 DEF Sound
  <2> HIDE DEF r
  <2>6. Sound(r, stored)
    BY <1>0, <2>1, <2>4, <2>5, EmptyBuffer DEF Sound
  <2> QED BY <1>0, <2>2, <2>3, <2>6
<1>3. CASE Inserted(a)
  <2> DEFINE r == [l EXCEPT !.batch = {},
                            !.phase = IF l.phase = "last" THEN "closed" ELSE "job"]
  <2>1. logger' = [logger EXCEPT ![a] = r] /\ l.phase \in {"append", "last"}
    BY <1>0, <1>3 DEF Inserted, Logger
  <2>2. r \in Logger
    BY <1>0 DEF Logger
  <2>3. /\ r.seq = l.seq /\ r.buf = l.buf /\ r.batch = {} /\ r.ticked = l.ticked
        /\ r.loop = l.loop /\ r.phase = IF l.phase = "last" THEN "closed" ELSE "job"
    BY <1>0 DEF Logger
  <2>4. stored \cup l.batch \subseteq logs'[a] \cup dropped'[a]
    BY <1>3, StoredGrows DEF Inserted
  <2> HIDE DEF r
  <2>5. Sound(r, logs'[a] \cup dropped'[a])
    BY <1>0, <2>1, <2>3, <2>4, EmptyBuffer DEF Sound
  <2> QED BY <1>0, <2>1, <2>2, <2>5
<1>4. CASE LoopFlush(a)
  <2> DEFINE r == [l EXCEPT !.ticked = l.buf, !.buf = {}, !.loop = "append"]
  <2>1. logger' = [logger EXCEPT ![a] = r] /\ UNCHANGED <<logs, dropped>>
        /\ l.loop = "wait"
    BY <1>0, <1>4 DEF LoopFlush, Logger
  <2>2. r \in Logger
    BY <1>0 DEF Logger
  <2>3. /\ r.seq = l.seq /\ r.buf = {} /\ r.batch = l.batch /\ r.ticked = l.buf
        /\ r.loop = "append" /\ r.phase = l.phase
    BY <1>0 DEF Logger
  <2> HIDE DEF r
  <2>4. Sound(r, stored)
    BY <1>0, <2>1, <2>3, EmptyBuffer DEF Sound
  <2> QED BY <1>0, <2>1, <2>2, <2>4
<1>5. CASE LoopInserted(a)
  <2> DEFINE r == [l EXCEPT !.ticked = {}, !.loop = "wait"]
  <2>1. logger' = [logger EXCEPT ![a] = r] /\ l.loop = "append"
    BY <1>0, <1>5 DEF LoopInserted, Logger
  <2>2. r \in Logger
    BY <1>0 DEF Logger
  <2>3. /\ r.seq = l.seq /\ r.buf = l.buf /\ r.batch = l.batch /\ r.ticked = {}
        /\ r.loop = "wait" /\ r.phase = l.phase
    BY <1>0 DEF Logger
  <2>4. stored \cup l.ticked \subseteq logs'[a] \cup dropped'[a]
    BY <1>5, StoredGrows DEF LoopInserted
  <2> HIDE DEF r
  <2>5. Sound(r, logs'[a] \cup dropped'[a])
    BY <1>0, <2>1, <2>3, <2>4 DEF Sound
  <2> QED BY <1>0, <2>1, <2>2, <2>5
<1>6. CASE JobReturns(a)
  <2> DEFINE r == [l EXCEPT !.phase = "closing"]
  <2>1. logger' = [logger EXCEPT ![a] = r] /\ UNCHANGED <<logs, dropped>>
        /\ l.phase = "job"
    BY <1>0, <1>6 DEF JobReturns, Logger
  <2>2. r \in Logger
    BY <1>0 DEF Logger
  <2>3. /\ r.seq = l.seq /\ r.buf = l.buf /\ r.batch = l.batch /\ r.ticked = l.ticked
        /\ r.loop = l.loop /\ r.phase = "closing"
    BY <1>0 DEF Logger
  <2> HIDE DEF r
  <2>4. Sound(r, stored)
    BY <1>0, <2>1, <2>3 DEF Sound
  <2> QED BY <1>0, <2>1, <2>2, <2>4
<1>7. CASE LoopStops(a)
  <2> DEFINE r == [l EXCEPT !.loop = "stopped"]
  <2>1. logger' = [logger EXCEPT ![a] = r] /\ UNCHANGED <<logs, dropped>>
        /\ l.phase = "closing" /\ l.loop = "wait"
    BY <1>0, <1>7 DEF LoopStops, Logger
  <2>2. r \in Logger
    BY <1>0 DEF Logger
  <2>3. /\ r.seq = l.seq /\ r.buf = l.buf /\ r.batch = l.batch /\ r.ticked = l.ticked
        /\ r.loop = "stopped" /\ r.phase = l.phase
    BY <1>0 DEF Logger
  <2> HIDE DEF r
  <2>4. Sound(r, stored)
    BY <1>0, <2>1, <2>3 DEF Sound
  <2> QED BY <1>0, <2>1, <2>2, <2>4
<1>8. CASE EndAttempt(a)
  BY <1>0, <1>8, NoLoggerSound DEF EndAttempt
<1> QED BY <1>1, <1>2, <1>3, <1>4, <1>5, <1>6, <1>7, <1>8 DEF LoggerNext

\* TypeOK and LoggerInv, with the finiteness that ListLogs needs.
LogInv == TypeOK /\ LogsFinite /\ LoggerInv

LEMMA LogStep ==
  ASSUME LogInv, [Next]_vars
  PROVE  LogInv'
<1> USE DEF LogInv
<1>0. run \in Run /\ logger \in [Attempts -> Logger]
  BY DEF TypeOK
<1>1. ASSUME NEW a \in Attempts, LoggerNext(a) PROVE LogInv'
  <2>1. logger' \in [Attempts -> Logger]
    BY <1>0, <1>1, LoggerStep
  <2>2. run' \in Run /\ UNCHANGED stream
    <3>1. CASE EndAttempt(a)
      BY <1>0, <3>1, EndsType DEF EndAttempt
    <3>2. CASE ~EndAttempt(a)
      BY <1>0, <1>1, <3>2
         DEF LoggerNext, Log, FlushFull, Close, Take, Inserted, JobReturns, LoopFlush,
             LoopInserted, LoopStops
    <3> QED BY <3>1, <3>2
  <2>3. /\ logs' \in [Attempts -> SUBSET Seqs] /\ LogsFinite'
        /\ dropped' \in [Attempts -> SUBSET Seqs]
        /\ late' \in [Attempts -> SUBSET Seqs]
        /\ FaultsTypeOK'
    <3>1. CASE UNCHANGED <<logs, dropped, late, faults>>
      BY <3>1 DEF TypeOK, LogsFinite, FaultsTypeOK
    <3>2. ASSUME NEW lines \in SUBSET Seqs, IsFiniteSet(lines), AppendLogs(a, lines)
          PROVE  <2>3
      BY <3>2, AppendLogsType
    <3> QED BY <1>1, <3>1, <3>2, StoreStep
  <2>4. TypeOK'
    BY <2>1, <2>2, <2>3 DEF TypeOK
  <2>5. ASSUME NEW b \in Attempts PROVE Sound(logger'[b], logs'[b] \cup dropped'[b])
    <3>1. CASE b = a
      BY <1>1, <3>1, LoggerStep
    <3>2. CASE b # a
      <4>1. logger'[b] = logger[b]
        BY <1>0, <1>1, <3>2, LoggerStep
      <4>2. logs[b] \cup dropped[b] \subseteq logs'[b] \cup dropped'[b]
        BY <1>1, StoreStep, StoredGrows
      <4>3. Sound(logger[b], logs[b] \cup dropped[b])
        BY DEF LoggerInv
      <4> QED BY <4>1, <4>2, <4>3 DEF Sound
    <3> QED BY <3>1, <3>2
  <2> QED BY <2>3, <2>4, <2>5 DEF LoggerInv
<1>2. CASE Claim
  <2> DEFINE r == [NoLogger EXCEPT !.phase = "job", !.loop = "wait"]
  <2>1. r \in Logger /\ \A stored : Sound(r, stored)
    <3>1. NoLogger \in Logger
      BY NoLoggerSound
    <3>2. /\ r \in Logger /\ r.phase = "job" /\ r.loop = "wait" /\ r.seq = NoLogger.seq
          /\ r.buf = NoLogger.buf /\ r.batch = NoLogger.batch /\ r.ticked = NoLogger.ticked
      BY <3>1 DEF Logger
    <3> HIDE DEF r
    <3>3. \A stored : Sound(r, stored)
      BY <3>2, EmptyBuffer DEF NoLogger, Sound
    <3> QED BY <3>2, <3>3
  <2>2. run.attempt \in Attempts /\ run' \in Run
        /\ logger' = [logger EXCEPT ![run.attempt] = r]
        /\ UNCHANGED <<logs, dropped, late, stream, faults>>
    <3>1. run.attempt \in Attempts /\ [run EXCEPT !.status = "RUNNING"] \in Run
      BY <1>0 DEF Run
    <3> QED BY <1>2, <3>1 DEF Claim
  <2> HIDE DEF r
  <2>3. TypeOK'
    BY <2>1, <2>2 DEF TypeOK, FaultsTypeOK
  <2>4. LoggerInv'
    BY <1>0, <2>1, <2>2 DEF LoggerInv
  <2> QED BY <2>2, <2>3, <2>4 DEF LogsFinite
<1>3. CASE Reap \/ FailQueuedRun
  <2>1. run' \in Run /\ UNCHANGED <<logger, logs, dropped, late, stream, faults>>
    <3>1. CASE Reap
      BY <3>1, EndsType DEF Reap, Final
    <3>2. CASE FailQueuedRun
      BY <1>0, <3>2 DEF FailQueuedRun, Run, Final
    <3> QED BY <1>3, <3>1, <3>2
  <2> QED BY <2>1 DEF TypeOK, LogsFinite, LoggerInv, FaultsTypeOK
<1>4. CASE StreamNext
  BY <1>4, StreamType DEF TypeOK, LogsFinite, LoggerInv, FaultsTypeOK
<1>5. CASE UNCHANGED vars
  BY <1>5 DEF vars, TypeOK, LogsFinite, LoggerInv, FaultsTypeOK
<1> QED BY <1>1, <1>2, <1>3, <1>4, <1>5 DEF Next, StreamNext

LEMMA LogInit == ASSUME Init PROVE LogInv
<1>1. run \in Run /\ stream \in Stream
  <2>1. 1 \in Attempts
    BY RunLogAssumption DEF Attempts
  <2> QED BY <2>1 DEF Init, Run, NoStream, Stream, Nothing
<1>2. TypeOK
  BY <1>1, NoLoggerSound DEF Init, TypeOK, Nothing, FaultsInit, FaultsTypeOK
<1>3. LogsFinite
  BY FS_EmptySet DEF Init, LogsFinite, Nothing
<1>4. LoggerInv
  BY NoLoggerSound DEF Init, LoggerInv
<1> QED BY <1>2, <1>3, <1>4 DEF LogInv

LEMMA LogInvariant == Spec => []LogInv
BY LogInit, LogStep, PTL DEF Spec

\* The run's row, the loggers, the stored lines and the stream keep their types;
\* in particular the stream always knows which line comes next.
THEOREM RunLogTypeCorrect == Spec => []TypeOK
<1>1. LogInv => TypeOK
  BY DEF LogInv
<1> QED BY <1>1, LogInvariant, PTL

\* Before an attempt's result is written, each of its lines is stored or was
\* dropped, however the job's goroutine and the flush loop took turns.
THEOREM LogIsFlushedBeforeEnd == Spec => []FlushedBeforeEnd
<1>1. LogInv => FlushedBeforeEnd
  BY DEF LogInv, LoggerInv, Sound, FlushedBeforeEnd
<1> QED BY <1>1, LogInvariant, PTL

\* A buffer never outgrows a batch, for any size of it.
THEOREM BuffersAreBounded == Spec => []BufferBounded
<1>1. LogInv => BufferBounded
  BY DEF LogInv, LoggerInv, Sound, BufferBounded
<1> QED BY <1>1, LogInvariant, PTL

-----------------------------------------------------------------------------
\* The stream.

\* Attempts the run has not come to have no goroutines and no lines.
AttemptsInv ==
  \A a \in Attempts : a > run.attempt => logger[a] = NoLogger /\ logs[a] = {}

\* A stored line the stream need not show, or has shown.
Excused(a, s) ==
  \/ s \in stream.shown[a] \cup late[a]
  \/ a = stream.start[1] /\ s < stream.start[2]

\* The run as the stream knows it has left the attempt the stream is at.
SeenOver == AttemptOver \/ Seen.status \in Final

\* Where the stream is: between its start and the run, which it knows as it is
\* once it is final.
PositionInv ==
  /\ stream.start[1] <= stream.attempt /\ stream.attempt <= run.attempt
  /\ Seen.attempt <= run.attempt
  /\ stream.phase \in {"lines", "decide", "ended"} => stream.attempt <= Seen.attempt
  /\ Seen.status \in Final => Seen = run
  /\ stream.phase = "ended" => Seen.status \in Final /\ ~AttemptOver

\* What it has shown: all of the attempts before the one it is at; of that one
\* all before next, which follows a stored line or is where the stream began;
\* and all of it, once it has read the lines of an attempt it knew to be over.
ShownInv ==
  /\ \A a \in Attempts : stream.start[1] <= a /\ a < stream.attempt =>
       \A s \in logs[a] : Excused(a, s)
  /\ \A s \in logs[stream.attempt] : s < stream.next => Excused(stream.attempt, s)
  /\ \/ stream.next = 1 \/ stream.next - 1 \in logs[stream.attempt]
     \/ stream.attempt = stream.start[1] /\ stream.next = stream.start[2]
  /\ stream.phase \in {"decide", "ended"} /\ SeenOver =>
       \A s \in logs[stream.attempt] : Excused(stream.attempt, s)

StreamInv == stream.phase # "closed" => PositionInv /\ ShownInv

\* A run that is over stays as it is, and no attempt comes back.
LEMMA RunMoves ==
  ASSUME TypeOK, [Next]_vars
  PROVE  \/ run' = run
         \/ /\ run.status \notin Final /\ run'.attempt >= run.attempt
            /\ UNCHANGED <<logs, late, stream>>
<1>0. run \in Run /\ run.attempt \in Nat
  BY RunLogAssumption DEF TypeOK, Run, Attempts
<1>1. ASSUME NEW statuses, Ends(statuses) PROVE run'.attempt >= run.attempt
  <2>1. CASE \E s \in statuses : run' = [run EXCEPT !.status = s]
    BY <1>0, <2>1 DEF Run
  <2>2. CASE run' = [status |-> "QUEUED", attempt |-> run.attempt + 1]
    BY <1>0, <2>2
  <2> QED BY <1>1, <2>1, <2>2 DEF Ends
<1>2. CASE Claim \/ FailQueuedRun
  BY <1>0, <1>2 DEF Claim, FailQueuedRun, Run, Final
<1>3. CASE Reap
  BY <1>1, <1>3 DEF Reap, Final
<1>4. ASSUME NEW a \in Attempts, EndAttempt(a)
      PROVE  run' = run \/ (run.status \notin Final /\ run'.attempt >= run.attempt
                            /\ UNCHANGED <<logs, late, stream>>)
  BY <1>1, <1>4 DEF EndAttempt, Owned, Final
<1>5. ASSUME NEW a \in Attempts, LoggerNext(a), ~EndAttempt(a) PROVE run' = run
  BY <1>5 DEF LoggerNext, Log, FlushFull, Close, Take, Inserted, JobReturns, LoopFlush,
              LoopInserted, LoopStops
<1>6. CASE StreamNext \/ UNCHANGED vars
  BY <1>6 DEF StreamNext, StreamOpens, StreamRun, StreamLines, StreamDecides, StreamBreaks, vars
<1> QED BY <1>2, <1>3, <1>4, <1>5, <1>6 DEF Next, StreamNext

\* Only an attempt that has been claimed has goroutines that take steps.
LEMMA AttemptsStep ==
  ASSUME LogInv, AttemptsInv, [Next]_vars
  PROVE  AttemptsInv'
<1>0. /\ TypeOK /\ run \in Run /\ run.attempt \in Nat /\ run'.attempt \in Nat
      /\ \A a \in Attempts : a \in Nat
  <2>1. TypeOK /\ TypeOK'
    BY LogStep DEF LogInv
  <2> QED BY <2>1, RunLogAssumption DEF TypeOK, Run, Attempts
<1>1. run'.attempt >= run.attempt
  BY <1>0, RunMoves
<1>2. SUFFICES ASSUME NEW b \in Attempts, b > run.attempt
               PROVE  logger'[b] = NoLogger /\ logs'[b] = {}
  BY <1>0, <1>1 DEF AttemptsInv
<1>3. logger[b] = NoLogger /\ logs[b] = {}
  BY <1>2 DEF AttemptsInv
<1>4. logger \in [Attempts -> Logger] /\ logs \in [Attempts -> SUBSET Seqs]
  BY <1>0 DEF TypeOK
<1>5. ASSUME NEW a \in Attempts, LoggerNext(a) PROVE logger'[b] = NoLogger /\ logs'[b] = {}
  <2>1. a # b
    BY <1>3, <1>5
       DEF LoggerNext, Log, FlushFull, Close, Take, Inserted, JobReturns, LoopFlush,
           LoopInserted, LoopStops, EndAttempt, NoLogger
  <2>2. logger'[b] = logger[b]
    BY <1>0, <1>4, <1>5, <2>1, LoggerStep DEF LogInv
  <2>3. logs'[b] = logs[b]
    BY <1>0, <1>4, <1>5, <2>1, StoreStep DEF LogInv, AppendLogs
  <2> QED BY <1>3, <2>2, <2>3
<1>6. CASE Claim
  <2>1. b # run.attempt
    BY <1>0, <1>2
  <2> QED BY <1>3, <1>4, <1>6, <2>1 DEF Claim
<1>7. CASE Reap \/ FailQueuedRun \/ StreamNext \/ UNCHANGED vars
  BY <1>3, <1>7 DEF Reap, FailQueuedRun, StreamNext, StreamOpens, StreamRun, StreamLines,
                    StreamDecides, StreamBreaks, vars
<1> QED BY <1>5, <1>6, <1>7 DEF Next, StreamNext

\* The types the proofs about the stream use.
LEMMA StreamTypes ==
  ASSUME TypeOK
  PROVE  /\ run \in Run /\ stream \in Stream /\ Attempts \subseteq Nat
         /\ stream.attempt \in Attempts /\ stream.next \in Nat /\ stream.snap \in Run
         /\ run.attempt \in Nat /\ stream.attempt \in Nat /\ stream.snap.attempt \in Nat
         /\ stream.start \in Attempts \X Nat /\ stream.start[1] \in Nat /\ stream.start[2] \in Nat
         /\ stream.shown \in [Attempts -> SUBSET Seqs]
         /\ \A a \in Attempts : logs[a] \in SUBSET Seqs /\ logs[a] \subseteq Nat
<1>1. run \in Run /\ stream \in Stream /\ Attempts \subseteq Nat
  BY RunLogAssumption DEF TypeOK, Attempts
<1>2. /\ stream.attempt \in Attempts /\ stream.next \in Nat /\ stream.snap \in Run
      /\ stream.start \in Attempts \X Nat /\ stream.shown \in [Attempts -> SUBSET Seqs]
  BY <1>1 DEF Stream
<1>3. run.attempt \in Nat /\ stream.attempt \in Nat /\ stream.snap.attempt \in Nat
  BY <1>1, <1>2 DEF Run
<1>4. stream.start[1] \in Nat /\ stream.start[2] \in Nat
  BY <1>1, <1>2
<1>5. \A a \in Attempts : logs[a] \in SUBSET Seqs /\ logs[a] \subseteq Nat
  BY DEF TypeOK, Seqs
<1> QED BY <1>1, <1>2, <1>3, <1>4, <1>5

\* A line inserted behind the back of a stream is late, or comes where the stream
\* is still to read.
LEMMA StreamStore ==
  ASSUME TypeOK, StreamInv, stream.phase # "closed", NEW a \in Attempts,
         NEW lines \in SUBSET Seqs, AppendLogs(a, lines), UNCHANGED <<run, stream>>
  PROVE  PositionInv' /\ ShownInv'
<1> USE StreamTypes
<1>0. PositionInv /\ ShownInv
  BY DEF StreamInv
<1>1. PositionInv'
  BY <1>0 DEF PositionInv, Seen, AttemptOver
<1>2. CASE UNCHANGED <<logs, late>>
  BY <1>0, <1>1, <1>2 DEF ShownInv, Excused, SeenOver, Seen, AttemptOver
<1>3. CASE /\ logs' = [logs EXCEPT ![a] = @ \cup lines]
           /\ late' = [late EXCEPT ![a] = @ \cup
                         {s \in lines : ~Owned(a) \/ \E t \in logs[a] : t > s}]
  <2>1. \A b \in Attempts : /\ logs'[b] = IF b = a THEN logs[a] \cup lines ELSE logs[b]
                            /\ late[b] \subseteq late'[b]
    BY <1>3 DEF TypeOK
  <2>2. \A s \in lines : ~Owned(a) \/ (\E t \in logs[a] : t > s) => s \in late'[a]
    BY <1>3 DEF TypeOK
  <2>3. \A b \in Attempts : \A s : Excused(b, s) => Excused(b, s)'
    BY <2>1 DEF Excused
  <2>4. \A s \in lines : s \in late'[a] => Excused(a, s)'
    BY DEF Excused
  <2>5. ASSUME NEW b \in Attempts, stream.start[1] <= b, b < stream.attempt,
               NEW s \in logs'[b]
        PROVE  Excused(b, s)'
    <3>1. CASE s \in logs[b]
      BY <1>0, <2>3, <2>5, <3>1 DEF ShownInv
    <3>2. CASE s \notin logs[b]
      <4>1. a = b /\ s \in lines
        BY <2>1, <2>5, <3>2
      <4>2. ~Owned(a)
        BY <1>0, <2>5, <4>1 DEF PositionInv, Owned
      <4> QED BY <2>2, <2>4, <4>1, <4>2
    <3> QED BY <3>1, <3>2
  <2>6. ASSUME NEW s \in logs'[stream.attempt], s < stream.next
        PROVE  Excused(stream.attempt, s)'
    <3>1. CASE s \in logs[stream.attempt]
      BY <1>0, <2>3, <2>6, <3>1 DEF ShownInv
    <3>2. CASE s \notin logs[stream.attempt]
      <4>1. a = stream.attempt /\ s \in lines /\ s \in Nat /\ s > 0
        <5>1. a = stream.attempt /\ s \in lines
          BY <2>1, <2>6, <3>2
        <5>2. \A t \in lines : t \in Nat /\ t > 0
          BY DEF Seqs
        <5> QED BY <5>1, <5>2
      <4>2. CASE stream.next - 1 \in logs[a]
        <5>1. s < stream.next - 1
          BY <2>6, <3>2, <4>1, <4>2
        <5> QED BY <2>2, <2>4, <4>1, <4>2, <5>1
      <4>3. CASE a = stream.start[1] /\ stream.next = stream.start[2]
        BY <2>6, <4>1, <4>3 DEF Excused
      <4>4. stream.next # 1
        BY <2>6, <4>1
      <4> QED BY <1>0, <4>1, <4>2, <4>3, <4>4 DEF ShownInv
    <3> QED BY <3>1, <3>2
  <2>7. ASSUME stream.phase \in {"decide", "ended"}, SeenOver, NEW s \in logs'[stream.attempt]
        PROVE  Excused(stream.attempt, s)'
    <3>1. CASE s \in logs[stream.attempt]
      BY <1>0, <2>3, <2>7, <3>1 DEF ShownInv
    <3>2. CASE s \notin logs[stream.attempt]
      <4>1. a = stream.attempt /\ s \in lines
        BY <2>1, <2>7, <3>2
      <4>2. ~Owned(a)
        BY <1>0, <2>7, <4>1 DEF PositionInv, SeenOver, Seen, AttemptOver, Owned, Final
      <4> QED BY <2>2, <2>4, <4>1, <4>2
    <3> QED BY <3>1, <3>2
  <2>8. \/ stream.next = 1 \/ stream.next - 1 \in logs'[stream.attempt]
        \/ stream.attempt = stream.start[1] /\ stream.next = stream.start[2]
    BY <1>0, <2>1 DEF ShownInv
  <2> QED BY <1>1, <2>5, <2>6, <2>7, <2>8 DEF ShownInv, SeenOver, Seen, AttemptOver
<1> QED BY <1>2, <1>3 DEF AppendLogs

\* The stream reads a page.
LEMMA StreamPage ==
  ASSUME LogInv, StreamInv, StreamLines
  PROVE  PositionInv' /\ ShownInv'
<1> USE StreamTypes
<1> DEFINE c == stream.attempt
           lines == ListLogs(c, stream.next, StreamBatch)
<1>0. TypeOK /\ PositionInv /\ ShownInv /\ stream.phase = "lines"
  BY DEF StreamInv, StreamLines, LogInv
<1>1. UNCHANGED <<run, logs, late>>
  BY DEF StreamLines
<1>2. /\ stream'.attempt = c /\ stream'.start = stream.start /\ stream'.snap = stream.snap
      /\ stream'.next = NextSeq(lines, stream.next)
      /\ stream'.phase = IF Cardinality(lines) < StreamBatch THEN "decide" ELSE "lines"
      /\ stream'.shown = [stream.shown EXCEPT ![c] = stream.shown[c] \cup lines]
  BY <1>0 DEF StreamLines, Stream
<1>3. lines \subseteq {s \in logs[c] : s >= stream.next}
  BY PageStored
<1>4. lines \in SUBSET Nat /\ IsFiniteSet(lines) /\ IsFiniteSet(logs[c]) /\ StreamBatch \in Nat
  <2>1. IsFiniteSet(logs[c]) /\ lines \subseteq logs[c]
    BY <1>0, <1>3 DEF LogInv, LogsFinite
  <2> QED BY <1>0, <2>1, FS_Subset, RunLogAssumption
<1>5. PositionInv'
  BY <1>0, <1>1, <1>2 DEF PositionInv, Seen, AttemptOver
<1>6. \A s \in logs[c] : s >= stream.next /\ s < stream'.next => s \in lines
  <2> SUFFICES ASSUME NEW s \in logs[c], s >= stream.next, s < stream'.next PROVE s \in lines
    OBVIOUS
  <2>0. s \in Nat /\ stream.next \in Nat
    BY <1>0
  <2>1. lines # {}
    BY <1>2, <2>0, <1>4, NextSeqPast
  <2>2. PICK m \in lines : stream'.next = m + 1
    <3>1. NextSeq(lines, stream.next) - 1 \in lines /\ NextSeq(lines, stream.next) \in Nat
      BY <1>4, <2>0, <2>1, NextSeqPast
    <3>2. NextSeq(lines, stream.next) = (NextSeq(lines, stream.next) - 1) + 1
      BY <3>1
    <3> QED BY <1>2, <3>1, <3>2
  <2>3. s <= m
    BY <1>4, <2>0, <2>2
  <2>4. logs[c] \subseteq Nat
    BY <1>0
  <2> QED BY <1>4, <2>0, <2>3, <2>4, PageClosed
<1>7. Cardinality(lines) < StreamBatch => lines = {s \in logs[c] : s >= stream.next}
  <2>1. logs[c] \subseteq Nat /\ stream.next \in Nat
    BY <1>0
  <2> QED BY <1>4, <2>1, ShortPage
<1> HIDE DEF lines
<1>8. \A a \in Attempts : \A s : Excused(a, s) => Excused(a, s)'
  BY <1>0, <1>1, <1>2 DEF Excused
<1>9. \A s \in lines : Excused(c, s)'
  BY <1>0, <1>1, <1>2 DEF Excused
<1>10. ASSUME NEW s \in logs[c], s < stream'.next PROVE Excused(c, s)'
  <2>1. CASE s < stream.next
    <3>1. Excused(c, s)
      BY <1>0, <2>1 DEF ShownInv
    <3>2. c \in Attempts
      BY <1>0
    <3> QED BY <1>2, <1>8, <3>1, <3>2
  <2>2. CASE s >= stream.next
    BY <1>6, <1>9, <1>10, <2>2
  <2> QED BY <1>0, <2>1, <2>2
<1>11. \/ stream'.next = 1 \/ stream'.next - 1 \in logs[c]
       \/ c = stream.start[1] /\ stream'.next = stream.start[2]
  <2>1. CASE lines = {}
    BY <1>0, <1>2, <1>4, <2>1, NextSeqPast DEF ShownInv
  <2>2. CASE lines # {}
    BY <1>0, <1>2, <1>3, <1>4, <2>2, NextSeqPast
  <2> QED BY <2>1, <2>2
<1>12. ASSUME stream'.phase \in {"decide", "ended"}, NEW s \in logs[c] PROVE Excused(c, s)'
  <2>1. lines = {t \in logs[c] : t >= stream.next}
    BY <1>2, <1>7, <1>12
  <2>2. CASE s < stream.next
    <3>1. Excused(c, s)
      BY <1>0, <2>2 DEF ShownInv
    <3>2. c \in Attempts
      BY <1>0
    <3> QED BY <1>2, <1>8, <3>1, <3>2
  <2>3. CASE s >= stream.next
    BY <1>9, <2>1, <2>3
  <2> QED BY <1>0, <2>2, <2>3
<1>13. ASSUME NEW a \in Attempts, stream.start[1] <= a, a < c, NEW s \in logs[a]
       PROVE  Excused(a, s)'
  BY <1>0, <1>8, <1>13 DEF ShownInv
<1>14. ShownInv'
  BY <1>1, <1>2, <1>10, <1>11, <1>12, <1>13 DEF ShownInv
<1> QED BY <1>5, <1>14

LEMMA StreamStep ==
  ASSUME LogInv, StreamInv, StreamNext
  PROVE  StreamInv'
<1> USE StreamTypes
<1>0. TypeOK /\ UNCHANGED <<run, logger, logs, dropped, late, faults>> /\ stream \in Stream
  BY StreamType DEF LogInv
<1>1. CASE StreamOpens
  <2>1. PICK start \in StreamStarts :
          /\ start[1] <= run.attempt
          /\ stream' = [NoStream EXCEPT !.phase = "run", !.start = start,
                                        !.attempt = start[1], !.next = start[2]]
    BY <1>1 DEF StreamOpens
  <2>2. NoStream \in Stream
    BY <1>0, <1>1 DEF StreamOpens
  <2>3. start[1] \in Attempts /\ start[1] \in Nat /\ start[2] \in Nat
    BY RunLogAssumption DEF Attempts
  <2>4. /\ stream'.phase = "run" /\ stream'.start = start /\ stream'.attempt = start[1]
        /\ stream'.next = start[2] /\ stream'.snap = NoStream.snap
    BY <2>1, <2>2 DEF Stream
  <2>5. stream'.snap.status \notin Final /\ stream'.snap.attempt = 1
    BY <2>4 DEF NoStream, Final
  <2>6. run.attempt >= 1
    BY <1>0, RunLogAssumption DEF TypeOK, Run, Attempts
  <2>7. PositionInv'
    BY <1>0, <2>1, <2>3, <2>4, <2>5, <2>6 DEF PositionInv, Seen, AttemptOver
  <2>8. ShownInv'
    BY <1>0, <2>3, <2>4 DEF ShownInv, Excused
  <2> QED BY <2>7, <2>8 DEF StreamInv
<1>2. CASE StreamRun
  <2>1. PositionInv /\ ShownInv /\ stream.phase = "run"
    BY <1>2 DEF StreamRun, StreamInv
  <2>2. /\ stream'.phase = "lines" /\ stream'.snap = run
        /\ stream'.start = stream.start /\ stream'.attempt = stream.attempt
        /\ stream'.next = stream.next /\ stream'.shown = stream.shown
    BY <1>0, <1>2 DEF StreamRun, Stream
  <2>3. PositionInv'
    BY <1>0, <2>1, <2>2 DEF PositionInv, Seen, AttemptOver
  <2>4. ShownInv'
    BY <1>0, <2>1, <2>2 DEF ShownInv, Excused
  <2> QED BY <2>3, <2>4 DEF StreamInv
<1>3. CASE StreamLines
  BY <1>3, StreamPage DEF StreamInv
<1>4. CASE StreamDecides
  <2>0. PositionInv /\ ShownInv /\ stream.phase = "decide"
    BY <1>4 DEF StreamDecides, StreamInv
  <2>1. CASE AttemptOver
    <3>1. /\ stream'.attempt = stream.attempt + 1 /\ stream'.next = 1 /\ stream'.phase = "run"
          /\ stream'.start = stream.start /\ stream'.snap = stream.snap
          /\ stream'.shown = stream.shown
      BY <1>0, <1>4, <2>1 DEF StreamDecides, Stream
    <3>2. PositionInv'
      BY <1>0, <2>0, <2>1, <3>1 DEF PositionInv, Seen, AttemptOver
    <3>3. \A a \in Attempts : \A s : Excused(a, s) => Excused(a, s)'
      BY <1>0, <3>1 DEF Excused
    <3>4. \A a \in Attempts : stream.start[1] <= a /\ a < stream.attempt + 1 =>
            \A s \in logs[a] : Excused(a, s)
      <4> SUFFICES ASSUME NEW a \in Attempts, stream.start[1] <= a, a < stream.attempt + 1
                   PROVE  \A s \in logs[a] : Excused(a, s)
        OBVIOUS
      <4>1. CASE a = stream.attempt
        BY <2>0, <2>1, <4>1 DEF ShownInv, SeenOver
      <4>2. CASE a < stream.attempt
        BY <2>0, <4>2 DEF ShownInv
      <4> QED BY <1>0, <4>1, <4>2
    <3>5. \A a \in Attempts : \A s \in logs[a] : ~(s < 1)
      BY <1>0 DEF TypeOK, Seqs
    <3>6. stream.attempt + 1 \in Attempts
      <4>1. stream'.attempt \in Attempts
        BY StreamType DEF LogInv, Stream
      <4> QED BY <3>1, <4>1
    <3>7. ShownInv'
      BY <1>0, <3>1, <3>3, <3>4, <3>5, <3>6 DEF ShownInv
    <3> QED BY <3>2, <3>7 DEF StreamInv
  <2>2. CASE ~AttemptOver
    <3>1. /\ stream'.phase = IF Seen.status \in Final THEN "ended" ELSE "run"
          /\ stream'.attempt = stream.attempt /\ stream'.next = stream.next
          /\ stream'.start = stream.start /\ stream'.snap = stream.snap
          /\ stream'.shown = stream.shown
      BY <1>0, <1>4, <2>2 DEF StreamDecides, Stream
    <3>2. PositionInv'
      BY <1>0, <2>0, <2>2, <3>1 DEF PositionInv, Seen, AttemptOver
    <3>3. \A a \in Attempts : \A s : Excused(a, s) => Excused(a, s)'
      BY <1>0, <3>1 DEF Excused
    <3>4. ShownInv'
      BY <1>0, <2>0, <3>1, <3>3 DEF ShownInv, SeenOver, Seen, AttemptOver
    <3> QED BY <3>2, <3>4 DEF StreamInv
  <2> QED BY <2>1, <2>2
<1>5. CASE StreamBreaks
  BY <1>5 DEF StreamBreaks, NoStream, StreamInv
<1> QED BY <1>1, <1>2, <1>3, <1>4, <1>5 DEF StreamNext

FollowInv == LogInv /\ AttemptsInv /\ StreamInv

LEMMA FollowStep ==
  ASSUME FollowInv, [Next]_vars
  PROVE  FollowInv'
<1> USE StreamTypes DEF FollowInv
<1>0. TypeOK /\ TypeOK' /\ LogInv'
  BY LogStep DEF LogInv
<1>1. AttemptsInv'
  BY AttemptsStep
<1>2. CASE StreamNext
  BY <1>0, <1>1, <1>2, StreamStep
<1>3. CASE ~StreamNext /\ stream.phase = "closed"
  <2>1. UNCHANGED stream
    BY <1>3 DEF Next, StreamNext, Claim, Reap, FailQueuedRun, LoggerNext, Log, FlushFull, Close,
                Take, Inserted, JobReturns, LoopFlush, LoopInserted, LoopStops, EndAttempt, vars
  <2> QED BY <1>0, <1>1, <1>3, <2>1 DEF StreamInv
<1>4. ASSUME NEW a \in Attempts, LoggerNext(a), UNCHANGED <<run, stream>>,
             stream.phase # "closed"
      PROVE  StreamInv'
  <2>1. CASE UNCHANGED <<logs, late>>
    BY <1>4, <2>1 DEF StreamInv, PositionInv, ShownInv, Excused, SeenOver, Seen, AttemptOver
  <2>2. ASSUME NEW lines \in SUBSET Seqs, AppendLogs(a, lines) PROVE StreamInv'
    BY <1>0, <1>4, <2>2, StreamStore DEF StreamInv
  <2> QED BY <1>0, <1>4, <2>1, <2>2, StoreStep DEF LogInv
<1>5. ASSUME run.status \notin Final, run'.attempt >= run.attempt,
             UNCHANGED <<logs, late, stream>>, stream.phase # "closed"
      PROVE  StreamInv'
  <2>1. PositionInv /\ ShownInv /\ Seen.status \notin Final
    BY <1>5 DEF StreamInv, PositionInv
  <2>2. PositionInv'
    <3>1. run'.attempt \in Nat
      BY <1>0, RunLogAssumption DEF TypeOK, Run, Attempts
    <3>2. run.attempt \in Nat /\ stream.attempt \in Nat /\ stream.snap.attempt \in Nat
      BY <1>0
    <3>3. stream.attempt <= run'.attempt /\ stream.snap.attempt <= run'.attempt
      BY <1>5, <2>1, <3>1, <3>2 DEF PositionInv, Seen
    <3> QED BY <1>5, <2>1, <3>3 DEF PositionInv, Seen, AttemptOver
  <2>3. ShownInv'
    BY <1>5, <2>1 DEF ShownInv, Excused, SeenOver, Seen, AttemptOver
  <2> QED BY <2>2, <2>3 DEF StreamInv
<1>6. CASE ~StreamNext /\ stream.phase # "closed"
  <2>1. CASE run' = run
    <3>1. UNCHANGED stream
      BY <1>6 DEF Next, StreamNext, Claim, Reap, FailQueuedRun, LoggerNext, Log, FlushFull,
                  Close, Take, Inserted, JobReturns, LoopFlush, LoopInserted, LoopStops,
                  EndAttempt, vars
    <3>2. CASE \E a \in Attempts : LoggerNext(a)
      BY <1>0, <1>1, <1>4, <1>6, <2>1, <3>1, <3>2
    <3>3. CASE UNCHANGED <<logs, late>>
      BY <1>0, <1>1, <2>1, <3>1, <3>3
         DEF StreamInv, PositionInv, ShownInv, Excused, SeenOver, Seen, AttemptOver
    <3> QED BY <1>6, <3>2, <3>3 DEF Next, StreamNext, Claim, Reap, FailQueuedRun, vars
  <2>2. CASE run' # run
    BY <1>0, <1>1, <1>5, <1>6, <2>2, RunMoves
  <2> QED BY <2>1, <2>2
<1> QED BY <1>2, <1>3, <1>6

LEMMA FollowInvariant == Spec => []FollowInv
<1>1. Init => FollowInv
  <2> SUFFICES ASSUME Init PROVE FollowInv
    OBVIOUS
  <2>1. LogInv
    BY LogInit
  <2>2. AttemptsInv
    BY DEF Init, AttemptsInv, Nothing
  <2>3. StreamInv
    BY DEF Init, StreamInv, NoStream
  <2> QED BY <2>1, <2>2, <2>3 DEF FollowInv
<1> QED BY <1>1, FollowStep, PTL DEF Spec

\* The status a stream ends with is the run's for good, whatever late workers,
\* reapers and the API still do.
THEOREM FollowIsTruthful == Spec => []FollowTruthful
<1>1. FollowInv => FollowTruthful
  BY DEF FollowInv, StreamInv, PositionInv, Seen, FollowTruthful
<1> QED BY <1>1, FollowInvariant, PTL

\* A stream that has ended has shown every timely line from its starting point
\* on, for any batch size and any starting point.
THEOREM StreamsAreTimely == Spec => []StreamTimely
<1>1. FollowInv => StreamTimely
  <2> SUFFICES ASSUME FollowInv, stream.phase = "ended",
                      NEW a \in stream.start[1]..MaxAttempt, NEW s \in logs[a]
               PROVE  Excused(a, s)
    BY DEF StreamTimely, Excused
  <2>0. TypeOK /\ PositionInv /\ ShownInv /\ AttemptsInv
    BY DEF FollowInv, LogInv, StreamInv
  <2>1. a \in Attempts /\ a \in Nat
    <3>1. stream.start \in Attempts \X Nat
      BY <2>0, StreamTypes
    <3> QED BY <3>1, RunLogAssumption DEF Attempts
  <2>2. stream.attempt = run.attempt /\ run.attempt \in Nat /\ Seen.status \in Final
    <3>1. stream.attempt <= Seen.attempt /\ ~(stream.attempt < Seen.attempt) /\ Seen = run
          /\ Seen.status \in Final
      BY <2>0 DEF PositionInv, AttemptOver
    <3> QED BY <2>0, <3>1, StreamTypes DEF Seen
  <2>3. CASE a < stream.attempt
    BY <2>0, <2>1, <2>3 DEF ShownInv
  <2>4. CASE a = stream.attempt
    BY <2>0, <2>2, <2>4 DEF ShownInv, SeenOver
  <2>5. ~(a > stream.attempt)
    BY <2>0, <2>1, <2>2 DEF AttemptsInv
  <2> QED BY <2>1, <2>2, <2>3, <2>4, <2>5
<1> QED BY <1>1, FollowInvariant, PTL
=============================================================================
