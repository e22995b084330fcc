--------------------------- MODULE ExecutionProofs ---------------------------
(***************************************************************************)
(* Proofs about the executor and the backoff, for any limits, any width of *)
(* a Duration, any configurations whose cap fits it twice over, any create *)
(* requests and any number of faults; and that the executor implements the *)
(* run ledger.                                                             *)
(***************************************************************************)
EXTENDS Execution, NumberLemmas, TLAPS

-----------------------------------------------------------------------------
\* retryDelay.

\* One round of the loop.
Doubled(c, d) == IF d < c.max THEN Duration(2 * d) ELSE d

\* The equation that the values of the loop satisfy.
Rounds(c, n, d) == d = [i \in 1..n |-> IF i = 1 THEN c.base ELSE Doubled(c, d[i - 1])]

LEMMA RetryDelayDef ==
  ASSUME NEW c, NEW n
  PROVE  RetryDelay(c, n) = Min({(CHOOSE d : Rounds(c, n, d))[n], c.max})
BY DEF RetryDelay, Rounds, Doubled

\* The loop computes something, however often it is run through.
LEMMA RoundsExist ==
  ASSUME NEW c, NEW n \in Nat
  PROVE  \E d : Rounds(c, n, d)
<1> DEFINE Without == {m \in Nat : ~\E d : Rounds(c, m, d)}
<1>1. SUFFICES ASSUME Without # {} PROVE FALSE
  OBVIOUS
<1>2. PICK m \in Without : \A k \in Without : m <= k
  BY <1>1, LeastElement
<1>3. m # 0
  <2>1. Rounds(c, 0, [i \in 1..0 |-> c.base])
    BY DEF Rounds
  <2> QED BY <1>2, <2>1
<1>4. m - 1 \in Nat /\ m - 1 \notin Without
  BY <1>2, <1>3
<1>5. PICK g : Rounds(c, m - 1, g)
  BY <1>4
<1> DEFINE f == [i \in 1..m |-> IF i < m THEN g[i]
                                ELSE IF i = 1 THEN c.base ELSE Doubled(c, g[i - 1])]
<1>6. ASSUME NEW i \in 1..m
      PROVE  f[i] = IF i = 1 THEN c.base ELSE Doubled(c, f[i - 1])
  <2>1. CASE i = m
    <3>1. m # 1 => f[m - 1] = g[m - 1]
      BY <1>2, <1>3
    <3> QED BY <1>2, <1>3, <2>1, <3>1
  <2>2. CASE i < m
    <3>1. i \in 1..(m - 1) /\ f[i] = g[i]
      BY <1>2, <2>2
    <3>2. g[i] = IF i = 1 THEN c.base ELSE Doubled(c, g[i - 1])
      BY <1>5, <3>1 DEF Rounds
    <3>3. i # 1 => f[i - 1] = g[i - 1]
      BY <1>2, <2>2
    <3> QED BY <3>1, <3>2, <3>3
  <2> QED BY <1>2, <2>1, <2>2
<1>7. Rounds(c, m, f)
  <2>1. f = [i \in 1..m |-> f[i]]
    OBVIOUS
  <2> HIDE DEF f
  <2> QED BY <1>6, <2>1 DEF Rounds
<1> QED BY <1>2, <1>7

LEMMA PowerOfZero == 2^0 = 1
<1>1. 1..0 = {} /\ SUBSET {} = {{}}
  OBVIOUS
<1>2. Cardinality({{}}) = 1
  BY FS_Singleton
<1>3. Cardinality(SUBSET (1..0)) = 2^0
  BY PowerCounts
<1> QED BY <1>1, <1>2, <1>3, Zenon

\* What loadConfig has checked of a configuration, and what a cap of 146 years
\* leaves of the width.
LEMMA ConfigType ==
  ASSUME NEW c \in Configs
  PROVE  /\ c.base \in Nat \ {0} /\ c.max \in Nat \ {0}
         /\ c.base <= c.max /\ c.max <= 2^(Width - 2)
BY ExecutionAssumption DEF Loadable

\* A number below half of the range of a Duration is not changed by it.
LEMMA DurationFits ==
  ASSUME NEW n \in Nat, n < 2 * 2^(Width - 2)
  PROVE  Duration(n) = n
<1>1. Width - 2 \in Nat /\ Width - 1 \in Nat /\ (Width - 2) + 1 = Width - 1
      /\ (Width - 1) + 1 = Width
  BY ExecutionAssumption
<1>2. PICK q \in Nat \ {0} : q = 2^(Width - 2)
  BY <1>1, PowerPositive
<1>3. 2^(Width - 1) = 2 * q
  BY <1>1, <1>2, PowerDoubles
<1>4. 2^Width = 2 * (2 * q)
  <2>1. 2^((Width - 1) + 1) = 2 * 2^(Width - 1)
    BY <1>1, PowerDoubles
  <2> QED BY <1>1, <1>3, <2>1
<1>5. n + 2 * q < 2 * (2 * q) /\ n + 2 * q \in Nat /\ 2 * (2 * q) \in Nat \ {0}
  BY <1>2
<1>6. \A a, m \in Nat : a < m => a % m = a
  BY SMT
<1>7. (n + 2 * q) % (2 * (2 * q)) = n + 2 * q
  BY <1>5, <1>6
<1> QED BY <1>2, <1>3, <1>4, <1>7 DEF Duration

\* The delay that the comment on retryDelay promises.
Promised(c, n) == Min({c.base * 2^(n - 1), c.max})

\* The loop, which stops doubling at the cap, computes it: no round overflows,
\* because a delay that is doubled is below the cap.
LEMMA RetryDelayValue ==
  ASSUME NEW c \in Configs, NEW n \in Nat \ {0}
  PROVE  RetryDelay(c, n) = Promised(c, n) /\ RetryDelay(c, n) \in Nat \ {0}
<1> DEFINE d == CHOOSE e : Rounds(c, n, e)
           pow(i) == c.base * 2^(i - 1)
           Good(i) == /\ d[i] \in Nat \ {0}
                      /\ d[i] < c.max => d[i] = pow(i)
                      /\ d[i] >= c.max => pow(i) >= c.max
           Bad == {i \in 1..n : ~Good(i)}
<1>1. Rounds(c, n, d)
  BY RoundsExist
<1>2. \A i \in 1..n : d[i] = IF i = 1 THEN c.base ELSE Doubled(c, d[i - 1])
  <2> HIDE DEF d
  <2> QED BY <1>1 DEF Rounds
<1> HIDE DEF d
<1>3. c.base \in Nat \ {0} /\ c.max \in Nat \ {0} /\ c.base <= c.max /\ c.max <= 2^(Width - 2)
  BY ConfigType
<1>4. Width - 2 \in Nat
  BY ExecutionAssumption
<1>5. 2^(Width - 2) \in Nat \ {0}
  BY <1>4, PowerPositive
<1>6. Bad = {}
  <2>1. SUFFICES ASSUME Bad # {} PROVE FALSE
    OBVIOUS
  <2>2. PICK i \in Bad : \A k \in Bad : i <= k
    <3>1. Bad \in SUBSET Nat
      OBVIOUS
    <3> HIDE DEF Bad
    <3> QED BY <2>1, <3>1, LeastElement
  <2>3. i \in 1..n /\ ~Good(i)
    BY <2>2
  <2>4. CASE i = 1
    <3>1. d[1] = c.base
      BY <1>2, <2>3, <2>4
    <3>2. pow(1) = c.base
      BY <1>3, PowerOfZero
    <3> QED BY <1>3, <2>3, <2>4, <3>1, <3>2
  <2>5. CASE i # 1
    <3>1. i - 1 \in 1..n /\ i - 1 \notin Bad
      BY <2>2, <2>3, <2>5
    <3>2. Good(i - 1)
      BY <3>1
    <3>3. i - 2 \in Nat /\ (i - 2) + 1 = i - 1 /\ (i - 1) - 1 = i - 2
      BY <2>3, <2>5
    <3>4. PICK p \in Nat \ {0} : p = 2^(i - 2)
      BY <3>3, PowerPositive
    <3>5. 2^(i - 1) = 2 * p
      BY <3>3, <3>4, PowerDoubles
    <3>6. PICK b \in Nat : b = c.base * p
      BY <1>3, <3>4
    <3>7. c.base * (2 * p) = 2 * b
      BY <1>3, <3>4, <3>6
    <3>8. pow(i) = 2 * b /\ pow(i - 1) = b
      BY <3>3, <3>4, <3>5, <3>6, <3>7
    <3>9. PICK e \in Nat \ {0} : e = d[i - 1]
      BY <3>2
    <3>10. (e < c.max => e = b) /\ (e >= c.max => b >= c.max)
      BY <3>2, <3>8, <3>9
    <3>11. d[i] = Doubled(c, e)
      BY <1>2, <2>3, <2>5, <3>9
    <3> HIDE DEF pow
    <3>12. CASE e < c.max
      <4>1. Duration(2 * e) = 2 * e
        BY <1>3, <1>5, <3>12, DurationFits
      <4>2. d[i] = 2 * e
        BY <3>11, <3>12, <4>1 DEF Doubled
      <4> QED BY <1>3, <2>3, <3>8, <3>10, <3>12, <4>2
    <3>13. CASE ~(e < c.max)
      <4>1. d[i] = e
        BY <3>11, <3>13 DEF Doubled
      <4> QED BY <1>3, <2>3, <3>6, <3>8, <3>10, <3>13, <4>1
    <3> QED BY <3>12, <3>13
  <2> QED BY <2>4, <2>5
<1>7. Good(n)
  BY <1>6
<1>8. RetryDelay(c, n) = Min({d[n], c.max})
  BY RetryDelayDef DEF d
<1>9. n - 1 \in Nat
  OBVIOUS
<1>10. pow(n) \in Nat
  <2>1. PICK p \in Nat : p = 2^(n - 1)
    BY <1>9, PowerPositive
  <2> QED BY <1>3, <2>1
<1>11. Promised(c, n) = Min({pow(n), c.max})
  BY DEF Promised
<1> HIDE DEF pow
<1>12. Min({pow(n), c.max}) = IF pow(n) <= c.max THEN pow(n) ELSE c.max
  BY <1>3, <1>10, MinOfTwo
<1>13. Min({d[n], c.max}) = IF d[n] <= c.max THEN d[n] ELSE c.max
  BY <1>3, <1>7, MinOfTwo
<1> QED BY <1>3, <1>7, <1>8, <1>10, <1>11, <1>12, <1>13

-----------------------------------------------------------------------------
\* The inductive invariant.

\* A stored job has lines, and its failure lies among them; a run is a job's.
\* An attempt is of a run that is RUNNING.
StoredInv ==
  /\ job = NoJob \/ job.lines >= 1
  /\ job.fail_at <= job.lines
  /\ run.status # "ABSENT" => job # NoJob
  /\ run.status = "ABSENT" => run.attempt = 1
  /\ ~At("idle") => run.status = "RUNNING"

\* The attempt is meant to fail.
MeantToFail == job.fail_at # 0 \/ run.attempt <= job.fail_attempts

\* Where the executor stands in its loop, and what it knows of the attempt there.
LoopInv ==
  /\ exec.phase \in {"idle", "load"} => exec.i = 1
  /\ exec.phase \in {"check", "write", "sleep"} =>
       exec.i <= job.lines + 1 /\ (job.fail_at # 0 => exec.i <= job.fail_at)
  /\ At("write") => exec.i <= job.lines
  /\ exec.phase \in {"end", "ok"} => exec.i = job.lines + 1 /\ job.fail_at = 0
  /\ At("ok") => ~MeantToFail

\* An attempt that fails without being meant to was interrupted, and so was one
\* that left its run RUNNING.
InterruptedInv ==
  /\ At("fail") \/ Cancelled \/ (run.status = "RUNNING" /\ At("idle")) => interrupted
  /\ At("error") => interrupted \/ MeantToFail

\* Without interruption the attempts are counted by the failures that were meant.
CountedInv ==
  /\ ~interrupted =>
       /\ run.attempt = 1 \/ job.fail_at # 0 \/ run.attempt - 1 <= job.fail_attempts
       /\ run.attempt <= job.max_retries + 1
  /\ run.status = "FAILED" /\ ~interrupted =>
       MeantToFail /\ run.attempt = job.max_retries + 1
  /\ run.status = "SUCCEEDED" => ~MeantToFail /\ run.output = job.lines
  /\ run.status # "SUCCEEDED" => run.output = 0

\* A line is late only in the attempt whose context has ended, and is its last.
LateInv ==
  /\ exec.late <= 1
  /\ exec.late > 0 => Cancelled /\ ~At("write")
  /\ Cancelled => ~At("idle")

\* The backoff is that of the last attempt, by the configuration of its worker.
BackoffInv ==
  run.next_attempt_at # {} =>
    /\ run.status = "QUEUED" /\ run.attempt >= 2
    /\ run.next_attempt_at = {RetryDelay(cfg, run.attempt - 1)}

\* Reports come every Every lines, and one for the last line.
ReportsInv ==
  /\ exec.phase \in {"idle", "load"} => exec.log = 0
  /\ exec.phase \in {"check", "write", "sleep", "end"} =>
       /\ exec.log >= 1
       /\ (exec.log - 2) * Every <= job.lines - 1
       /\ exec.i <= job.lines => (exec.log - 1) * Every <= exec.i - 1
  /\ LogFits

-----------------------------------------------------------------------------
\* Types.

Job == [lines : 0..maxLines, delay_ms : 0..maxDelayMs, fail_at : 0..maxLines,
        fail_attempts : 0..maxFailAttempts, max_retries : 0..maxMaxRetries]
Exec == [phase : Phases, i : Nat \ {0}, log : Nat, late : Nat]

\* A job that passes the checks of a create request can be stored.
LEMMA NewJobType ==
  ASSUME NEW req, Valid(req)
  PROVE  NewJob(req) \in Job
<1> DEFINE retries == IF req.max_retries = {} THEN defaultMaxRetries ELSE Max(req.max_retries)
<1>1. retries \in 0..maxMaxRetries
  <2>1. CASE req.max_retries = {}
    BY <2>1, ExecutionAssumption
  <2>2. CASE req.max_retries # {}
    <3>1. req.max_retries \in SUBSET (0..maxMaxRetries)
      BY DEF Valid
    <3>2. IsFiniteSet(0..maxMaxRetries)
      BY ExecutionAssumption, FS_Interval
    <3>3. IsFiniteSet(req.max_retries)
      BY <3>1, <3>2, FS_Subset
    <3>4. req.max_retries \in SUBSET Nat
      BY <3>1, ExecutionAssumption
    <3>5. Max(req.max_retries) \in req.max_retries
      BY <2>2, <3>3, <3>4, MaxOfSet
    <3> QED BY <2>2, <3>1, <3>5
  <2> QED BY <2>1, <2>2
<1> HIDE DEF retries
<1>2. /\ req.payload.lines \in 1..maxLines /\ req.payload.delay_ms \in 0..maxDelayMs
      /\ req.payload.fail_at \in 0..req.payload.lines
      /\ req.payload.fail_attempts \in 0..maxFailAttempts
  BY DEF Valid, Validate, ValidPayload
<1>3. req.payload.lines \in 0..maxLines /\ req.payload.fail_at \in 0..maxLines
  BY <1>2, ExecutionAssumption
<1> QED BY <1>1, <1>2, <1>3 DEF NewJob, Job, retries

LEMMA FaultType ==
  ASSUME FaultsTypeOK, NEW k \in FaultKinds, Fault(k)
  PROVE  FaultsTypeOK'
BY DEF FaultsTypeOK, Fault

\* What the worker and the reaper write is a run.
LEMMA RunType ==
  ASSUME TypeOK, NEW at \in SUBSET (Nat \ {0})
  PROVE  FailedRun \in Run /\ RequeuedRun(at) \in Run
<1>1. run \in Run /\ run.attempt + 1 \in Nat \ {0}
  BY DEF TypeOK, Run
<1>2. FailedRun \in Run
  BY <1>1 DEF FailedRun, Run
<1>3. RequeuedRun(at) \in Run
  BY <1>1 DEF RequeuedRun, Run
<1> QED BY <1>2, <1>3

LEMMA IdleType == Idle \in Exec
BY DEF Idle, Exec, Phases

LEMMA WriteLineType ==
  ASSUME TypeOK, WriteLine
  PROVE  exec' \in Exec
<1>1. exec.i + 1 \in Nat \ {0} /\ exec.log \in Nat /\ exec.late \in Nat
  BY DEF TypeOK
<1> QED BY <1>1 DEF WriteLine, Exec, Phases

LEMMA InitType == Init => TypeOK
<1> SUFFICES ASSUME Init PROVE TypeOK
  OBVIOUS
<1>1. job \in Job
  BY ExecutionAssumption DEF Init, NoJob, Job
<1>2. run \in Run
  BY DEF Init, Run
<1>3. faults \in [FaultKinds -> Nat]
  BY DEF Init, FaultsInit
<1> QED BY <1>1, <1>2, <1>3, IdleType DEF Init, TypeOK, Job, Exec, FaultsTypeOK

LEMMA TypeStep ==
  ASSUME TypeOK, [Next]_vars
  PROVE  TypeOK'
<1>1. ASSUME NEW req \in Requests, CreateJob(req) PROVE TypeOK'
  <2>1. job' \in Job
    BY <1>1, NewJobType DEF CreateJob
  <2> QED BY <1>1, <2>1 DEF CreateJob, TypeOK, Job, FaultsTypeOK
<1>2. CASE RunJob
  BY <1>2 DEF RunJob, TypeOK, Run, FaultsTypeOK
<1>3. ASSUME NEW c \in Configs, Claim(c) PROVE TypeOK'
  <2>1. exec' \in Exec
    BY <1>3 DEF Claim, Idle, Exec, Phases
  <2>2. run' \in Run
    BY <1>3 DEF Claim, TypeOK, Run
  <2> QED BY <1>3, <2>1, <2>2 DEF Claim, TypeOK, Exec, FaultsTypeOK
<1>4. CASE LoadJob
  BY <1>4 DEF LoadJob, TypeOK, Phases, FaultsTypeOK
<1>5. CASE Check
  BY <1>5 DEF Check, Goto, TypeOK, Phases, FaultsTypeOK
<1>6. CASE WriteLine
  BY <1>6, WriteLineType DEF WriteLine, TypeOK, Exec, FaultsTypeOK
<1>7. CASE Stopped \/ Wake
  BY <1>7 DEF Stopped, Wake, Goto, TypeOK, Phases, FaultsTypeOK
<1>8. CASE End
  <2>1. exec \in Exec /\ exec.log + 1 \in Nat
    BY DEF TypeOK, Exec
  <2>2. CASE run.attempt <= job.fail_attempts
    <3>1. exec' = [exec EXCEPT !.phase = "error", !.log = exec.log + 1]
      BY <1>8, <2>2 DEF End
    <3> QED BY <1>8, <2>1, <3>1 DEF End, Exec, TypeOK, Phases, FaultsTypeOK
  <2>3. CASE ~(run.attempt <= job.fail_attempts)
    BY <1>8, <2>3 DEF End, TypeOK, Phases, FaultsTypeOK
  <2> QED BY <2>2, <2>3
<1>9. CASE LoadFails
  BY <1>9, FaultType DEF LoadFails, Goto, TypeOK, Phases, FaultKinds
<1>10. ASSUME NEW cause \in {"timeout", "shutdown"}, Cancel(cause) PROVE TypeOK'
  <2>1. FaultsTypeOK'
    BY <1>10, FaultType DEF Cancel, TypeOK, FaultsTypeOK, FaultKinds
  <2> QED BY <1>10, <2>1 DEF Cancel, TypeOK
<1>11. CASE Succeed
  <2>1. exec.i - 1 \in Nat
    BY DEF TypeOK
  <2>2. run' \in Run
    BY <1>11, <2>1 DEF Succeed, TypeOK, Run
  <2> QED BY <1>11, <2>2, IdleType DEF Succeed, TypeOK, Exec, FaultsTypeOK
<1>12. CASE Fail
  <2>1. RetryDelay(cfg, run.attempt) \in Nat \ {0}
    BY RetryDelayValue DEF TypeOK, Run
  <2>2. run' \in Run
    BY <1>12, <2>1, RunType DEF Fail
  <2> QED BY <1>12, <2>2, IdleType DEF Fail, TypeOK, Exec, FaultsTypeOK
<1>13. CASE Release
  <2>1. run' \in Run
    BY <1>13, RunType DEF Release
  <2> QED BY <1>13, <2>1, IdleType DEF Release, TypeOK, Exec, FaultsTypeOK
<1>14. CASE Lose
  <2>1. FaultsTypeOK'
    BY <1>14, FaultType DEF Lose, TypeOK, FaultKinds
  <2> QED BY <1>14, <2>1, IdleType DEF Lose, TypeOK, Exec
<1>15. CASE Reap
  <2>1. run' \in Run
    BY <1>15, RunType DEF Reap, TypeOK, Run
  <2> QED BY <1>15, <2>1 DEF Reap, TypeOK, FaultsTypeOK
<1>16. CASE UNCHANGED vars
  BY <1>16 DEF vars, TypeOK, FaultsTypeOK
<1> QED BY <1>1, <1>2, <1>3, <1>4, <1>5, <1>6, <1>7, <1>8, <1>9, <1>10, <1>11, <1>12,
           <1>13, <1>14, <1>15, <1>16 DEF Next, Proceed

\* Every write of a job, a run or an executor, at every limit and any width of a
\* Duration, leaves values of the model's types; in particular a backoff is a
\* positive number and the attempts and log lines are never negative.
THEOREM ExecutionTypeCorrect == Spec => []TypeOK
BY InitType, TypeStep, PTL DEF Spec

-----------------------------------------------------------------------------
\* The outcome of a run.

OutcomeInv == StoredInv /\ LoopInv /\ InterruptedInv /\ CountedInv /\ LateInv

LEMMA InitOutcome == Init => OutcomeInv
BY ExecutionAssumption
   DEF Init, OutcomeInv, StoredInv, LoopInv, InterruptedInv, CountedInv, LateInv,
       NoJob, Idle, At, Cancelled, MeantToFail

LEMMA OutcomeStep ==
  ASSUME TypeOK, TypeOK', OutcomeInv, [Next]_vars
  PROVE  OutcomeInv'
<1> USE DEF OutcomeInv, StoredInv, LoopInv, InterruptedInv, CountedInv, LateInv,
            At, Cancelled, MeantToFail
<1>1. ASSUME NEW req \in Requests, CreateJob(req) PROVE OutcomeInv'
  <2>1. job'.lines >= 1 /\ job'.fail_at <= job'.lines /\ job' # NoJob
    <3>1. job' = NewJob(req) /\ Valid(req)
      BY <1>1 DEF CreateJob
    <3>2. job'.lines = req.payload.lines /\ job'.fail_at = req.payload.fail_at
      BY <3>1 DEF NewJob
    <3>3. req.payload.lines \in 1..maxLines /\ req.payload.fail_at \in 0..req.payload.lines
      BY <3>1 DEF Valid, Validate, ValidPayload
    <3>4. NoJob.lines = 0
      BY DEF NoJob
    <3> QED BY <3>2, <3>3, <3>4, ExecutionAssumption
  <2> QED BY <1>1, <2>1 DEF CreateJob, TypeOK, Run
<1>2. CASE RunJob
  BY <1>2 DEF RunJob, TypeOK, Run
<1>3. ASSUME NEW c \in Configs, Claim(c) PROVE OutcomeInv'
  BY <1>3 DEF Claim, Idle, TypeOK, Run
<1>4. CASE LoadJob
  BY <1>4 DEF LoadJob, TypeOK, NoJob
<1>5. CASE Check
  BY <1>5 DEF Check, Goto, TypeOK
<1>6. CASE WriteLine
  BY <1>6 DEF WriteLine, TypeOK
<1>7. CASE Stopped \/ Wake
  BY <1>7 DEF Stopped, Wake, Goto, TypeOK
<1>8. CASE End
  BY <1>8 DEF End, TypeOK, Run
<1>9. CASE LoadFails
  BY <1>9 DEF LoadFails, Goto, TypeOK
<1>10. ASSUME NEW cause \in {"timeout", "shutdown"}, Cancel(cause) PROVE OutcomeInv'
  BY <1>10 DEF Cancel, TypeOK
<1>11. CASE Succeed
  BY <1>11 DEF Succeed, Idle, TypeOK, Run
<1>12. CASE Fail
  BY <1>12 DEF Fail, Idle, TypeOK, Run, Exhausted, FailedRun, RequeuedRun
<1>13. CASE Release
  BY <1>13 DEF Release, Idle, TypeOK, Run, RequeuedRun
<1>14. CASE Lose
  BY <1>14 DEF Lose, Idle, TypeOK
<1>15. CASE Reap
  BY <1>15 DEF Reap, Idle, TypeOK, Run, Exhausted, FailedRun, RequeuedRun
<1>16. CASE UNCHANGED vars
  BY <1>16 DEF vars
<1> QED BY <1>1, <1>2, <1>3, <1>4, <1>5, <1>6, <1>7, <1>8, <1>9, <1>10, <1>11, <1>12,
           <1>13, <1>14, <1>15, <1>16 DEF Next, Proceed

LEMMA OutcomeInvariant == Spec => [](TypeOK /\ OutcomeInv)
<1>1. Init => TypeOK /\ OutcomeInv
  BY InitType, InitOutcome
<1>2. TypeOK /\ OutcomeInv /\ [Next]_vars => (TypeOK /\ OutcomeInv)'
  BY TypeStep, OutcomeStep
<1> QED BY <1>1, <1>2, PTL DEF Spec

\* A job that only fails on purpose ends as its numbers foretell, after exactly
\* so many attempts, and a success is of a whole output and of an attempt that
\* was not to fail: for every job that passes the checks of a create request and
\* every interleaving of its attempts with timeouts, shutdowns and losses.
THEOREM OutcomeIsForetold == Spec => []OutcomeForetold
<1>1. TypeOK /\ OutcomeInv => OutcomeForetold
  <2> SUFFICES ASSUME TypeOK, OutcomeInv PROVE OutcomeForetold
    OBVIOUS
  <2>1. /\ run.attempt \in Nat \ {0} /\ job.fail_attempts \in Nat
        /\ job.fail_at \in Nat /\ job.max_retries \in Nat
    BY ExecutionAssumption DEF TypeOK, Run
  <2> QED BY <2>1 DEF OutcomeInv, CountedInv, MeantToFail, OutcomeForetold
<1> QED BY <1>1, OutcomeInvariant, PTL

\* After its context has ended, for whatever reason and wherever in the loop, an
\* attempt writes at most the line it had begun.
THEOREM AttemptStopsPromptly == Spec => []StopsPromptly
<1>1. OutcomeInv => StopsPromptly
  BY DEF OutcomeInv, LateInv, StopsPromptly
<1> QED BY <1>1, OutcomeInvariant, PTL

-----------------------------------------------------------------------------
\* Refinement.

\* A step that changes nothing of an entry is a stutter of the ledger.
LEMMA SameEntry ==
  ASSUME UNCHANGED <<run, job>>
  PROVE  LedgerEntry' = LedgerEntry
BY DEF LedgerEntry

\* What a step makes of the run is a move of the ledger.
LEMMA EntryStep ==
  ASSUME TypeOK, TypeOK', OutcomeInv, OutcomeInv', [Next]_vars
  PROVE  LedgerEntry' \in Ledger!Moves(LedgerEntry) \cup {LedgerEntry}
<1> DEFINE a == run.attempt
           E(st, n, o) == [status |-> st, attempt |-> n, output |-> o]
<1>1. a \in Nat \ {0} /\ job.lines \in Nat
  BY ExecutionAssumption DEF TypeOK, Run
<1>2. /\ Ledger!Moves(E("ABSENT", 0, 0)) = {E("QUEUED", 1, 0)}
      /\ Ledger!Moves(E("QUEUED", a, 0)) = {E("RUNNING", a, 0), E("FAILED", a, 0)}
      /\ Ledger!Moves(E("RUNNING", a, 0))
           = {E("QUEUED", a + 1, 0), E("FAILED", a, 0), E("SUCCEEDED", a, a)}
  <2>1. Ledger!Moves(E("ABSENT", 0, 0)) = {E("QUEUED", 1, 0)}
    BY DEF Ledger!Moves, Ledger!Entry
  <2>2. Ledger!Moves(E("QUEUED", a, 0)) = {E("RUNNING", a, 0), E("FAILED", a, 0)}
    BY DEF Ledger!Moves, Ledger!Entry
  <2>3. Ledger!Moves(E("RUNNING", a, 0))
          = {E("QUEUED", a + 1, 0), E("FAILED", a, 0), E("SUCCEEDED", a, a)}
    BY DEF Ledger!Moves, Ledger!Entry
  <2> QED BY <2>1, <2>2, <2>3
<1>3. run.status # "SUCCEEDED" =>
        LedgerEntry = E(run.status, IF run.status = "ABSENT" THEN 0 ELSE a, 0)
  BY DEF LedgerEntry, OutcomeInv, CountedInv
<1>4. run'.status # "SUCCEEDED" =>
        LedgerEntry' = E(run'.status, IF run'.status = "ABSENT" THEN 0 ELSE run'.attempt, 0)
  BY DEF LedgerEntry, OutcomeInv, CountedInv
<1>5. ASSUME run.status = "RUNNING", run'.status = "QUEUED", run'.attempt = a + 1
      PROVE  LedgerEntry' \in Ledger!Moves(LedgerEntry)
  BY <1>2, <1>3, <1>4, <1>5
<1>6. ASSUME run.status = "RUNNING", run'.status = "FAILED", run'.attempt = a
      PROVE  LedgerEntry' \in Ledger!Moves(LedgerEntry)
  BY <1>2, <1>3, <1>4, <1>6
<1>7. ASSUME NEW req \in Requests, CreateJob(req)
      PROVE  LedgerEntry' = LedgerEntry
  <2>1. run' = run /\ run.status = "ABSENT"
    BY <1>7 DEF CreateJob, OutcomeInv, StoredInv
  <2> QED BY <1>3, <1>4, <2>1
<1>8. CASE RunJob
  <2>1. run.status = "ABSENT" /\ run'.status = "QUEUED" /\ run'.attempt = 1
    BY <1>8 DEF RunJob, TypeOK, Run, OutcomeInv, StoredInv
  <2> QED BY <1>2, <1>3, <1>4, <2>1
<1>9. ASSUME NEW c \in Configs, Claim(c)
      PROVE  LedgerEntry' \in Ledger!Moves(LedgerEntry)
  <2>1. run.status = "QUEUED" /\ run'.status = "RUNNING" /\ run'.attempt = a
    BY <1>9 DEF Claim, TypeOK, Run
  <2> QED BY <1>2, <1>3, <1>4, <2>1
<1>10. CASE LoadJob \/ Check \/ WriteLine \/ Stopped \/ End \/ Wake \/ LoadFails \/ Lose
  BY <1>10, SameEntry DEF LoadJob, Check, WriteLine, Stopped, End, Wake, LoadFails, Lose
<1>11. ASSUME NEW cause \in {"timeout", "shutdown"}, Cancel(cause)
       PROVE  LedgerEntry' = LedgerEntry
  BY <1>11, SameEntry DEF Cancel
<1>12. CASE Succeed
  <2>1. run.status = "RUNNING" /\ run'.status = "SUCCEEDED" /\ run'.attempt = a
    BY <1>12 DEF Succeed, TypeOK, Run, OutcomeInv, StoredInv, At
  <2>2. run'.output = job'.lines /\ job'.lines >= 1
    BY <1>12, <2>1 DEF Succeed, OutcomeInv, StoredInv, CountedInv
  <2>3. LedgerEntry' = E("SUCCEEDED", a, a)
    BY <1>1, <2>1, <2>2, ExecutionAssumption DEF LedgerEntry, TypeOK
  <2> QED BY <1>2, <1>3, <2>1, <2>3
<1>13. CASE Fail
  <2>1. run.status = "RUNNING"
    BY <1>13 DEF Fail, OutcomeInv, StoredInv, At
  <2>2. CASE Exhausted
    BY <1>6, <1>13, <2>1, <2>2 DEF Fail, FailedRun, TypeOK, Run
  <2>3. CASE ~Exhausted
    BY <1>5, <1>13, <2>1, <2>3 DEF Fail, RequeuedRun, TypeOK, Run
  <2> QED BY <2>2, <2>3
<1>14. CASE Release
  <2>1. run.status = "RUNNING"
    BY <1>14 DEF Release, OutcomeInv, StoredInv, At
  <2> QED BY <1>5, <1>14, <2>1 DEF Release, RequeuedRun, TypeOK, Run
<1>15. CASE Reap
  <2>1. CASE Exhausted
    BY <1>6, <1>15, <2>1 DEF Reap, FailedRun, TypeOK, Run
  <2>2. CASE ~Exhausted
    BY <1>5, <1>15, <2>2 DEF Reap, RequeuedRun, TypeOK, Run
  <2> QED BY <2>1, <2>2
<1>16. CASE UNCHANGED vars
  BY <1>16, SameEntry DEF vars
<1> QED BY <1>7, <1>8, <1>9, <1>10, <1>11, <1>12, <1>13, <1>14, <1>15, <1>16
        DEF Next, Proceed

\* The executor implements RunLedger, the abstract specification that JobSystem
\* implements too: whatever interrupts it, its run goes through the statuses and
\* attempts the ledger allows, and succeeds with a whole output only.
THEOREM ExecutionImplementsLedger == Spec => FollowsLedger
<1>1. Init => Ledger!Init
  <2> SUFFICES ASSUME Init PROVE Ledger!Init
    OBVIOUS
  <2>1. LedgerEntry = [status |-> "ABSENT", attempt |-> 0, output |-> 0]
    BY DEF Init, LedgerEntry
  <2> QED BY <2>1 DEF Ledger!Init, Ledger!Absent, Ledger!Entry
<1>2. (TypeOK /\ OutcomeInv) /\ (TypeOK /\ OutcomeInv)' /\ [Next]_vars
        => [Ledger!Next]_[r \in {"run"} |-> LedgerEntry]
  BY EntryStep DEF Ledger!Next
<1> QED BY <1>1, <1>2, OutcomeInvariant, PTL DEF Spec, FollowsLedger, Ledger!Spec

-----------------------------------------------------------------------------
\* The backoff.

LEMMA InitBackoff == Init => BackoffInv
BY DEF Init, BackoffInv

\* Only Fail sets a backoff, and a claim, which alone changes cfg, clears it.
LEMMA BackoffStep ==
  ASSUME TypeOK, StoredInv, BackoffInv, [Next]_vars
  PROVE  BackoffInv'
<1> USE DEF BackoffInv
<1>1. ASSUME NEW req \in Requests, CreateJob(req) PROVE BackoffInv'
  BY <1>1 DEF CreateJob
<1>2. CASE RunJob
  BY <1>2 DEF RunJob, TypeOK, Run
<1>3. ASSUME NEW c \in Configs, Claim(c) PROVE BackoffInv'
  BY <1>3 DEF Claim, TypeOK, Run
<1>4. CASE LoadJob \/ Check \/ WriteLine \/ Stopped \/ End \/ Wake \/ LoadFails
  BY <1>4 DEF LoadJob, Check, WriteLine, Stopped, End, Wake, LoadFails
<1>5. ASSUME NEW cause \in {"timeout", "shutdown"}, Cancel(cause) PROVE BackoffInv'
  BY <1>5 DEF Cancel
<1>6. CASE Succeed
  BY <1>6 DEF Succeed, TypeOK, Run, StoredInv, At
<1>7. CASE Fail
  <2>1. CASE Exhausted
    BY <1>7, <2>1 DEF Fail, FailedRun, TypeOK, Run
  <2>2. CASE ~Exhausted
    <3>1. run' = RequeuedRun({RetryDelay(cfg, run.attempt)}) /\ cfg' = cfg
      BY <1>7, <2>2 DEF Fail
    <3>2. /\ run'.status = "QUEUED" /\ run'.attempt = run.attempt + 1
          /\ run'.next_attempt_at = {RetryDelay(cfg, run.attempt)}
      BY <3>1 DEF RequeuedRun, TypeOK, Run
    <3>3. run.attempt + 1 >= 2 /\ (run.attempt + 1) - 1 = run.attempt
      BY DEF TypeOK, Run
    <3> QED BY <3>1, <3>2, <3>3
  <2> QED BY <2>1, <2>2
<1>8. CASE Release
  BY <1>8 DEF Release, RequeuedRun, TypeOK, Run
<1>9. CASE Lose
  BY <1>9 DEF Lose
<1>10. CASE Reap
  BY <1>10 DEF Reap, FailedRun, RequeuedRun, TypeOK, Run
<1>11. CASE UNCHANGED vars
  BY <1>11 DEF vars
<1> QED BY <1>1, <1>2, <1>3, <1>4, <1>5, <1>6, <1>7, <1>8, <1>9, <1>10, <1>11
        DEF Next, Proceed

\* The backoff of every retry is RetryBaseDelay doubled for each earlier attempt
\* and capped at RetryMaxDelay, although retryDelay computes it in a Duration: at
\* any width, with any cap that is half of the largest Duration or less, no
\* attempt, however late, has a backoff that overflowed.
THEOREM BackoffIsOnSchedule == Spec => []BackoffSchedule
<1>1. Init => BackoffInv
  BY InitBackoff
<1>2. TypeOK /\ OutcomeInv /\ BackoffInv /\ [Next]_vars => BackoffInv'
  BY BackoffStep DEF OutcomeInv
<1>3. TypeOK /\ BackoffInv => BackoffSchedule
  <2> SUFFICES ASSUME TypeOK, BackoffInv, NEW d \in run.next_attempt_at
               PROVE  d = Min({cfg.base * 2^(run.attempt - 2), cfg.max})
    BY DEF BackoffSchedule
  <2>1. run.attempt >= 2 /\ d = RetryDelay(cfg, run.attempt - 1)
    BY DEF BackoffInv
  <2>2. run.attempt - 1 \in Nat \ {0} /\ (run.attempt - 1) - 1 = run.attempt - 2
    BY <2>1 DEF TypeOK, Run
  <2>3. d = Promised(cfg, run.attempt - 1)
    BY <2>1, <2>2, RetryDelayValue DEF TypeOK
  <2> QED BY <2>2, <2>3 DEF Promised
<1> QED BY <1>1, <1>2, <1>3, OutcomeInvariant, PTL DEF Spec

-----------------------------------------------------------------------------
\* The log of an attempt.

\* A job has fewer than one line more than Every for each of the reports.
LEMMA EveryType ==
  ASSUME TypeOK
  PROVE  Every \in Nat \ {0} /\ job.lines < (Every + 1) * Progress
<1>1. job.lines \in Nat /\ Progress \in Nat \ {0, 1}
  BY ExecutionAssumption DEF TypeOK
<1>2. PICK q \in Nat : q = job.lines \div Progress
  BY <1>1
<1>3. job.lines < (q + 1) * Progress
  BY <1>1, <1>2
<1>4. Every = IF 1 >= q THEN 1 ELSE q
  BY <1>2, MaxOfTwo DEF Every
<1>5. q <= Every
  BY <1>2, <1>4
<1>6. (q + 1) * Progress <= (Every + 1) * Progress
  BY <1>1, <1>2, <1>4, <1>5
<1> QED BY <1>1, <1>2, <1>3, <1>4, <1>6

\* Reports that are e lines apart, before the last line, are at most 2 * p - 1.
LEMMA FewReports ==
  ASSUME NEW l \in Nat, NEW e \in Nat \ {0}, NEW p \in Nat \ {0, 1}, NEW n \in Nat,
         l < (e + 1) * p, (n - 2) * e <= l - 1
  PROVE  n <= 2 * p
<1>1. SUFFICES ASSUME n >= 2 * p + 1 PROVE FALSE
  OBVIOUS
<1>2. (2 * p - 1) * e <= (n - 2) * e
  BY <1>1
<1>3. (2 * p - 1) * e = 2 * (p * e) - e /\ (e + 1) * p = p * e + p
  OBVIOUS
<1>4. PICK k \in Nat : k = p * e
  OBVIOUS
<1>5. 2 * k - e <= k + p - 2
  BY <1>2, <1>3, <1>4
<1>6. PICK r \in Nat \ {0} : p = r + 1
  <2>1. p - 1 \in Nat \ {0} /\ p = (p - 1) + 1
    OBVIOUS
  <2> QED BY <2>1
<1>7. k = r * e + e
  BY <1>4, <1>6
<1>8. r * e <= r - 1
  BY <1>5, <1>6, <1>7
<1>9. r * e >= r
  BY <1>6
<1> QED BY <1>6, <1>8, <1>9

\* After n reports in the lines before i, one at a multiple of e is the next.
LEMMA NextReport ==
  ASSUME NEW n \in Nat, NEW e \in Nat \ {0}, NEW i \in Nat \ {0},
         n * e <= i - 1, i % e = 0
  PROVE  (n + 1) * e <= i
<1>1. PICK k \in Nat : k = i \div e
  OBVIOUS
<1>2. i = e * k
  BY <1>1
<1>3. n * e < k * e
  BY <1>2
<1>4. n < k
  BY <1>3
<1>5. (n + 1) * e <= k * e
  BY <1>4
<1> QED BY <1>2, <1>5

LEMMA InitReports == Init => ReportsInv
BY ExecutionAssumption DEF Init, Idle, ReportsInv, LogFits

\* While reports are counted there is room for one more, that of the failure.
LEMMA RoomForOne ==
  ASSUME TypeOK, (exec.log - 2) * Every <= job.lines - 1
  PROVE  exec.log <= 2 * Progress
BY EveryType, FewReports, ExecutionAssumption DEF TypeOK

LEMMA WriteLineReports ==
  ASSUME TypeOK, TypeOK', StoredInv, LoopInv, ReportsInv, WriteLine
  PROVE  ReportsInv'
<1> DEFINE l == job.lines
           e == Every
           n == exec.log - 1
           i == exec.i
<1>1. l \in Nat /\ e \in Nat \ {0} /\ n \in Nat /\ i \in Nat \ {0} /\ i <= l
  BY EveryType, ExecutionAssumption DEF WriteLine, At, TypeOK, LoopInv, ReportsInv
<1>2. n * e <= i - 1
  BY <1>1 DEF WriteLine, At, ReportsInv
<1>3. job' = job /\ Every' = e /\ exec'.i = i + 1
  BY DEF WriteLine, Every
<1>4. exec'.log \in Nat /\ exec'.phase \in {"error", "sleep", "check"}
  BY DEF WriteLine, TypeOK
<1>5. exec'.log = exec.log \/ exec'.log = exec.log + 1
  BY DEF WriteLine, TypeOK
<1>6. exec'.log = exec.log + 1 /\ exec'.phase # "error" => i % e = 0 \/ i = l
  BY <1>1 DEF WriteLine, TypeOK
<1>7. exec.log = n + 1
  BY <1>1 DEF TypeOK
<1> HIDE DEF l, e, n, i
<1>8. (exec'.log - 2) * e <= l - 1
  <2>1. CASE exec'.log = n + 2
    BY <1>1, <1>2, <2>1
  <2>2. CASE exec'.log = n + 1
    <3>1. (n - 1) * e <= n * e
      BY <1>1
    <3> QED BY <1>1, <1>2, <2>2, <3>1
  <2> QED BY <1>1, <1>5, <1>7, <2>1, <2>2
<1>9. i + 1 <= l /\ exec'.phase # "error" => (exec'.log - 1) * e <= i
  <2> SUFFICES ASSUME i + 1 <= l, exec'.phase # "error" PROVE (exec'.log - 1) * e <= i
    OBVIOUS
  <2>1. CASE exec'.log = n + 2
    <3>1. i # l /\ exec'.log = exec.log + 1
      BY <1>1, <1>7, <2>1
    <3>2. i % e = 0
      BY <1>6, <3>1
    <3>3. (n + 1) * e <= i
      BY <1>1, <1>2, <3>2, NextReport
    <3> QED BY <1>1, <2>1, <3>3
  <2>2. CASE exec'.log = n + 1
    BY <1>1, <1>2, <2>2
  <2> QED BY <1>1, <1>5, <1>7, <2>1, <2>2
<1>10. exec'.log <= 2 * Progress
  <2>1. l < (e + 1) * Progress
    BY EveryType DEF l, e
  <2> QED BY <1>1, <1>4, <1>8, <2>1, FewReports, ExecutionAssumption
<1>11. exec'.log >= 1
  BY <1>1, <1>5, <1>7
<1>12. (exec'.i <= l /\ exec'.phase # "error") => (exec'.log - 1) * e <= exec'.i - 1
  BY <1>1, <1>3, <1>9
<1>13. exec'.log <= 2 * Progress + 1
  BY <1>4, <1>10, ExecutionAssumption
<1> QED BY <1>3, <1>4, <1>8, <1>11, <1>12, <1>13 DEF ReportsInv, LogFits, l

LEMMA ReportsStep ==
  ASSUME TypeOK, TypeOK', StoredInv, LoopInv, ReportsInv, [Next]_vars
  PROVE  ReportsInv'
<1> USE DEF ReportsInv, LogFits
<1>1. ASSUME NEW req \in Requests, CreateJob(req) PROVE ReportsInv'
  BY <1>1 DEF CreateJob, StoredInv, At
<1>2. CASE RunJob \/ Reap
  BY <1>2 DEF RunJob, Reap, Every
<1>3. ASSUME NEW c \in Configs, Claim(c) PROVE ReportsInv'
  BY <1>3, ExecutionAssumption DEF Claim, Idle
<1>4. CASE LoadJob
  <2>1. job' = job /\ Every' = Every
    BY <1>4 DEF LoadJob, Every
  <2>2. exec'.phase = "check" /\ exec'.log = 1 /\ exec'.i = exec.i
    BY <1>4 DEF LoadJob, TypeOK
  <2>3. job.lines \in Nat /\ job.lines >= 1 /\ exec.i \in Nat \ {0}
    BY <1>4, ExecutionAssumption DEF LoadJob, StoredInv, At, TypeOK, NoJob
  <2>4. Every \in Nat
    BY EveryType
  <2>5. (1 - 2) * Every <= job.lines - 1 /\ (1 - 1) * Every <= exec.i - 1
    BY <2>3, <2>4
  <2> QED BY <2>1, <2>2, <2>5, ExecutionAssumption
<1>5. CASE Check
  BY <1>5 DEF Check, Goto, TypeOK, Every, At
<1>6. CASE WriteLine
  BY <1>6, WriteLineReports
<1>7. CASE Stopped \/ Wake \/ LoadFails
  BY <1>7 DEF Stopped, Wake, LoadFails, Goto, TypeOK, Every, At
<1>8. CASE End
  BY <1>8, RoomForOne, ExecutionAssumption DEF End, TypeOK, At
<1>9. ASSUME NEW cause \in {"timeout", "shutdown"}, Cancel(cause) PROVE ReportsInv'
  BY <1>9 DEF Cancel, Every
<1>10. CASE Succeed \/ Fail \/ Release \/ Lose
  BY <1>10, ExecutionAssumption DEF Succeed, Fail, Release, Lose, Idle
<1>11. CASE UNCHANGED vars
  BY <1>11 DEF vars, Every
<1> QED BY <1>1, <1>2, <1>3, <1>4, <1>5, <1>6, <1>7, <1>8, <1>9, <1>10, <1>11
        DEF Next, Proceed

\* An attempt logs at most twice Progress lines and one, however many lines the
\* job has, wherever it fails, and whatever Progress is: with the 20 of the code,
\* fewer than a batch of the logger or a page of the API holds.
THEOREM LogOfAttemptFits == Spec => []LogFits
<1>1. Init => ReportsInv
  BY InitReports
<1>2. (TypeOK /\ OutcomeInv) /\ (TypeOK /\ OutcomeInv)' /\ ReportsInv /\ [Next]_vars
        => ReportsInv'
  BY ReportsStep DEF OutcomeInv
<1>3. ReportsInv => LogFits
  BY DEF ReportsInv
<1> QED BY <1>1, <1>2, <1>3, OutcomeInvariant, PTL DEF Spec
=============================================================================
