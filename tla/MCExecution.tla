---------------------------- MODULE MCExecution -----------------------------
(***************************************************************************)
(* A small instance of Execution for TLC.                                  *)
(***************************************************************************)
EXTENDS Execution

Request(name, type, lines, delay, fail_at, fail_attempts, retries, timeout) ==
  [name |-> name, type |-> type,
   payload |-> [lines |-> lines, delay_ms |-> delay,
                fail_at |-> fail_at, fail_attempts |-> fail_attempts],
   max_retries |-> retries, timeout_sec |-> timeout]

\* Lines around the steps of Every, with each way to fail.
Generate(lines, delays, retries) ==
  {Request("j", "generate_text", lines, delay, fail_at, fail_attempts, r, {}) :
     delay \in delays, fail_at \in 0..1 \cup {lines}, fail_attempts \in 0..2, r \in retries}

\* The most lines an attempt logs, and jobs that fail longer than the backoff grows.
Good == Generate(1, {0}, {{}, {0}, {1}, {maxMaxRetries}})
          \cup Generate(3, {0, 1}, {{0}, {1}})
          \cup Generate(39, {0}, {{1}})
          \cup Generate(41, {1}, {{0}})

\* Each check of newJob and validate fails once on its own.
Bad == {Request("", "generate_text", 1, 0, 0, 0, {}, {}), Request("j", "", 1, 0, 0, 0, {}, {}),
        Request("j", "generate_text", 0, 0, 0, 0, {}, {}),
        Request("j", "generate_text", maxLines + 1, 0, 0, 0, {}, {}),
        Request("j", "generate_text", 1, -1, 0, 0, {}, {}),
        Request("j", "generate_text", 1, maxDelayMs + 1, 0, 0, {}, {}),
        Request("j", "generate_text", 1, 0, -1, 0, {}, {}),
        Request("j", "generate_text", 1, 0, 2, 0, {}, {}),
        Request("j", "generate_text", 1, 0, 0, -1, {}, {}),
        Request("j", "generate_text", 1, 0, 0, maxFailAttempts + 1, {}, {}),
        Request("j", "generate_text", 1, 0, 0, 0, {-1}, {}),
        Request("j", "generate_text", 1, 0, 0, 0, {maxMaxRetries + 1}, {}),
        Request("j", "generate_text", 1, 0, 0, 0, {}, {0}),
        Request("j", "generate_text", 1, 0, 0, 0, {}, {maxTimeoutSec + 1})}

GoodAndBad == Good \cup Bad

\* Configs: a cap that is no multiple of the base, and the largest one.
Delays == {[base |-> 3, max |-> 8], [base |-> 1, max |-> 8], [base |-> 5, max |-> 5]}

\* MaxFaults.
ExecutionFaults ==
  [k \in FaultKinds |-> IF k \in {"crash", "sigterm", "db"} THEN 1 ELSE 0]
=============================================================================
