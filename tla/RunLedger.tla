----------------------------- MODULE RunLedger ------------------------------
(***************************************************************************)
(* What jobsys promises about a run, whatever workers, messages and        *)
(* processes do: a run is submitted once, its attempts follow each other   *)
(* one by one, only a running attempt is retried or succeeds, a success    *)
(* records the output of the very attempt it ends, and a final status is   *)
(* final.  JobSystem and Execution implement this specification.           *)
(***************************************************************************)
EXTENDS Naturals

CONSTANT Runs

VARIABLE ledger    \* the status, attempt and output of each run

Entry(status, attempt, output) ==
  [status |-> status, attempt |-> attempt, output |-> output]

Absent == Entry("ABSENT", 0, 0)

\* What one change may make of the entry e of a run.
Moves(e) ==
  CASE e.status = "ABSENT"  -> {Entry("QUEUED", 1, 0)}
    [] e.status = "QUEUED"  -> {Entry("RUNNING", e.attempt, e.output),
                                Entry("FAILED", e.attempt, e.output)}
    [] e.status = "RUNNING" -> {Entry("QUEUED", e.attempt + 1, e.output),
                                Entry("FAILED", e.attempt, e.output),
                                Entry("SUCCEEDED", e.attempt, e.attempt)}
    [] OTHER                -> {}

Init == ledger = [r \in Runs |-> Absent]

\* One statement may change several runs: the reaper works in batches.
Next ==
  /\ ledger' = [r \in Runs |-> ledger'[r]]
  /\ \A r \in Runs : ledger'[r] \in Moves(ledger[r]) \cup {ledger[r]}

Spec == Init /\ [][Next]_ledger
=============================================================================
