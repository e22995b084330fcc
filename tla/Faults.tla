------------------------------- MODULE Faults -------------------------------
(***************************************************************************)
(* The failures the environment inflicts on jobsys, each kind with a       *)
(* budget.  A budget makes the model finite and, for liveness, says that   *)
(* failures stop eventually; it never restricts when a failure strikes.    *)
(*                                                                         *)
(*   crash    a worker or API process dies (docker kill, OOM)              *)
(*   sigterm  a worker's context is cancelled (docker stop, rollout)       *)
(*   fetch    the Kafka reader returns an error that is not a cancellation *)
(*   db       a Postgres call returns an error, applied or not             *)
(*   kafka    a publish or an offset commit returns an error               *)
(*   disk     the output file cannot be written                            *)
(***************************************************************************)
EXTENDS Naturals

FaultKinds == {"crash", "sigterm", "fetch", "db", "kafka", "disk"}

CONSTANT MaxFaults  \* how many faults of each kind may happen

ASSUME MaxFaultsAssumption == MaxFaults \in [FaultKinds -> Nat]

VARIABLE faults     \* how many faults of each kind have happened

FaultsTypeOK == faults \in [FaultKinds -> Nat]

FaultsInit == faults = [k \in FaultKinds |-> 0]

\* One fault of kind k happens in this step.
Fault(k) ==
  /\ faults[k] < MaxFaults[k]
  /\ faults' = [faults EXCEPT ![k] = @ + 1]
=============================================================================
