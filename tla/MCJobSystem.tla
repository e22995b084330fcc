---------------------------- MODULE MCJobSystem -----------------------------
(***************************************************************************)
(* Small instances of JobSystem for TLC.                                   *)
(***************************************************************************)
EXTENDS JobSystem, TLC

CONSTANTS w1, w2, r1

\* Workers differ in their identity only.  Used by the safety runs.
WorkerSymmetry == Permutations(Workers)

\* max_retries.
OneRetry == [r \in Runs |-> 1]
NoRetry  == [r \in Runs |-> 0]

\* MaxFaults.
Budget(crash, sigterm, fetch, db, kafka, disk) ==
  [crash |-> crash, sigterm |-> sigterm, fetch |-> fetch, db |-> db,
   kafka |-> kafka, disk |-> disk]

PoolFaults  == Budget(1, 1, 0, 1, 0, 0)
SlotFaults  == Budget(0, 1, 1, 1, 1, 1)
LiveFaults  == Budget(1, 1, 0, 1, 1, 0)
AckLost     == Budget(0, 0, 0, 0, 1, 0)
FetchFault  == Budget(0, 0, 1, 0, 0, 0)
NoFaults    == Budget(0, 0, 0, 0, 0, 0)
=============================================================================
