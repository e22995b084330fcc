----------------------------- MODULE MCStartup ------------------------------
(***************************************************************************)
(* A small instance of Startup for TLC.                                    *)
(***************************************************************************)
EXTENDS Startup

CONSTANTS p1, p2, p3

\* Image: a rollout, p1 still has the image without the last file.
Rollout == [p \in Pods |-> IF p = p1 THEN 2 ELSE 3]

\* MaxFaults.
StartupFaults == [k \in FaultKinds |-> IF k \in {"crash", "db"} THEN 2 ELSE 0]
=============================================================================
