----------------------------- MODULE MCWebPage ------------------------------
(***************************************************************************)
(* Small instances of WebPage for TLC.                                     *)
(***************************************************************************)
EXTENDS WebPage

CONSTANTS r1, r2, j1, j2

\* JobOf: one run each.
OneRunEach == [r \in Runs |-> IF r = r1 THEN j1 ELSE j2]
OneJob == [r \in Runs |-> j1]

\* MaxFaults.
Failures(n) == [k \in FaultKinds |-> IF k = "crash" THEN n ELSE 0]
OneFailure == Failures(1)
NoFailure == Failures(0)
=============================================================================
