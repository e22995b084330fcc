------------------------------ MODULE MCRunLog ------------------------------
(***************************************************************************)
(* Small instances of RunLog for TLC.                                      *)
(***************************************************************************)
EXTENDS RunLog

\* MaxLines: attempts that fill a buffer and leave a line, and short ones.
Lines == [a \in Attempts |-> IF a = 1 THEN 3 ELSE 1]

\* StreamStarts: at the beginning, as jobctl and the web page ask, within the
\* first attempt, and at the second.
Starts == {<<1, 1>>, <<1, 2>>, <<2, 1>>}

\* MaxFaults.
LogFaults == [k \in FaultKinds |-> IF k = "db" THEN 1 ELSE 0]
=============================================================================
