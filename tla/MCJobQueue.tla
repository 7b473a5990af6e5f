----------------------------- MODULE MCJobQueue -----------------------------
(***************************************************************************)
(* A small instance of JobQueue for TLC.                                   *)
(***************************************************************************)
EXTENDS JobQueue

CONSTANTS j1, w1, w2, w3

OneJob == {j1}
ThreeWorkers == {w1, w2, w3}

\* Everyone serves SCAN.
ScanOnly == {"SCAN"}
AllJobsScan == [j \in Jobs |-> "SCAN"]
AllWorkersScan == [w \in Workers |-> "SCAN"]
=============================================================================
