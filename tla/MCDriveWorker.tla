---------------------------- MODULE MCDriveWorker ---------------------------
(***************************************************************************)
(* A small instance of DriveWorker: two roots and two folders.             *)
(***************************************************************************)
EXTENDS DriveWorker

TwoRootsTwoFolders == 1 .. 4

\* Trees, chains, the second root inside the first or inside its own subfolder,
\* folders with two parents, and cycles.
SomeShapes ==
    {[f \in Folders |-> CASE f = 1 -> {} [] f = 2 -> p2 [] f = 3 -> p3 [] f = 4 -> p4] :
        p2 \in {{}, {1}, {4}}, p3 \in {{1}, {2}, {1, 2}, {4}}, p4 \in {{3}, {1, 3}}}
=============================================================================
