---------------------------- MODULE MCDriveSync -----------------------------
(***************************************************************************)
(* Small instances of DriveSync for TLC.                                   *)
(***************************************************************************)
EXTENDS DriveSync, TLC

CONSTANTS a, b, c1, c2, junk

FourDocs == 1..4
ThreeDocs == 1..3
ContentSymmetry == Permutations({c1, c2})
BothSyncers == {"worker", "manual"}
OnlyWorker == {"worker"}
=============================================================================
