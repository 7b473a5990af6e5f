----------------------------- MODULE MCIngestion ----------------------------
(***************************************************************************)
(* Small instances of Ingestion for TLC.                                   *)
(***************************************************************************)
EXTENDS Ingestion, TLC

CONSTANTS d1, d2, d3, c1, c2, w1, w2, w3, w4, w5,
          RequeuedStages   \* the stages a document may have a second job in

AllStages == {"SCAN", "EXTRACT", "NORMALIZE", "CHUNK", "EMBED"}

\* A job is a document, a stage and a number.
AllJobs == (Docs \X Stages \X {1}) \cup (Docs \X RequeuedStages \X {2})
JobsDoc == [j \in Jobs |-> j[1]]
JobsStage == [j \in Jobs |-> j[2]]

OneDoc == {d1}
TwoDocs == {d1, d2}
ThreeDocs == {d1, d2, d3}

\* All documents are copies of one valid file; all but the first RESTRICTED.
SameContent == [d \in Docs |-> c1]
FirstPublic == [d \in Docs |-> IF d = d1 THEN "PUBLIC" ELSE "RESTRICTED"]

\* d1 and d2 are copies, d3 is another file.
ThirdDiffers == [d \in Docs |-> IF d = d3 THEN c2 ELSE c1]

\* Scanning only: EXTRACT jobs are queued and nobody takes them.
ScanStages == {"SCAN", "EXTRACT"}
TwoScanners == {w1, w2}
BothScan == [w \in Workers |-> "SCAN"]

\* One scanner and one worker for EXTRACT.
ScannerAndExtractor == {w1, w3}
ScanAndExtract == [w \in Workers |-> IF w = w3 THEN "EXTRACT" ELSE "SCAN"]

\* The SCAN workers are interchangeable.
ScannerSymmetry == Permutations({w1, w2})

\* One worker per stage.
FiveWorkers == {w1, w2, w3, w4, w5}
OnePerStage ==
    [w \in Workers |->
        IF w = w1 THEN "SCAN" ELSE IF w = w2 THEN "EXTRACT" ELSE IF w = w3 THEN "NORMALIZE"
        ELSE IF w = w4 THEN "CHUNK" ELSE "EMBED"]
=============================================================================
