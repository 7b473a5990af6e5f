------------------------------ MODULE LifeProofs -----------------------------
(***************************************************************************)
(* What the scan refuses as a copy is kept elsewhere, and the stricter     *)
(* tier wins; the pipeline implements DocumentLife; what is stranded       *)
(* between two stages can be put back on its way; what is erased stays     *)
(* erased; and the audit log tells how far a document got.                 *)
(***************************************************************************)
EXTENDS IngestionProofs

(***************************************************************************)
(* Deduplication.  It needs that a document is scanned by one worker at a  *)
(* time, which renewals that keep up give (SCAN outside LeaseLoss), and a  *)
(* single SCAN worker too.                                                 *)
(***************************************************************************)

\* One SCAN worker, as docker-compose has it.
OneScanner ==
    \A v, w \in Workers : WorkerStage[v] = "SCAN" /\ WorkerStage[w] = "SCAN" => v = w

\* A document is scanned by one worker at a time.
ScanSolo ==
    \A v, w \in Workers :
        /\ workers[v].pc # "idle" /\ workers[w].pc # "idle"
        /\ WorkerStage[v] = "SCAN" /\ WorkerStage[w] = "SCAN" /\ DocOf(v) = DocOf(w)
        => v = w

\* Nothing sends a text stage back to an upload.
TextPastUpload ==
    \A w \in Workers :
        WorkerStage[w] \in TextStageNames /\ task[w].pc \in TextOpen =>
            docs[DocOf(w)].status \notin {"ABSENT", "QUARANTINED"}

UploadInv == OneScanJob /\ CreatedByUpload /\ TextPastUpload

\* The queue's own steps insert no job.
LEMMA NoNewJobs ==
    ASSUME QueueTypeOK, TypeOK, ClaimsDistinct, NEW w \in Workers,
           \/ Claims(w) \/ Renews(w) \/ Reaps(w) \/ Writes(w) \/ CompletionFails(w)
           \/ WorkerDies(w) \/ (Handles(w) /\ returns(w)) \/ Aborts(w)
    PROVE  \A j \in Jobs : jobs'[j].status # "ABSENT" => jobs[j].status # "ABSENT"
<1>1. /\ jobs \in [Jobs -> JobRows] /\ workers \in [Workers -> WorkerStates]
      /\ \A v \in Workers : workers[v].pc # "idle" => workers[v].job \in Jobs
  BY HasDocument DEF QueueTypeOK
<1>2. CASE Claims(w)
  BY <1>1, <1>2 DEF Claims, pick_job
<1>3. CASE Renews(w)
  BY <1>1, <1>3 DEF Renews, renew_once, RenewMatches
<1>4. CASE Reaps(w)
  BY <1>1, <1>4, RowEdits DEF Reaps, reap_stuck_jobs, Expired
<1>5. CASE Writes(w)
  <2>1. /\ workers[w].job \in Jobs /\ jobs[workers[w].job].status # "ABSENT"
        /\ \A i \in Jobs \ {workers[w].job} : jobs'[i] = jobs[i]
    BY <1>1, <1>5 DEF Writes, WriteOutcome, mark_job_completed, handle_job_retry_or_fail,
       mark_job_failed, ClaimsDistinct
  <2> QED
    BY <2>1
<1>6. CASE jobs' = jobs
  BY <1>6
<1> QED
  BY <1>2, <1>3, <1>4, <1>5, <1>6 DEF CompletionFails, complete_raises, WorkerDies, Crash, returns,
     process_job_ends, Aborts, aborts, queueVars

\* A handler is no upload.
LEMMA HandlerUploads ==
    ASSUME QueueTypeOK, TypeOK, UploadInv, ClaimsDistinct,
           NEW w \in Workers, ScanNext(w) \/ TextNext(w), UNCHANGED apiVars
    PROVE  UploadInv'
<1>1. /\ workers' = workers /\ workers[w].pc = "processing" /\ upload' = upload
      /\ \A v \in Workers \ {w} : task'[v] = task[v]
      /\ \A v \in Workers : DocOf(v)' = DocOf(v)
      /\ workers[w].job \in Jobs /\ jobs[workers[w].job].status # "ABSENT"
      /\ JobStage[workers[w].job] = WorkerStage[w]
  BY HandlerFrame, HasDocument DEF DocOf, ClaimsDistinct, TypeOK, TaskFits, apiVars
<1>2. PICK d \in Docs : d = DocOf(w)
  BY <1>1, HasDocument
<1>3. OneScanJob'
  BY <1>1, ScanJobsKept DEF UploadInv, OneScanJob
<1>4. /\ \A e \in Docs \ {d} : docs'[e].status = docs[e].status
      /\ \/ docs'[d].status = docs[d].status
         \/ WorkerStage[w] = "SCAN" /\ docs'[d].status \notin {"ABSENT", "QUARANTINED"}
         \/ /\ docs[d].status \notin {"ABSENT", "QUARANTINED"}
            /\ docs'[d].status \notin {"ABSENT", "QUARANTINED"}
  <2>1. CASE ScanNext(w)
    BY <1>2, <2>1, ScanMoves
  <2>2. CASE TextNext(w)
    BY <1>2, <2>2, TextMoves
       DEF UploadInv, TextPastUpload, DoneStatus, FailStatus, TextStageNames
  <2> QED
    BY <2>1, <2>2
<1>5. WorkerStage[w] = "SCAN" => upload[d] \notin {"none", "stored", "created"}
  BY <1>1, <1>2 DEF UploadInv, OneScanJob, DocOf
<1>6. CreatedByUpload'
  BY <1>1, <1>4, <1>5 DEF UploadInv, CreatedByUpload
<1>7. TextPastUpload'
  <2> SUFFICES ASSUME NEW v \in Workers, WorkerStage[v] \in TextStageNames,
                      task'[v].pc \in TextOpen
               PROVE  docs'[DocOf(v)].status \notin {"ABSENT", "QUARANTINED"}
    BY <1>1 DEF TextPastUpload
  <2>1. PICK e \in Docs : e = DocOf(v)
    BY <1>1, HasDocument DEF TypeOK, TaskFits, TextOpen
  <2>2. docs[e].status \notin {"ABSENT", "QUARANTINED"}
    <3>1. CASE v = w /\ TextNext(w)
      BY <1>2, <2>1, <3>1, TextMoves
         DEF UploadInv, TextPastUpload, EntryStatus, TextStageNames
    <3>2. CASE v # w
      BY <1>1, <2>1, <3>2 DEF UploadInv, TextPastUpload
    <3> QED
      BY <3>1, <3>2, ScanMoves DEF TextStageNames
  <2> QED
    BY <1>4, <2>1, <2>2
<1> QED
  BY <1>3, <1>6, <1>7 DEF UploadInv

\* Every document is uploaded once, and its SCAN job queued once.
LEMMA UploadStepKept ==
    ASSUME "SCAN" \notin BackfillStages, "reset" \notin Backfills
    PROVE  QueueTypeOK /\ TypeOK /\ TypeOK' /\ ClaimsDistinct /\ UploadInv /\ [Next]_vars
           => UploadInv'
<1> SUFFICES ASSUME QueueTypeOK, TypeOK, TypeOK', ClaimsDistinct, UploadInv, [Next]_vars
             PROVE  UploadInv'
  OBVIOUS
<1>1. ASSUME UNCHANGED <<docs, upload>>, \A v \in Workers : Undisturbed(v),
             \A j \in Jobs : jobs'[j].status # "ABSENT" => jobs[j].status # "ABSENT"
      PROVE  UploadInv'
  <2>1. \A v \in Workers : task'[v].pc \in TextOpen => task[v] = task'[v] /\ DocOf(v)' = DocOf(v)
    BY <1>1 DEF Undisturbed, DocOf, TextOpen, Loaded, TextPcs
  <2> QED
    BY <1>1, <2>1 DEF UploadInv, OneScanJob, CreatedByUpload, TextPastUpload
<1>2. ASSUME UNCHANGED <<task, workers>> PROVE \A v \in Workers : Undisturbed(v)
  BY <1>2 DEF Undisturbed, TypeOK, TaskFits, Loaded, ScanPcs, TextPcs
<1>3. ASSUME NEW w \in Workers,
             \/ Claims(w) \/ Renews(w) \/ Reaps(w) \/ Writes(w) \/ CompletionFails(w)
             \/ WorkerDies(w) \/ Handles(w) \/ Aborts(w)
      PROVE  UploadInv'
  <2>1. CASE Handles(w) /\ ~returns(w)
    BY <2>1, HandlerUploads DEF Handles
  <2>2. CASE ~(Handles(w) /\ ~returns(w))
    BY <1>1, <1>3, <2>2, QueueSteps, NoNewJobs DEF corpusVars, apiVars
  <2> QED
    BY <2>1, <2>2
<1>4. ASSUME NEW d \in Docs,
             Receives(d) \/ Deleted(d) \/ Erases(d) \/ RequestDies(d) \/ Backfilled(d)
      PROVE  UploadInv'
  <2>1. /\ workers' = workers /\ task' = task /\ \A v \in Workers : DocOf(v)' = DocOf(v)
        /\ docs \in [Docs -> DocRows] /\ upload \in [Docs -> UploadStates]
        /\ jobs \in [Jobs -> JobRows]
    BY <1>4, RequestsFrame DEF TypeOK, QueueTypeOK, DocOf
  <2>2. \A v \in Workers : task[v].pc \in TextOpen => DocOf(v) \in Docs
    BY HasDocument DEF TypeOK, TaskFits, TextOpen
  <2>3. \A j \in Jobs : JobDoc[j] \in Docs
    BY CorpusAssumption
  <2>4. ASSUME \A e \in Docs : docs'[e].status = docs[e].status,
               \A e \in Docs : \/ upload'[e] = upload[e]
                               \/ upload[e] = "none" /\ upload'[e] = "stored"
                               \/ upload'[e] \in {"queued", "done", "dead"},
               \A j \in Jobs : JobStage[j] = "SCAN" /\ jobs'[j].status # "ABSENT" =>
                                  jobs[j].status # "ABSENT"
        PROVE  UploadInv'
    BY <2>1, <2>2, <2>3, <2>4 DEF UploadInv, OneScanJob, CreatedByUpload, TextPastUpload
  <2>5. CASE receive_enqueue(d)
    <3>1. PICK j \in JobsOf(d) : JobStage[j] = "SCAN" /\ AddJob(j)
      BY <2>5 DEF receive_enqueue
    <3>2. /\ j \in Jobs /\ JobDoc[j] = d /\ upload[d] = "created" /\ docs' = docs
          /\ upload' = [upload EXCEPT ![d] = "queued"] /\ jobs' = [jobs EXCEPT ![j] = NewRow]
      BY <2>5, <3>1 DEF receive_enqueue, UploadStep, JobsOf, AddJob, corpusVars
    <3>3. \A i \in Jobs : JobStage[i] = "SCAN" /\ JobDoc[i] = d => jobs[i].status = "ABSENT"
      BY <3>2 DEF UploadInv, OneScanJob
    <3>4. OneScanJob'
      BY <2>1, <2>3, <3>2, <3>3 DEF UploadInv, OneScanJob
    <3> QED
      BY <2>1, <3>2, <3>4 DEF UploadInv, CreatedByUpload, TextPastUpload
  <2>6. CASE receive_create(d)
    <3>1. /\ upload[d] = "stored" /\ docs[d].status = "ABSENT"
          /\ upload' = [upload EXCEPT ![d] = "created"] /\ jobs' = jobs
          /\ docs'[d].status = "QUARANTINED"
          /\ \A e \in Docs \ {d} : docs'[e] = docs[e]
      BY <2>1, <2>6 DEF receive_create, UploadStep, UploadInv, CreatedByUpload, DocRows, queueVars
    <3> QED
      BY <2>1, <2>2, <2>3, <3>1 DEF UploadInv, OneScanJob, CreatedByUpload, TextPastUpload
  <2>7. CASE Deleted(d) \/ Erases(d) \/ (RequestDies(d) /\ erase_dies(d))
    BY <2>4, <2>7, EraseMoves
  <2>8. CASE receive_put(d) \/ receive_audit(d) \/ receive_dies(d)
    BY <2>1, <2>4, <2>8
       DEF receive_put, receive_audit, receive_dies, UploadStep, corpusVars, queueVars
  <2>9. CASE Backfilled(d)
    BY <2>1, <2>4, <2>9 DEF Backfilled, backfill, AddJob, apiVars
  <2> QED
    BY <1>4, <2>5, <2>6, <2>7, <2>8, <2>9 DEF Receives, RequestDies
<1>5. ASSUME NEW j \in Jobs, LeaseRunsOut(j) PROVE UploadInv'
  <2>1. \A i \in Jobs : jobs'[i].status = jobs[i].status
    BY <1>5, RowEdits DEF LeaseRunsOut, ExpireLease, QueueTypeOK
  <2> QED
    BY <1>1, <1>2, <1>5, <2>1 DEF LeaseRunsOut, ExpireLease, corpusVars, apiVars
<1>6. CASE UNCHANGED vars
  BY <1>1, <1>2, <1>6 DEF vars
<1> QED
  BY <1>3, <1>4, <1>5, <1>6 DEF Next

\* While renewals keep up or there is one scanner, and SCAN is not back-filled, no two
\* workers are ever on the scan of one document.
LEMMA ScannedAlone ==
    ASSUME OneScanner \/ "SCAN" \notin LeaseLoss,
           "SCAN" \notin BackfillStages, "reset" \notin Backfills
    PROVE  Spec => [](ScanSolo /\ UploadInv)
<1>1. Spec => []ClaimsDistinct
  <2>1. StaleInv => ClaimsDistinct
    BY DEF StaleInv
  <2> QED
    BY <2>1, PipelineImplementsQueue, ClaimsAccounted, PTL
<1>2. Init => UploadInv
  BY StageInit DEF StageInv, UploadInv, TextPastUpload, Init, TaskInit, NoTask, TextOpen
<1>3. QueueTypeOK /\ TypeOK /\ TypeOK' /\ ClaimsDistinct /\ UploadInv /\ [Next]_vars => UploadInv'
  BY UploadStepKept
<1>4. ASSUME "SCAN" \notin LeaseLoss, QueueTypeOK, HeldInv, UploadInv PROVE ScanSolo
  <2> SUFFICES ASSUME NEW v \in Workers, NEW w \in Workers,
                      workers[v].pc # "idle", workers[w].pc # "idle",
                      WorkerStage[v] = "SCAN", WorkerStage[w] = "SCAN", DocOf(v) = DocOf(w)
               PROVE  v = w
    BY DEF ScanSolo
  <2>1. /\ workers[v].job \in Jobs /\ workers[w].job \in Jobs
        /\ JobStage[workers[v].job] = "SCAN" /\ JobStage[workers[w].job] = "SCAN"
        /\ jobs[workers[v].job].status = "RUNNING" /\ jobs[workers[w].job].status = "RUNNING"
        /\ jobs[workers[v].job].worker_id = v /\ jobs[workers[w].job].worker_id = w
    BY <1>4, HasDocument DEF HeldInv
  <2>2. workers[v].job = workers[w].job
    BY <1>4, <2>1 DEF UploadInv, OneScanJob, DocOf
  <2> QED
    BY <2>1, <2>2
<1>5. CASE OneScanner
  <2>1. ScanSolo
    BY <1>5 DEF OneScanner, ScanSolo
  <2> QED
    BY <1>1, <1>2, <1>3, <2>1, PipelineTypeCorrect, PTL DEF Spec
<1>6. CASE "SCAN" \notin LeaseLoss
  <2>1. Spec => []HeldInv
    BY PipelineImplementsQueue, JobsHeld
  <2>2. QueueTypeOK /\ HeldInv /\ UploadInv => ScanSolo
    BY <1>4, <1>6
  <2> QED
    BY <1>1, <1>2, <1>3, <2>1, <2>2, PipelineTypeCorrect, PTL DEF Spec
<1> QED
  BY <1>5, <1>6

(***************************************************************************)
(* What is known of the bytes.                                             *)
(***************************************************************************)

\* The document that the unique index guards: later copies are its duplicates.
Holds(d) == docs[d].sha = ContentOf[d] /\ Active(docs[d])

\* Some other document does.
HeldElsewhere(d) == \E e \in Docs \ {d} : ContentOf[e] = ContentOf[d] /\ Holds(e)

\* What a row says of the bytes.
RowTrue(d) ==
    /\ docs[d].sha \in {None, ContentOf[d]}
    /\ docs[d].sha # None => ContentOf[d] \in Valid
    /\ docs[d].status \in {"ABSENT", "QUARANTINED"} => docs[d].sha = None
    /\ docs[d].sha = None =>
          docs[d].status \in {"ABSENT", "QUARANTINED", "VALIDATION_FAILED", "REJECTED"}
    /\ Holds(d) => <<"raw", ContentOf[d]>> \in store \/ <<"quarantine", d>> \in store
    /\ docs[d].status = "DUPLICATE" => HeldElsewhere(d)

\* uq_documents_active_sha256.
UniqueIndex ==
    \A d, e \in Docs : Holds(d) /\ Holds(e) /\ ContentOf[d] = ContentOf[e] => d = e

\* What a SCAN handler knows of its document, by the place it has got to.
ScanKnows(w) ==
    LET d == DocOf(w)
        c == ContentOf[d]
    IN  /\ task[w].pc = "read" =>
              /\ task[w].doc.sha \in {None, c}
              /\ task[w].doc.sha = None => docs[d].sha = None
              /\ task[w].doc.sha # None => Holds(d)
        /\ task[w].pc \in {"dedup", "tier_audit", "duplicate", "promote", "clear", "validated",
                           "race_lost", "race_escalate"} =>
              task[w].doc.sha = c /\ c \in Valid
        /\ task[w].pc \in {"dedup", "promote"} => <<"quarantine", d>> \in store
        /\ task[w].pc \in {"clear", "validated"} => <<"raw", c>> \in store
        /\ task[w].pc \in {"tier_audit", "duplicate", "race_lost"} => HeldElsewhere(d)
        /\ task[w].pc = "reject" =>
              c \notin Valid /\ docs[d].sha = None /\ task[w].doc.sha = None
        /\ task[w].pc \in {"reject_audit", "reject_delete", "dup_delete"} => ~Holds(d)

\* A text handler works on the holder of its bytes.
TextKnows(w) ==
    task[w].doc.sha = ContentOf[DocOf(w)] /\ Holds(DocOf(w))

DedupInv ==
    /\ \A d \in Docs : RowTrue(d)
    /\ UniqueIndex
    /\ \A w \in Workers : WorkerStage[w] = "SCAN" => ScanKnows(w)
    /\ \A w \in Workers :
          WorkerStage[w] \in TextStageNames /\ task[w].pc \in TextOpen => TextKnows(w)

\* A handler that still has something to do knows what it knew, of a document whose
\* row and objects are left alone.
LEMMA StillKnows ==
    ASSUME QueueTypeOK, TypeOK, NEW v \in Workers, Undisturbed(v), ScanKnows(v),
           NEW d, d = DocOf(v),
           task'[v].pc \in Loaded =>
              /\ docs'[d].sha = docs[d].sha
              /\ Holds(d)' = Holds(d)
              /\ HeldElsewhere(d) => HeldElsewhere(d)'
              /\ <<"quarantine", d>> \in store => <<"quarantine", d>> \in store'
              /\ \A c : <<"raw", c>> \in store => <<"raw", c>> \in store'
    PROVE  ScanKnows(v)'
<1>1. CASE task'[v].pc \notin Loaded
  BY <1>1 DEF ScanKnows, Loaded, ScanPcs, TextPcs
<1>2. CASE task'[v].pc \in Loaded
  <2>1. task'[v] = task[v] /\ DocOf(v)' = DocOf(v)
    BY <1>2 DEF Undisturbed, DocOf
  <2> QED
    BY <1>2, <2>1 DEF ScanKnows
<1> QED
  BY <1>1, <1>2

\* One document's row is written, and what is held stays held: nothing else becomes wrong.
LEMMA OthersStillTrue ==
    ASSUME TypeOK, TypeOK', DedupInv, NEW d \in Docs,
           \A e \in Docs \ {d} : docs'[e].status = docs[e].status /\ docs'[e].sha = docs[e].sha,
           Holds(d) => Holds(d)', Holds(d)' => Holds(d) \/ ~HeldElsewhere(d),
           \A c : <<"raw", c>> \in store => <<"raw", c>> \in store',
           \A e \in Docs \ {d} : <<"quarantine", e>> \in store => <<"quarantine", e>> \in store'
    PROVE  /\ \A e \in Docs : HeldElsewhere(e) => HeldElsewhere(e)'
           /\ \A e \in Docs : Holds(e) => Holds(e)'
           /\ \A e \in Docs \ {d} : Holds(e)' = Holds(e) /\ RowTrue(e)'
           /\ UniqueIndex'
<1>1. \A e \in Docs \ {d} : Holds(e)' = Holds(e)
  BY DEF Holds, Active
<1>2. \A e \in Docs : Holds(e) => Holds(e)'
  BY <1>1
<1>3. \A e \in Docs : HeldElsewhere(e) => HeldElsewhere(e)'
  BY <1>2 DEF HeldElsewhere
<1>4. ASSUME NEW e \in Docs \ {d} PROVE RowTrue(e)'
  BY <1>1, <1>3 DEF DedupInv, RowTrue
<1>5. UniqueIndex'
  BY <1>1 DEF DedupInv, UniqueIndex, HeldElsewhere
<1> QED
  BY <1>1, <1>2, <1>3, <1>4, <1>5

\* No step takes the bytes away from a document that holds them.
HoldersStay == \A e \in Docs : Holds(e) => Holds(e)'

\* What a SCAN step does to its document, others do not notice.
LEMMA ScanStepTrue ==
    ASSUME QueueTypeOK, TypeOK, TypeOK', DedupInv, ScanSolo,
           NEW w \in Workers, ScanNext(w), NEW d \in Docs, d = DocOf(w),
           \A e \in Docs \ {d} :
              docs'[e].status = docs[e].status /\ docs'[e].sha = docs[e].sha,
           Holds(d) => Holds(d)',
           Holds(d)' => Holds(d) \/ ~HeldElsewhere(d),
           \A c : <<"raw", c>> \in store => <<"raw", c>> \in store',
           \A e \in Docs \ {d} :
              <<"quarantine", e>> \in store => <<"quarantine", e>> \in store',
           (\A e \in Docs : HeldElsewhere(e) => HeldElsewhere(e)') =>
              RowTrue(d)' /\ ScanKnows(w)'
    PROVE  DedupInv' /\ HoldersStay
<1>1. /\ workers' = workers /\ workers[w].pc = "processing" /\ d \in Docs
      /\ \A v \in Workers \ {w} : task'[v] = task[v]
      /\ \A v \in Workers : DocOf(v)' = DocOf(v)
  BY HandlerFrame, HasDocument DEF DocOf
<1>2. WorkerStage[w] = "SCAN"
  BY ScanMoves
<1>3. /\ \A e \in Docs : HeldElsewhere(e) => HeldElsewhere(e)'
      /\ \A e \in Docs : Holds(e) => Holds(e)'
      /\ \A e \in Docs \ {d} : Holds(e)' = Holds(e) /\ RowTrue(e)'
      /\ UniqueIndex'
  BY <1>1, OthersStillTrue
<1>4. RowTrue(d)' /\ ScanKnows(w)'
  BY <1>3
<1>5. \A v \in Workers : task[v].pc \in Loaded => workers[v].pc = "processing" /\ DocOf(v) \in Docs
  BY HasDocument DEF TypeOK, TaskFits, Loaded, ScanPcs, TextPcs
<1>6. ASSUME NEW v \in Workers \ {w}, WorkerStage[v] = "SCAN" PROVE ScanKnows(v)'
  <2>1. Undisturbed(v)
    BY <1>1, <1>5 DEF Undisturbed
  <2>2. task'[v].pc \in Loaded => DocOf(v) # d /\ DocOf(v) \in Docs
    BY <1>1, <1>2, <1>5, <1>6 DEF ScanSolo
  <2> QED
    BY <1>1, <1>3, <1>6, <2>1, <2>2, StillKnows DEF DedupInv
<1>7. ASSUME NEW v \in Workers, WorkerStage[v] \in TextStageNames, task'[v].pc \in TextOpen
      PROVE  TextKnows(v)'
  <2>1. v # w /\ TextKnows(v) /\ DocOf(v) \in Docs
    BY <1>1, <1>2, <1>5, <1>7 DEF DedupInv, TextStageNames, TextOpen, Loaded, TextPcs
  <2> QED
    BY <1>1, <1>3, <2>1 DEF TextKnows
<1>8. \A e \in Docs : RowTrue(e)'
  BY <1>3, <1>4
<1> QED
  BY <1>3, <1>4, <1>6, <1>7, <1>8 DEF DedupInv, HoldersStay

\* A SCAN step that writes no status and drops no object.
LEMMA ScanStays ==
    ASSUME QueueTypeOK, TypeOK, TypeOK', DedupInv, ScanSolo,
           NEW w \in Workers, ScanNext(w), NEW d \in Docs, d = DocOf(w),
           \A e \in Docs : docs'[e].status = docs[e].status /\ docs'[e].sha = docs[e].sha,
           store \subseteq store',
           (\A e \in Docs : HeldElsewhere(e) => HeldElsewhere(e)') => ScanKnows(w)'
    PROVE  DedupInv' /\ HoldersStay
<1>1. d \in Docs /\ workers' = workers
  BY HandlerFrame, HasDocument
<1>2. Holds(d)' = Holds(d)
  BY <1>1 DEF Holds, Active, DocOf
<1>3. ASSUME \A e \in Docs : HeldElsewhere(e) => HeldElsewhere(e)'
      PROVE  RowTrue(d)'
  BY <1>1, <1>2, <1>3 DEF DedupInv, RowTrue, DocOf
<1> QED
  BY <1>1, <1>2, <1>3, ScanStepTrue

\* A SCAN step that writes the document's row, with the unique index checked.
LEMMA ScanWrites ==
    ASSUME QueueTypeOK, TypeOK, TypeOK', DedupInv, ScanSolo,
           NEW w \in Workers, ScanNext(w), NEW d \in Docs, d = DocOf(w),
           NEW dto \in DocRows,
           \A e \in Docs \ {d} : docs'[e] = docs[e],
           docs'[d].status = dto.status, docs'[d].sha = dto.sha,
           store' = store, ~IntegrityError(d, dto),
           \/ /\ dto.status = "REJECTED" /\ dto.sha = None /\ docs[d].sha = None
           \/ /\ dto.status = "DUPLICATE" /\ dto.sha = ContentOf[d]
              /\ HeldElsewhere(d)
           \/ /\ dto.status = "VALIDATION_FAILED"
              /\ dto.sha = None /\ docs[d].sha = None
           \/ /\ dto.status \in {"VALIDATION_FAILED", "VALIDATED"}
              /\ dto.sha = ContentOf[d]
              /\ \/ <<"raw", ContentOf[d]>> \in store
                 \/ <<"quarantine", d>> \in store,
           dto.sha # None => ContentOf[d] \in Valid,
           ScanKnows(w)'
    PROVE  DedupInv' /\ HoldersStay
<1>1. d \in Docs /\ workers' = workers /\ ContentOf[d] # None /\ ContentOf[d] \in Contents
  BY HandlerFrame, HasDocument, CorpusAssumption
<1>2. Holds(d)' = (dto.sha = ContentOf[d] /\ Active(dto))
  BY <1>1 DEF Holds, Active, DocOf
<1>3. ASSUME dto.sha = ContentOf[d], Active(dto) PROVE ~HeldElsewhere(d)
  BY <1>1, <1>3 DEF IntegrityError, HeldElsewhere, Holds, get_by_checksum
<1>4. Holds(d) => Holds(d)'
  <2>1. Holds(d) => docs[d].sha = ContentOf[d] /\ ~HeldElsewhere(d)
    BY <1>1 DEF DedupInv, UniqueIndex, Holds, HeldElsewhere
  <2> QED
    BY <1>1, <1>2, <2>1 DEF Active, Inactive
<1>5. ASSUME \A e \in Docs : HeldElsewhere(e) => HeldElsewhere(e)' PROVE RowTrue(d)'
  BY <1>1, <1>2, <1>5 DEF RowTrue, DocOf, Active, Inactive
<1> QED
  BY <1>1, <1>2, <1>3, <1>4, <1>5, ScanStepTrue

\* The places of a SCAN handler of which ScanKnows says something.
KnowingPcs ==
    {"read", "dedup", "tier_audit", "duplicate", "promote", "clear", "validated", "race_lost",
     "race_escalate", "reject", "reject_audit", "reject_delete", "dup_delete"}

\* SCAN only ever drops or keeps a copy in accordance with the rest of the corpus.
LEMMA ScanDedups ==
    ASSUME QueueTypeOK, TypeOK, TypeOK', DedupInv, ScanSolo, NEW w \in Workers, ScanNext(w)
    PROVE  DedupInv' /\ HoldersStay
<1>1. PICK d \in Docs : d = DocOf(w)
  BY HandlerFrame, HasDocument
<1>2. /\ workers' = workers /\ DocOf(w)' = d /\ WorkerStage[w] = "SCAN"
      /\ ContentOf[d] \in Contents /\ ContentOf[d] # None
  BY <1>1, HandlerFrame, ScanMoves, CorpusAssumption DEF DocOf
<1>3. /\ docs \in [Docs -> DocRows] /\ task \in [Workers -> TaskStates]
      /\ task[w].pc \in Loaded => task[w].doc \in DocRows
  BY DEF TypeOK, TaskFits
<1>4. {"read"} \cup ScanPcs \subseteq Loaded /\ Outcomes \cup ScanPcs \subseteq TaskPcs
  BY DEF Loaded, TaskPcs
<1>5. ScanKnows(w) /\ RowTrue(d)
  BY <1>2 DEF DedupInv
<1>6. ASSUME NEW pc \in Outcomes \cup ScanPcs, Goto(w, pc)
      PROVE  task'[w].pc = pc /\ task'[w].doc = task[w].doc
  BY <1>4, <1>6, Goes
<1>7. ASSUME NEW e \in Docs, e \in get_by_checksum(ContentOf[d]) \ {d} PROVE HeldElsewhere(d)
  BY <1>2, <1>7 DEF get_by_checksum, HeldElsewhere, Holds, DedupInv, RowTrue
<1>8. CASE scan_load(w)
  <2>1. UNCHANGED <<docs, store>>
    BY <1>8 DEF scan_load, loads, corpusVars
  <2>2. CASE Goto(w, "ok")
    <3>1. task'[w].pc = "ok"
      BY <1>6, <2>2 DEF Outcomes
    <3>2. ScanKnows(w)'
      BY <3>1 DEF ScanKnows
    <3> QED
      BY <1>1, <2>1, <3>2, ScanStays
  <2>3. CASE /\ ~ScanIsDone(docs[DocOf(w)].status)
             /\ task' = [task EXCEPT ![w] = [NoTask EXCEPT !.pc = "read", !.doc = docs[DocOf(w)]]]
    <3>1. task'[w].pc = "read" /\ task'[w].doc = docs[d]
      BY <1>1, <2>3, Copies
    <3>2. docs[d].sha # None => Holds(d)
      BY <1>1, <1>5, <2>3 DEF RowTrue, Holds, Active, Inactive, ScanIsDone
    <3>3. Holds(d)' = Holds(d)
      BY <2>1 DEF Holds, Active
    <3>4. ScanKnows(w)'
      BY <1>2, <1>5, <2>1, <3>1, <3>2, <3>3 DEF ScanKnows, RowTrue
    <3> QED
      BY <1>1, <2>1, <3>4, ScanStays
  <2> QED
    BY <1>8, <2>2, <2>3 DEF scan_load, loads
<1>9. CASE scan_read(w)
  <2>1. task[w].doc \in DocRows /\ task[w] \in TaskStates /\ task[w].pc = "read"
    BY <1>3, <1>4, <1>9 DEF scan_read, At
  <2>2. /\ UNCHANGED <<docs, store>> /\ <<"quarantine", d>> \in store
        /\ \/ /\ ContentOf[d] \in Valid
              /\ task'[w].pc = "dedup" /\ task'[w].doc.sha = ContentOf[d]
           \/ /\ ContentOf[d] \notin Valid
              /\ task'[w].pc = "reject" /\ task'[w].doc = task[w].doc
    BY <1>1, <1>2, <1>3, <1>9, <2>1 DEF scan_read, TaskStates, DocRows, corpusVars
  <2>3. ContentOf[d] \notin Valid => docs[d].sha = None /\ task[w].doc.sha = None
    BY <1>1, <1>2, <1>5, <2>1 DEF ScanKnows, RowTrue, Holds
  <2>4. ScanKnows(w)'
    BY <1>2, <2>2, <2>3 DEF ScanKnows
  <2> QED
    BY <1>1, <2>2, <2>4, ScanStays
<1>10. CASE \/ scan_read_fails(w) \/ scan_reject(w) \/ scan_duplicate(w)
            \/ scan_promote_fails(w) \/ scan_race_lost(w)
  <2>1. /\ task[w].doc \in DocRows
        /\ task[w].pc \in {"read", "reject", "duplicate", "promote", "race_lost"}
    BY <1>3, <1>4, <1>10 DEF scan_read_fails, scan_reject, scan_duplicate, scan_promote_fails,
       scan_race_lost, At, ScanPcs
  <2>2. PICK dto \in DocRows, pc \in {"transient", "reject_audit", "dup_delete", "race_escalate"} :
          /\ commits(w, dto, pc)
          /\ dto.sha = task[w].doc.sha
          /\ \/ /\ dto.status = "VALIDATION_FAILED" /\ task[w].pc \in {"read", "promote"}
                /\ pc = "transient"
             \/ /\ dto.status = "REJECTED" /\ task[w].pc = "reject" /\ pc = "reject_audit"
             \/ /\ dto.status = "DUPLICATE" /\ task[w].pc \in {"duplicate", "race_lost"}
                /\ pc \in {"dup_delete", "race_escalate"}
    <3> DEFINE a == [task[w].doc EXCEPT !.status = "VALIDATION_FAILED"]
               b == [task[w].doc EXCEPT !.status = "REJECTED", !.quarantine = FALSE]
               c == [task[w].doc EXCEPT !.status = "DUPLICATE", !.quarantine = FALSE]
               e == [task[w].doc EXCEPT !.status = "DUPLICATE", !.quarantine = FALSE, !.raw = None]
    <3>1. /\ a \in DocRows /\ a.status = "VALIDATION_FAILED" /\ a.sha = task[w].doc.sha
          /\ b \in DocRows /\ b.status = "REJECTED" /\ b.sha = task[w].doc.sha
          /\ c \in DocRows /\ c.status = "DUPLICATE" /\ c.sha = task[w].doc.sha
          /\ e \in DocRows /\ e.status = "DUPLICATE" /\ e.sha = task[w].doc.sha
      BY <2>1 DEF DocRows, DocumentStatus, Inactive
    <3>2. \/ commits(w, a, "transient") /\ task[w].pc \in {"read", "promote"}
          \/ commits(w, b, "reject_audit") /\ task[w].pc = "reject"
          \/ commits(w, c, "dup_delete") /\ task[w].pc = "duplicate"
          \/ commits(w, e, "race_escalate") /\ task[w].pc = "race_lost"
      BY <1>10 DEF scan_read_fails, scan_reject, scan_duplicate, scan_promote_fails,
         scan_race_lost, At
    <3> HIDE DEF a, b, c, e
    <3> QED
      BY <3>1, <3>2
  <2>3. pc \in Outcomes \cup ScanPcs /\ "transient" \in Outcomes \cup ScanPcs
    BY DEF Outcomes, ScanPcs
  <2>4. /\ store' = store
        /\ \A e \in Docs \ {d} : docs'[e] = docs[e]
        /\ \/ Goto(w, "transient") /\ docs' = docs
           \/ /\ ~IntegrityError(d, dto) /\ Goto(w, pc)
              /\ docs'[d].status = dto.status /\ docs'[d].sha = dto.sha
    BY <1>1, <1>4, <2>2, <2>3, CommitsTo
  <2>5. CASE Goto(w, "transient") /\ docs' = docs
    <3>1. ScanKnows(w)'
      BY <1>6, <2>3, <2>5 DEF ScanKnows
    <3> QED
      BY <1>1, <2>4, <2>5, <3>1, ScanStays
  <2>6. CASE /\ ~IntegrityError(d, dto) /\ Goto(w, pc)
             /\ docs'[d].status = dto.status /\ docs'[d].sha = dto.sha
    <3>1. task'[w].pc = pc /\ task'[w].doc = task[w].doc
      BY <1>6, <2>3, <2>6
    <3>2. dto.status \in {"REJECTED", "DUPLICATE"} => ~Holds(d)'
      BY <2>6 DEF Holds, Active, Inactive
    <3>3. ScanKnows(w)'
      BY <1>1, <1>2, <1>5, <2>2, <3>1, <3>2 DEF ScanKnows
    <3>4. /\ \/ /\ dto.status = "REJECTED" /\ dto.sha = None /\ docs[d].sha = None
             \/ /\ dto.status = "DUPLICATE" /\ dto.sha = ContentOf[d] /\ HeldElsewhere(d)
             \/ /\ dto.status = "VALIDATION_FAILED" /\ dto.sha = None /\ docs[d].sha = None
             \/ /\ dto.status = "VALIDATION_FAILED" /\ dto.sha = ContentOf[d]
                /\ <<"raw", ContentOf[d]>> \in store \/ <<"quarantine", d>> \in store
          /\ dto.sha # None => ContentOf[d] \in Valid
      BY <1>1, <1>2, <1>5, <2>2 DEF ScanKnows, RowTrue, Holds
    <3> QED
      BY <1>1, <2>4, <2>6, <3>3, <3>4, ScanWrites
  <2> QED
    BY <2>4, <2>5, <2>6
<1>11. CASE scan_reject_delete(w) \/ scan_dup_delete(w) \/ scan_clear(w)
  <2>1. /\ docs' = docs /\ delete_object(<<"quarantine", d>>)
        /\ \/ /\ task[w].pc \in {"reject_delete", "dup_delete"} /\ ~Holds(d)
              /\ \E pc \in {"ok", "dup_audit"} : Goto(w, pc)
           \/ task[w].pc = "clear" /\ Goto(w, "validated")
    BY <1>1, <1>5, <1>11 DEF scan_reject_delete, scan_dup_delete, scan_clear, At, ScanKnows
  <2>2. /\ \A c : <<"raw", c>> \in store => <<"raw", c>> \in store'
        /\ \A e \in Docs \ {d} : <<"quarantine", e>> \in store => <<"quarantine", e>> \in store'
    BY <2>1 DEF delete_object
  <2>3. Holds(d)' = Holds(d)
    BY <2>1 DEF Holds, Active
  <2>4. ScanKnows(w)'
    <3>1. {"ok", "dup_audit", "validated"} \subseteq Outcomes \cup ScanPcs
      BY DEF Outcomes, ScanPcs
    <3> QED
      BY <1>1, <1>2, <1>5, <1>6, <2>1, <2>2, <3>1 DEF ScanKnows
  <2>5. ASSUME \A e \in Docs : HeldElsewhere(e) => HeldElsewhere(e)' PROVE RowTrue(d)'
    BY <1>1, <1>5, <2>1, <2>2, <2>3, <2>5 DEF RowTrue, ScanKnows
  <2> QED
    BY <1>1, <2>1, <2>2, <2>3, <2>4, <2>5, ScanStepTrue
<1>12. CASE \/ scan_reject_audit(w) \/ scan_tier_audit(w) \/ scan_dup_audit(w)
            \/ scan_race_tier_audit(w) \/ scan_race_audit(w)
            \/ scan_promoted_audit(w) \/ scan_enqueue(w)
  <2>1. /\ UNCHANGED <<docs, store>>
        /\ \E pc \in Outcomes \cup ScanPcs :
              /\ Goto(w, pc)
              /\ \/ pc \notin KnowingPcs
                 \/ pc = "reject_delete" /\ task[w].pc = "reject_audit"
                 \/ pc = "duplicate" /\ task[w].pc = "tier_audit"
    BY <1>12 DEF scan_reject_audit, scan_tier_audit, scan_dup_audit, scan_race_tier_audit,
       scan_race_audit, scan_promoted_audit, scan_enqueue, audits, enqueues, corpusVars, At,
       Outcomes, ScanPcs, KnowingPcs
  <2>2. Holds(d)' = Holds(d)
    BY <2>1 DEF Holds, Active
  <2>3. ASSUME \A e \in Docs : HeldElsewhere(e) => HeldElsewhere(e)' PROVE ScanKnows(w)'
    BY <1>1, <1>2, <1>5, <1>6, <2>1, <2>2, <2>3 DEF ScanKnows, KnowingPcs
  <2> QED
    BY <1>1, <2>1, <2>3, ScanStays
<1>13. CASE scan_dedup(w) \/ scan_race_escalate(w)
  <2>1. /\ task[w].doc \in DocRows /\ store' = store
        /\ task[w].pc \in {"dedup", "race_escalate"}
        /\ task[w].doc.sha = ContentOf[d] /\ ContentOf[d] \in Valid
    BY <1>1, <1>3, <1>4, <1>5, <1>13 DEF scan_dedup, scan_race_escalate, At, ScanPcs, ScanKnows
  <2>2. CASE /\ docs' = docs
             /\ (task[w].pc = "dedup" /\ Goto(w, "promote")) \/ Goto(w, "race_audit")
    <3>1. ScanKnows(w)'
      BY <1>1, <1>2, <1>5, <1>6, <2>1, <2>2 DEF ScanKnows, ScanPcs
    <3> QED
      BY <1>1, <2>1, <2>2, <3>1, ScanStays
  <2>3. ASSUME NEW e \in get_by_checksum(ContentOf[d]) \ {d},
               \/ escalates(w, e, "tier_audit", "duplicate")
               \/ escalates(w, e, "race_tier_audit", "race_audit")
        PROVE  DedupInv' /\ HoldersStay
    <3>1. e \in Docs /\ HeldElsewhere(d)
      BY <1>7 DEF get_by_checksum
    <3>2. {"tier_audit", "duplicate", "race_tier_audit", "race_audit"} \subseteq TaskPcs
      BY DEF TaskPcs, Loaded, ScanPcs
    <3>3. /\ task'[w].doc = task[w].doc
          /\ task'[w].pc \in {"tier_audit", "duplicate", "race_tier_audit", "race_audit"}
          /\ \A f \in Docs : docs'[f].status = docs[f].status /\ docs'[f].sha = docs[f].sha
      BY <2>1, <2>3, <3>1, <3>2, EscalatesTo
    <3>4. ASSUME \A f \in Docs : HeldElsewhere(f) => HeldElsewhere(f)' PROVE ScanKnows(w)'
      BY <1>2, <2>1, <3>1, <3>3, <3>4 DEF ScanKnows
    <3> QED
      BY <1>1, <2>1, <3>3, <3>4, ScanStays
  <2> QED
    BY <1>1, <1>13, <2>1, <2>2, <2>3 DEF scan_dedup, scan_race_escalate, At
<1>14. CASE scan_promote(w)
  <2>1. /\ docs' = docs /\ store' = store \cup {<<"raw", ContentOf[d]>>}
        /\ task[w].pc = "promote" /\ task[w].doc.sha = ContentOf[d] /\ ContentOf[d] \in Valid
    BY <1>1, <1>5, <1>14 DEF scan_promote, At, Copied, ScanKnows
  <2>2. task'[w].pc = "clear" /\ task'[w].doc = task[w].doc
    BY <1>6, <1>14 DEF scan_promote, ScanPcs
  <2>3. ScanKnows(w)'
    BY <1>2, <2>1, <2>2 DEF ScanKnows
  <2> QED
    BY <1>1, <2>1, <2>3, ScanStays
<1>15. CASE scan_validated(w)
  <2>1. /\ task[w].doc \in DocRows /\ task[w].pc = "validated" /\ store' = store
        /\ task[w].doc.sha = ContentOf[d] /\ ContentOf[d] \in Valid
        /\ <<"raw", ContentOf[d]>> \in store
    BY <1>1, <1>3, <1>4, <1>5, <1>15 DEF scan_validated, At, ScanPcs, ScanKnows
  <2>2. /\ Promoted(w) \in DocRows /\ Promoted(w).status = "VALIDATED"
        /\ Promoted(w).sha = ContentOf[d]
    BY <2>1 DEF Promoted, DocRows, DocumentStatus
  <2>3. CASE IntegrityError(d, Promoted(w)) /\ Goto(w, "race_lost") /\ UNCHANGED docs
    <3>1. HeldElsewhere(d)
      BY <1>7, <2>2, <2>3 DEF IntegrityError, get_by_checksum
    <3>2. task'[w].pc = "race_lost" /\ task'[w].doc = task[w].doc
      BY <1>6, <2>3 DEF ScanPcs
    <3>3. ASSUME \A f \in Docs : HeldElsewhere(f) => HeldElsewhere(f)' PROVE ScanKnows(w)'
      BY <1>2, <2>1, <3>1, <3>2, <3>3 DEF ScanKnows
    <3> QED
      BY <1>1, <2>1, <2>3, <3>3, ScanStays
  <2>4. CASE /\ ~IntegrityError(d, Promoted(w)) /\ Goto(w, "promoted_audit")
             /\ update_document(d, Promoted(w))
    <3>1. /\ docs'[d].status = "VALIDATED" /\ docs'[d].sha = ContentOf[d]
          /\ \A e \in Docs \ {d} : docs'[e] = docs[e]
      BY <1>1, <2>2, <2>4, UpdatesTo
    <3>2. task'[w].pc = "promoted_audit"
      BY <1>6, <2>4 DEF ScanPcs
    <3>3. ScanKnows(w)'
      BY <3>2 DEF ScanKnows
    <3> QED
      BY <1>1, <2>1, <2>2, <2>4, <3>1, <3>3, ScanWrites
  <2> QED
    BY <1>1, <1>15, <2>3, <2>4 DEF scan_validated
<1> QED
  BY <1>8, <1>9, <1>10, <1>11, <1>12, <1>13, <1>14, <1>15 DEF ScanNext

\* A step that moves documents on without dropping one or changing what is known of its
\* bytes, and takes no object away, disturbs nobody.
LEMMA CalmStep ==
    ASSUME QueueTypeOK, TypeOK, TypeOK', DedupInv,
           \A e \in Docs :
              /\ docs'[e].sha = docs[e].sha
              /\ \/ docs'[e].status = docs[e].status
                 \/ Holds(e) /\ docs'[e].status \notin Inactive \cup {"QUARANTINED"}
                 \/ docs[e].status = "ABSENT" /\ docs'[e].status = "QUARANTINED",
           \A c : <<"raw", c>> \in store => <<"raw", c>> \in store',
           \A e \in Docs : <<"quarantine", e>> \in store => <<"quarantine", e>> \in store',
           \A v \in Workers : WorkerStage[v] = "SCAN" => Undisturbed(v),
           \A v \in Workers :
              WorkerStage[v] \in TextStageNames /\ task'[v].pc \in TextOpen =>
                 /\ DocOf(v)' = DocOf(v) /\ DocOf(v) \in Docs
                 /\ \/ task[v].pc \in TextOpen /\ task'[v].doc = task[v].doc
                    \/ /\ docs[DocOf(v)].status = EntryStatus[WorkerStage[v]]
                       /\ task'[v].doc = docs[DocOf(v)]
    PROVE  DedupInv' /\ HoldersStay
<1>1. \A e \in Docs : ContentOf[e] \in Contents /\ ContentOf[e] # None
  BY CorpusAssumption
<1>2. ASSUME NEW e \in Docs PROVE Holds(e)' = Holds(e)
  <2>1. docs[e].status = "ABSENT" => docs[e].sha = None
    BY DEF DedupInv, RowTrue
  <2>2. docs'[e].sha = docs[e].sha
    OBVIOUS
  <2>3. CASE docs'[e].status = docs[e].status
    BY <2>2, <2>3 DEF Holds, Active
  <2>4. CASE Holds(e) /\ docs'[e].status \notin Inactive \cup {"QUARANTINED"}
    BY <2>2, <2>4 DEF Holds, Active
  <2>5. CASE docs[e].status = "ABSENT" /\ docs'[e].status = "QUARANTINED"
    BY <1>1, <2>1, <2>2, <2>5 DEF Holds
  <2> QED
    BY <2>3, <2>4, <2>5
<1>3. \A e \in Docs : HeldElsewhere(e) => HeldElsewhere(e)'
  BY <1>2 DEF HeldElsewhere
<1>4. ASSUME NEW e \in Docs PROVE RowTrue(e)'
  BY <1>1, <1>2, <1>3 DEF DedupInv, RowTrue, Holds, Active, Inactive
<1>5. UniqueIndex'
  BY <1>2 DEF DedupInv, UniqueIndex
<1>6. ASSUME NEW v \in Workers, WorkerStage[v] = "SCAN" PROVE ScanKnows(v)'
  <2>1. task'[v].pc \in Loaded => DocOf(v) \in Docs
    BY <1>6, HasDocument DEF Undisturbed
  <2> QED
    BY <1>2, <1>3, <1>6, <2>1, StillKnows DEF DedupInv
<1>7. ASSUME NEW v \in Workers, WorkerStage[v] \in TextStageNames, task'[v].pc \in TextOpen
      PROVE  TextKnows(v)'
  <2>1. PICK e \in Docs : e = DocOf(v) /\ e = DocOf(v)'
    BY <1>7
  <2>2. CASE task[v].pc \in TextOpen /\ task'[v].doc = task[v].doc
    BY <1>2, <1>7, <2>1, <2>2 DEF DedupInv, TextKnows
  <2>3. CASE /\ docs[DocOf(v)].status = EntryStatus[WorkerStage[v]]
             /\ task'[v].doc = docs[DocOf(v)]
    <3>1. docs[e].status \in {"VALIDATED", "EXTRACTED", "AWAITING_CLASSIFICATION", "CHUNKED"}
      BY <1>7, <2>1, <2>3 DEF EntryStatus, TextStageNames
    <3>2. Holds(e)
      BY <1>1, <3>1 DEF DedupInv, RowTrue, Holds, Active, Inactive
    <3> QED
      BY <1>2, <2>1, <2>3, <3>2 DEF TextKnows, Holds
  <2> QED
    BY <1>7, <2>2, <2>3
<1> QED
  BY <1>2, <1>4, <1>5, <1>6, <1>7 DEF DedupInv, HoldersStay

\* A text stage takes no object away.
LEMMA TextStores ==
    ASSUME NEW w \in Workers, TextNext(w)
    PROVE  store \subseteq store'
<1>1. ASSUME NEW s, Common(w, s) PROVE store \subseteq store'
  BY <1>1 DEF Common, stage_load, stage_read, stage_read_fails, stage_work, stage_put,
     stage_work_fails, stage_put_fails, stage_commit, stage_audit, stage_enqueue, stage_fail,
     stage_fail_audit, loads, commits, audits, enqueues, corpusVars
<1> QED
  BY <1>1 DEF TextNext, extract_process, normalize_process, chunk_process, embed_process,
     extract_no_raw, chunk_persist, embed_work, embed_store, embed_unsupported, embed_skip,
     embed_skip_audit, commits, audits, corpusVars

\* A text stage writes what it knows, and its document is the holder of its bytes.
LEMMA TextDedups ==
    ASSUME QueueTypeOK, TypeOK, TypeOK', DedupInv, NEW w \in Workers, TextNext(w)
    PROVE  DedupInv' /\ HoldersStay
<1>1. /\ workers' = workers /\ workers[w].pc = "processing"
      /\ \A v \in Workers \ {w} : task'[v] = task[v]
      /\ \A v \in Workers : DocOf(v)' = DocOf(v)
  BY HandlerFrame DEF DocOf
<1>2. PICK d \in Docs : d = DocOf(w)
  BY <1>1, HasDocument
<1>3. WorkerStage[w] \in TextStageNames /\ \A e \in Docs \ {d} : docs'[e] = docs[e]
  BY <1>2, TextMoves
<1>4. \A v \in Workers : WorkerStage[v] = "SCAN" => Undisturbed(v)
  BY <1>1, <1>3 DEF Undisturbed, TextStageNames, TypeOK, TaskFits, Loaded, ScanPcs, TextPcs
<1>5. \A o : o \in store => o \in store'
  BY TextStores
<1>6. /\ docs'[d].sha = docs[d].sha
      /\ \/ docs'[d].status = docs[d].status
         \/ Holds(d) /\ docs'[d].status \notin Inactive \cup {"QUARANTINED"}
  <2>1. CASE docs'[d] = docs[d]
    BY <2>1
  <2>2. CASE /\ task[w].pc \in TextOpen
             /\ \/ docs'[d].status = DoneStatus[WorkerStage[w]]
                \/ docs'[d].status = FailStatus[WorkerStage[w]]
                \/ docs'[d].status = "SKIPPED_UNSUPPORTED_LANGUAGE"
             /\ docs'[d].sha = task[w].doc.sha
    <3>1. task[w].doc.sha = ContentOf[d] /\ Holds(d)
      BY <1>2, <1>3, <2>2 DEF DedupInv, TextKnows
    <3> QED
      BY <1>3, <2>2, <3>1 DEF Holds, DoneStatus, FailStatus, TextStageNames, Inactive
  <2> QED
    BY <1>2, <2>1, <2>2, TextMoves
<1>7. ASSUME NEW v \in Workers, WorkerStage[v] \in TextStageNames, task'[v].pc \in TextOpen
      PROVE  /\ DocOf(v)' = DocOf(v) /\ DocOf(v) \in Docs
             /\ \/ task[v].pc \in TextOpen /\ task'[v].doc = task[v].doc
                \/ /\ docs[DocOf(v)].status = EntryStatus[WorkerStage[v]]
                   /\ task'[v].doc = docs[DocOf(v)]
  <2>1. CASE v = w
    BY <1>1, <1>2, <1>7, <2>1, TextMoves
  <2>2. CASE v # w
    BY <1>1, <1>7, <2>2, HasDocument DEF TypeOK, TaskFits, TextOpen
  <2> QED
    BY <2>1, <2>2
<1> QED
  BY <1>2, <1>3, <1>4, <1>5, <1>6, <1>7, CalmStep

\* Uploads and back-fills disturb nobody.
LEMMA RequestDedups ==
    ASSUME Deletes = {}, "reset" \notin Backfills, QueueTypeOK, TypeOK, TypeOK', KeptInv,
           UploadInv, DedupInv, NEW d \in Docs,
           Receives(d) \/ Deleted(d) \/ Erases(d) \/ RequestDies(d) \/ Backfilled(d)
    PROVE  DedupInv' /\ HoldersStay
<1>1. ~Deleted(d) /\ ~Erases(d) /\ ~erase_dies(d)
  BY NoDeletes
<1>2. task' = task /\ workers' = workers /\ docs \in [Docs -> DocRows]
  BY RequestsFrame DEF TypeOK
<1>3. store \subseteq store'
  BY <1>1 DEF Receives, receive_put, receive_create, receive_enqueue, receive_audit, RequestDies,
     receive_dies, Backfilled, backfill, corpusVars
<1>4. \A e \in Docs :
         /\ docs'[e].sha = docs[e].sha
         /\ \/ docs'[e].status = docs[e].status
            \/ docs[e].status = "ABSENT" /\ docs'[e].status = "QUARANTINED"
  <2>1. CASE receive_create(d)
    <3>1. docs[d].status = "ABSENT"
      BY <2>1 DEF receive_create, UploadStep, UploadInv, CreatedByUpload
    <3> QED
      BY <1>2, <2>1, <3>1 DEF receive_create, DocRows
  <2>2. ASSUME Backfilled(d) PROVE docs' = docs
    BY <1>2, <2>2 DEF Backfilled, backfill
  <2>3. CASE docs' = docs
    BY <2>3
  <2> QED
    BY <1>1, <2>1, <2>2, <2>3 DEF Receives, receive_put, receive_enqueue, receive_audit,
       RequestDies, receive_dies, corpusVars
<1>5. \A v \in Workers : Undisturbed(v)
  BY <1>2 DEF Undisturbed, TypeOK, TaskFits, Loaded, ScanPcs, TextPcs
<1>6. \A v \in Workers : task'[v].pc \in TextOpen => DocOf(v)' = DocOf(v) /\ DocOf(v) \in Docs
  BY <1>2, HasDocument DEF TypeOK, TaskFits, TextOpen, DocOf
<1> QED
  BY <1>2, <1>3, <1>4, <1>5, <1>6, CalmStep

\* The inductive step.
LEMMA DedupStep ==
    ASSUME Deletes = {}, "reset" \notin Backfills
    PROVE  /\ QueueTypeOK /\ TypeOK /\ TypeOK' /\ KeptInv /\ UploadInv /\ ScanSolo
           /\ DedupInv /\ [Next]_vars
           => DedupInv' /\ HoldersStay
<1> SUFFICES ASSUME QueueTypeOK, TypeOK, TypeOK', KeptInv, UploadInv, ScanSolo, DedupInv,
                    [Next]_vars
             PROVE  DedupInv' /\ HoldersStay
  OBVIOUS
<1>1. ASSUME UNCHANGED corpusVars, \A v \in Workers : Undisturbed(v)
      PROVE  DedupInv' /\ HoldersStay
  <2>1. docs' = docs /\ store' = store
    BY <1>1 DEF corpusVars
  <2>2. ASSUME NEW v \in Workers, task'[v].pc \in TextOpen
        PROVE  /\ DocOf(v)' = DocOf(v) /\ DocOf(v) \in Docs /\ task'[v] = task[v]
    <3>1. task'[v] = task[v] /\ workers'[v] = workers[v] /\ workers[v].pc = "processing"
      BY <1>1, <2>2 DEF Undisturbed, TextOpen, Loaded, TextPcs
    <3> QED
      BY <3>1, HasDocument DEF DocOf
  <2> QED
    BY <1>1, <2>1, <2>2, CalmStep
<1>2. ASSUME UNCHANGED <<task, workers>> PROVE \A v \in Workers : Undisturbed(v)
  BY <1>2 DEF Undisturbed, TypeOK, TaskFits, Loaded, ScanPcs, TextPcs
<1>3. ASSUME NEW w \in Workers,
             \/ Claims(w) \/ Renews(w) \/ Reaps(w) \/ Writes(w) \/ CompletionFails(w)
             \/ WorkerDies(w) \/ Handles(w) \/ Aborts(w)
      PROVE  DedupInv' /\ HoldersStay
  <2>1. CASE Handles(w) /\ ~returns(w)
    BY <2>1, ScanDedups, TextDedups DEF Handles
  <2> QED
    BY <1>1, <1>3, <2>1, QueueSteps
<1>4. ASSUME NEW d \in Docs,
             Receives(d) \/ Deleted(d) \/ Erases(d) \/ RequestDies(d) \/ Backfilled(d)
      PROVE  DedupInv' /\ HoldersStay
  BY <1>4, RequestDedups
<1>5. ASSUME NEW j \in Jobs, LeaseRunsOut(j) PROVE DedupInv' /\ HoldersStay
  BY <1>1, <1>2, <1>5 DEF LeaseRunsOut, ExpireLease
<1>6. CASE UNCHANGED vars
  BY <1>1, <1>2, <1>6 DEF vars, corpusVars
<1> QED
  BY <1>3, <1>4, <1>5, <1>6 DEF Next

\* What the rows and the handlers take for granted of the bytes is so, at all times.
THEOREM DedupTrue ==
    ASSUME Deletes = {}, OneScanner \/ "SCAN" \notin LeaseLoss,
           "SCAN" \notin BackfillStages, "reset" \notin Backfills
    PROVE  Spec => []DedupInv
<1>1. Init => DedupInv
  <2> SUFFICES ASSUME Init PROVE DedupInv
    OBVIOUS
  <2>1. /\ \A d \in Docs : docs[d].sha = None /\ docs[d].status = "ABSENT"
        /\ \A w \in Workers : task[w].pc = "start"
        /\ \A d \in Docs : ContentOf[d] # None
    BY CorpusAssumption DEF Init, CorpusInit, NoDoc, TaskInit, NoTask
  <2> QED
    BY <2>1 DEF DedupInv, RowTrue, UniqueIndex, Holds, ScanKnows, TextOpen
<1>2. /\ QueueTypeOK /\ TypeOK /\ TypeOK' /\ KeptInv /\ UploadInv /\ ScanSolo
      /\ DedupInv /\ [Next]_vars
      => DedupInv'
  BY DedupStep
<1> QED
  BY <1>1, <1>2, KeptHolds, ScannedAlone, PipelineTypeCorrect, PTL DEF Spec

\* Without deletes, resets and back-fills of SCAN, a document refused as a copy is always
\* a copy of an active one whose bytes are kept, whatever crashes, faults and races of
\* two copies there are: DUPLICATE is only ever written after a lookup, and the document
\* the lookup found stays active.
THEOREM DuplicateHasCanonicalHolds ==
    ASSUME Deletes = {}, OneScanner \/ "SCAN" \notin LeaseLoss,
           "SCAN" \notin BackfillStages, "reset" \notin Backfills
    PROVE  Spec => []DuplicateHasCanonical
<1>1. DedupInv => DuplicateHasCanonical
  <2> SUFFICES ASSUME DedupInv, NEW d \in Docs, docs[d].status = "DUPLICATE"
               PROVE  \E e \in get_by_checksum(ContentOf[d]) \ {d} :
                         <<"raw", ContentOf[d]>> \in store \/ <<"quarantine", e>> \in store
    BY DEF DuplicateHasCanonical
  <2>1. PICK e \in Docs \ {d} : ContentOf[e] = ContentOf[d] /\ Holds(e)
    BY DEF DedupInv, RowTrue, HeldElsewhere
  <2>2. /\ e \in get_by_checksum(ContentOf[d]) \ {d}
        /\ <<"raw", ContentOf[d]>> \in store \/ <<"quarantine", e>> \in store
    BY <2>1 DEF DedupInv, RowTrue, Holds, get_by_checksum
  <2> QED
    BY <2>2
<1> QED
  BY <1>1, DedupTrue, PTL

(***************************************************************************)
(* The stricter tier wins (StricterTierWins).                              *)
(***************************************************************************)

\* The document that holds the bytes of d is at least as restricted as d.
NoStricter(d) ==
    \A e \in Docs \ {d} :
        ContentOf[e] = ContentOf[d] /\ Holds(e) => ~is_stricter(docs[d].tier, docs[e].tier)

TierInv ==
    /\ \A w \in Workers :
          WorkerStage[w] = "SCAN" /\ task[w].pc \in Loaded /\ ~Holds(DocOf(w)) =>
             task[w].doc.tier = docs[DocOf(w)].tier
    /\ \A w \in Workers :
          WorkerStage[w] = "SCAN" /\ task[w].pc \in {"tier_audit", "duplicate"} =>
             NoStricter(DocOf(w))
    /\ \A d \in Docs :
          docs[d].status = "DUPLICATE" =>
             \/ NoStricter(d)
             \/ \E w \in Workers : /\ WorkerStage[w] = "SCAN" /\ DocOf(w) = d
                                   /\ workers[w].pc = "processing"
                                   /\ task[w].pc = "race_escalate"

\* Only the classification of a document that holds its bytes is changed, and only raised.
TiersRise ==
    \A e \in Docs :
        docs'[e].tier = docs[e].tier \/ (Holds(e) /\ docs'[e].tier = "RESTRICTED")

\* The holder stays the holder, and at least as restricted.
LEMMA RankKept ==
    ASSUME DedupInv, DedupInv', HoldersStay, TiersRise, NEW d \in Docs, HeldElsewhere(d),
           NoStricter(d)
    PROVE  NoStricter(d)'
<1>1. PICK h \in Docs \ {d} : ContentOf[h] = ContentOf[d] /\ Holds(h)
  BY DEF HeldElsewhere
<1>2. docs'[d].tier = docs[d].tier
  BY <1>1 DEF DedupInv, UniqueIndex, TiersRise
<1>3. Holds(h)'
  BY <1>1 DEF HoldersStay
<1>4. ~is_stricter(docs'[d].tier, docs'[h].tier)
  BY <1>1, <1>2 DEF NoStricter, TiersRise, is_stricter
<1>5. ASSUME NEW e \in Docs \ {d}, ContentOf[e] = ContentOf[d], Holds(e)' PROVE e = h
  BY <1>1, <1>3, <1>5 DEF DedupInv, UniqueIndex
<1> QED
  BY <1>4, <1>5 DEF NoStricter, is_stricter

\* What a SCAN handler does to its own document, the others do not notice.
LEMMA ScanTierStep ==
    ASSUME QueueTypeOK, TypeOK, TypeOK', DedupInv, DedupInv', HoldersStay, TiersRise, TierInv,
           ScanSolo, NEW w \in Workers, ScanNext(w), NEW d \in Docs, d = DocOf(w),
           task'[w].pc \in Loaded /\ ~Holds(d)' => task'[w].doc.tier = docs'[d].tier,
           task'[w].pc \in {"tier_audit", "duplicate"} => NoStricter(d)',
           docs'[d].status = "DUPLICATE" => NoStricter(d)' \/ task'[w].pc = "race_escalate"
    PROVE  TierInv'
<1>1. /\ workers' = workers /\ workers[w].pc = "processing" /\ WorkerStage[w] = "SCAN"
      /\ \A v \in Workers \ {w} : task'[v] = task[v]
      /\ \A v \in Workers : DocOf(v)' = DocOf(v)
      /\ \A e \in Docs \ {d} : docs'[e].status = docs[e].status
  BY HandlerFrame, ScanMoves DEF DocOf
<1>2. \A v \in Workers :
         task[v].pc \in Loaded => workers[v].pc = "processing" /\ DocOf(v) \in Docs
  BY HasDocument DEF TypeOK, TaskFits, Loaded, ScanPcs, TextPcs
<1>3. ASSUME NEW v \in Workers, WorkerStage[v] = "SCAN", task'[v].pc \in Loaded,
             ~Holds(DocOf(v))'
      PROVE  (task[v].doc.tier = docs[DocOf(v)].tier)'
  <2>1. CASE v = w
    BY <1>1, <1>3, <2>1
  <2>2. CASE v # w
    <3>1. PICK e \in Docs : e = DocOf(v)
      BY <1>1, <1>2, <1>3, <2>2
    <3>2. ~Holds(e)
      BY <1>1, <1>3, <3>1 DEF HoldersStay
    <3> QED
      BY <1>1, <1>3, <2>2, <3>1, <3>2 DEF TierInv, TiersRise
  <2> QED
    BY <2>1, <2>2
<1>4. ASSUME NEW v \in Workers, WorkerStage[v] = "SCAN",
             task'[v].pc \in {"tier_audit", "duplicate"}
      PROVE  NoStricter(DocOf(v))'
  <2>1. CASE v = w
    BY <1>1, <1>4, <2>1
  <2>2. CASE v # w
    <3>1. task[v].pc \in {"tier_audit", "duplicate"} /\ task[v].pc \in Loaded
      BY <1>1, <1>4, <2>2 DEF Loaded, ScanPcs
    <3>2. PICK e \in Docs : e = DocOf(v)
      BY <1>2, <3>1
    <3>3. HeldElsewhere(e) /\ NoStricter(e)
      BY <1>4, <3>1, <3>2 DEF DedupInv, ScanKnows, TierInv
    <3> QED
      BY <1>1, <3>2, <3>3, RankKept
  <2> QED
    BY <2>1, <2>2
<1>5. ASSUME NEW e \in Docs \ {d}, docs'[e].status = "DUPLICATE"
      PROVE  \/ NoStricter(e)'
             \/ \E v \in Workers : /\ WorkerStage[v] = "SCAN" /\ DocOf(v)' = e
                                   /\ workers'[v].pc = "processing"
                                   /\ task'[v].pc = "race_escalate"
  <2>1. docs[e].status = "DUPLICATE" /\ HeldElsewhere(e)
    BY <1>1, <1>5 DEF DedupInv, RowTrue
  <2>2. CASE NoStricter(e)
    BY <2>1, <2>2, RankKept
  <2>3. ASSUME NEW v \in Workers, WorkerStage[v] = "SCAN", DocOf(v) = e,
               workers[v].pc = "processing", task[v].pc = "race_escalate"
        PROVE  /\ DocOf(v)' = e /\ workers'[v].pc = "processing"
               /\ task'[v].pc = "race_escalate"
    BY <1>1, <2>3
  <2> QED
    BY <2>1, <2>2, <2>3 DEF TierInv
<1>6. docs'[d].status = "DUPLICATE" =>
         \/ NoStricter(d)'
         \/ \E v \in Workers : /\ WorkerStage[v] = "SCAN" /\ DocOf(v)' = d
                               /\ workers'[v].pc = "processing"
                               /\ task'[v].pc = "race_escalate"
  BY <1>1
<1>7. \A e \in Docs : docs'[e].status = "DUPLICATE" =>
         \/ NoStricter(e)'
         \/ \E v \in Workers : /\ WorkerStage[v] = "SCAN" /\ DocOf(v)' = e
                               /\ workers'[v].pc = "processing"
                               /\ task'[v].pc = "race_escalate"
  BY <1>5, <1>6
<1> QED
  BY <1>3, <1>4, <1>7 DEF TierInv

\* The comparison that SCAN makes before it gives a copy up, or after it lost the race, is
\* between the two documents' classifications as they are.
LEMMA ScanTiers ==
    ASSUME QueueTypeOK, TypeOK, TypeOK', DedupInv, DedupInv', HoldersStay, TierInv, ScanSolo,
           NEW w \in Workers, ScanNext(w)
    PROVE  TierInv'
<1>1. PICK d \in Docs : d = DocOf(w)
  BY HandlerFrame, HasDocument
<1>2. /\ workers' = workers /\ DocOf(w)' = d /\ WorkerStage[w] = "SCAN"
      /\ workers[w].pc = "processing"
      /\ ContentOf[d] \in Contents /\ ContentOf[d] # None
  BY <1>1, HandlerFrame, ScanMoves, CorpusAssumption DEF DocOf
<1>3. /\ docs \in [Docs -> DocRows] /\ task \in [Workers -> TaskStates]
      /\ task[w].pc \in Loaded => task[w].doc \in DocRows
  BY DEF TypeOK, TaskFits
<1>4. /\ {"read"} \cup ScanPcs \subseteq Loaded /\ Outcomes \cup ScanPcs \subseteq TaskPcs
      /\ Outcomes \cap Loaded = {}
  BY DEF Loaded, TaskPcs, Outcomes, ScanPcs, TextPcs
<1>5. ScanKnows(w) /\ RowTrue(d)
  BY <1>1, <1>2 DEF DedupInv
<1>6. ASSUME NEW pc \in Outcomes \cup ScanPcs, Goto(w, pc)
      PROVE  task'[w].pc = pc /\ task'[w].doc = task[w].doc
  BY <1>4, <1>6, Goes
<1>7. HeldElsewhere(d) => ~Holds(d)
  BY DEF DedupInv, UniqueIndex, HeldElsewhere
<1>8. docs[d].status = "DUPLICATE" /\ task[w].pc # "race_escalate" => NoStricter(d)
  <2>1. ASSUME NEW v \in Workers, WorkerStage[v] = "SCAN", DocOf(v) = d,
               workers[v].pc = "processing"
        PROVE  v = w
    BY <1>1, <1>2, <2>1 DEF ScanSolo
  <2> QED
    BY <2>1 DEF TierInv
<1>9. ASSUME TiersRise, docs'[d].status = "DUPLICATE" => docs[d].status = "DUPLICATE",
             task[w].pc # "race_escalate"
      PROVE  docs'[d].status = "DUPLICATE" => NoStricter(d)'
  BY <1>8, <1>9, RankKept DEF DedupInv, RowTrue
<1>10. ASSUME \A e \in Docs : docs'[e].tier = docs[e].tier,
              task'[w].doc = task[w].doc \/ task'[w].pc \notin Loaded,
              task[w].pc \in Loaded \/ task'[w].pc \notin Loaded
       PROVE  /\ TiersRise
              /\ task'[w].pc \in Loaded /\ ~Holds(d)' => task'[w].doc.tier = docs'[d].tier
  BY <1>1, <1>2, <1>10 DEF TierInv, TiersRise, HoldersStay
<1>11. CASE scan_load(w)
  <2>1. docs' = docs /\ TiersRise /\ task[w].pc = "start"
    BY <1>11 DEF scan_load, loads, corpusVars, TiersRise, At
  <2>2. \/ task'[w].pc = "ok"
        \/ task'[w].pc = "read" /\ task'[w].doc = docs[d]
    <3>1. CASE Goto(w, "ok")
      BY <1>6, <3>1 DEF Outcomes
    <3>2. CASE task' = [task EXCEPT ![w] = [NoTask EXCEPT !.pc = "read", !.doc = docs[DocOf(w)]]]
      BY <1>1, <3>2, Copies
    <3> QED
      BY <1>11, <3>1, <3>2 DEF scan_load, loads
  <2> QED
    BY <1>1, <1>4, <1>9, <2>1, <2>2, ScanTierStep DEF Outcomes
<1>12. CASE scan_read(w)
  <2>1. task[w].pc = "read" /\ "read" \in Loaded /\ docs' = docs
    BY <1>4, <1>12 DEF scan_read, At, corpusVars
  <2>2. /\ task'[w].doc.tier = task[w].doc.tier
        /\ task'[w].pc \in {"dedup", "reject"}
    <3> DEFINE t == task[w]
               u == [t EXCEPT !.pc = "dedup", !.doc.sha = ContentOf[DocOf(w)]]
               v == [t EXCEPT !.pc = "reject"]
    <3>1. t \in TaskStates /\ t.doc \in DocRows
      BY <1>3, <2>1
    <3>2. /\ u.pc = "dedup" /\ u.doc.tier = t.doc.tier
          /\ v.pc = "reject" /\ v.doc.tier = t.doc.tier
      BY <3>1 DEF TaskStates, DocRows
    <3>3. task'[w] \in {u, v}
      BY <1>3, <1>12 DEF scan_read
    <3> HIDE DEF t, u, v
    <3> QED
      BY <3>2, <3>3 DEF t
  <2>3. TiersRise
    BY <2>1 DEF TiersRise
  <2>4. ~Holds(d)' => task'[w].doc.tier = docs'[d].tier
    BY <1>1, <1>2, <2>1, <2>2 DEF TierInv, HoldersStay
  <2> QED
    BY <1>1, <1>9, <2>1, <2>2, <2>3, <2>4, ScanTierStep
<1>13. CASE \/ scan_read_fails(w) \/ scan_reject(w) \/ scan_duplicate(w)
            \/ scan_promote_fails(w) \/ scan_race_lost(w)
  <2>1. /\ task[w].doc \in DocRows /\ task[w].pc \in Loaded
        /\ task[w].pc \in {"read", "reject", "duplicate", "promote", "race_lost"}
    BY <1>3, <1>4, <1>13 DEF scan_read_fails, scan_reject, scan_duplicate, scan_promote_fails,
       scan_race_lost, At, ScanPcs
  <2>2. PICK dto \in DocRows, pc \in {"transient", "reject_audit", "dup_delete", "race_escalate"} :
          /\ commits(w, dto, pc)
          /\ dto.status = "DUPLICATE" =>
                task[w].pc = "duplicate" \/ pc = "race_escalate"
    <3> DEFINE a == [task[w].doc EXCEPT !.status = "VALIDATION_FAILED"]
               b == [task[w].doc EXCEPT !.status = "REJECTED", !.quarantine = FALSE]
               c == [task[w].doc EXCEPT !.status = "DUPLICATE", !.quarantine = FALSE]
               e == [task[w].doc EXCEPT !.status = "DUPLICATE", !.quarantine = FALSE, !.raw = None]
    <3>1. /\ a \in DocRows /\ a.status = "VALIDATION_FAILED"
          /\ b \in DocRows /\ b.status = "REJECTED"
          /\ c \in DocRows /\ e \in DocRows
      BY <2>1 DEF DocRows, DocumentStatus, Inactive
    <3>2. \/ commits(w, a, "transient")
          \/ commits(w, b, "reject_audit")
          \/ commits(w, c, "dup_delete") /\ task[w].pc = "duplicate"
          \/ commits(w, e, "race_escalate")
      BY <1>13 DEF scan_read_fails, scan_reject, scan_duplicate, scan_promote_fails,
         scan_race_lost, At
    <3> HIDE DEF a, b, c, e
    <3> QED
      BY <3>1, <3>2
  <2>3. pc \in Outcomes \cup ScanPcs /\ "transient" \in Outcomes
    BY DEF Outcomes, ScanPcs
  <2>4. /\ \A e \in Docs : docs'[e].tier = docs[e].tier
        /\ \/ Goto(w, "transient") /\ docs' = docs
           \/ Goto(w, pc) /\ docs'[d].status = dto.status
    BY <1>1, <1>4, <2>2, <2>3, CommitsTo
  <2>5. task'[w].doc = task[w].doc /\ task'[w].pc \notin {"tier_audit", "duplicate"}
    BY <1>6, <2>3, <2>4
  <2>6. TiersRise /\ (task'[w].pc \in Loaded /\ ~Holds(d)' => task'[w].doc.tier = docs'[d].tier)
    BY <1>10, <2>1, <2>4, <2>5
  <2>7. docs'[d].status = "DUPLICATE" => NoStricter(d)' \/ task'[w].pc = "race_escalate"
    <3>1. CASE docs' = docs
      BY <1>9, <2>1, <2>6, <3>1
    <3>2. CASE Goto(w, pc) /\ docs'[d].status = dto.status /\ task[w].pc = "duplicate"
      <4>1. HeldElsewhere(d) /\ NoStricter(d)
        BY <1>1, <1>2, <1>5, <3>2 DEF ScanKnows, TierInv
      <4> QED
        BY <2>6, <4>1, RankKept
    <3>3. CASE Goto(w, pc) /\ docs'[d].status = dto.status /\ task[w].pc # "duplicate"
      BY <1>6, <2>2, <2>3, <3>3
    <3> QED
      BY <2>4, <3>1, <3>2, <3>3
  <2> QED
    BY <1>1, <2>5, <2>6, <2>7, ScanTierStep
<1>14. CASE \/ scan_reject_audit(w) \/ scan_reject_delete(w) \/ scan_tier_audit(w)
            \/ scan_dup_delete(w) \/ scan_dup_audit(w) \/ scan_promote(w) \/ scan_clear(w)
            \/ scan_race_tier_audit(w) \/ scan_race_audit(w)
            \/ scan_promoted_audit(w) \/ scan_enqueue(w)
  <2>1. /\ docs' = docs /\ task[w].pc \in Loaded /\ task[w].pc # "race_escalate"
        /\ \E pc \in Outcomes \cup ScanPcs :
              /\ Goto(w, pc)
              /\ \/ pc \notin {"tier_audit", "duplicate"}
                 \/ pc = "duplicate" /\ task[w].pc = "tier_audit"
    BY <1>4, <1>14 DEF scan_reject_audit, scan_reject_delete, scan_tier_audit, scan_dup_delete,
       scan_dup_audit, scan_promote, scan_clear, scan_race_tier_audit, scan_race_audit,
       scan_promoted_audit, scan_enqueue, audits, enqueues, corpusVars, At, Outcomes, ScanPcs
  <2>2. /\ task'[w].doc = task[w].doc
        /\ \/ task'[w].pc \notin {"tier_audit", "duplicate"}
           \/ task[w].pc = "tier_audit"
    BY <1>6, <2>1
  <2>3. TiersRise /\ (task'[w].pc \in Loaded /\ ~Holds(d)' => task'[w].doc.tier = docs'[d].tier)
    BY <1>10, <2>1, <2>2
  <2>4. task'[w].pc \in {"tier_audit", "duplicate"} => NoStricter(d)'
    <3>1. task[w].pc = "tier_audit" => HeldElsewhere(d) /\ NoStricter(d)
      BY <1>1, <1>2, <1>5 DEF ScanKnows, TierInv
    <3> QED
      BY <2>2, <2>3, <3>1, RankKept
  <2> QED
    BY <1>1, <1>9, <2>1, <2>3, <2>4, ScanTierStep
<1>15. CASE scan_dedup(w) \/ scan_race_escalate(w)
  <2>1. /\ task[w].doc \in DocRows /\ task[w].pc \in Loaded
        /\ task[w].pc \in {"dedup", "race_escalate"}
        /\ task[w].doc.sha = ContentOf[d] /\ ContentOf[d] \in Valid
    BY <1>1, <1>3, <1>4, <1>5, <1>15 DEF scan_dedup, scan_race_escalate, At, ScanPcs, ScanKnows
  <2>2. CASE /\ docs' = docs /\ get_by_checksum(ContentOf[d]) \ {d} = {}
             /\ Goto(w, "promote") \/ Goto(w, "race_audit")
    <3>1. ~HeldElsewhere(d)
      BY <2>2 DEF HeldElsewhere, Holds, get_by_checksum
    <3>2. docs'[d].status # "DUPLICATE"
      BY <1>5, <2>2, <3>1 DEF RowTrue
    <3>3. task'[w].pc \in {"promote", "race_audit"} /\ task'[w].doc = task[w].doc
      BY <1>6, <2>2 DEF ScanPcs
    <3>4. TiersRise /\ (task'[w].pc \in Loaded /\ ~Holds(d)' => task'[w].doc.tier = docs'[d].tier)
      BY <1>10, <2>1, <2>2, <3>3
    <3> QED
      BY <1>1, <3>2, <3>3, <3>4, ScanTierStep
  <2>3. ASSUME NEW e \in get_by_checksum(ContentOf[d]) \ {d},
               \/ escalates(w, e, "tier_audit", "duplicate")
               \/ escalates(w, e, "race_tier_audit", "race_audit")
        PROVE  TierInv'
    <3>1. e \in Docs \ {d} /\ Holds(e) /\ ContentOf[e] = ContentOf[d] /\ HeldElsewhere(d)
      BY <1>2, <2>3 DEF get_by_checksum, HeldElsewhere, Holds, DedupInv, RowTrue
    <3>2. {"tier_audit", "duplicate", "race_tier_audit", "race_audit"} \subseteq TaskPcs
      BY DEF TaskPcs, Loaded, ScanPcs
    <3>3. /\ task'[w].doc = task[w].doc
          /\ task'[w].pc \in {"tier_audit", "duplicate", "race_tier_audit", "race_audit"}
          /\ \A f \in Docs \ {e} : docs'[f] = docs[f]
          /\ \/ Escalates(task[w].doc.tier, e) /\ docs'[e].tier = task[w].doc.tier
             \/ ~Escalates(task[w].doc.tier, e) /\ docs' = docs
      BY <2>1, <2>3, <3>1, <3>2, EscalatesTo
    <3>4. task[w].doc.tier = docs[d].tier /\ ~Holds(d)
      BY <1>1, <1>2, <1>7, <2>1, <3>1 DEF TierInv
    <3>5. TiersRise
      BY <3>1, <3>3 DEF TiersRise, Escalates, is_stricter
    <3>6. ~is_stricter(docs'[d].tier, docs'[e].tier)
      BY <3>1, <3>3, <3>4 DEF Escalates, is_stricter
    <3>7. ASSUME NEW f \in Docs \ {d}, ContentOf[f] = ContentOf[d], Holds(f)' PROVE f = e
      BY <3>1, <3>7 DEF HoldersStay, DedupInv, UniqueIndex
    <3>8. NoStricter(d)'
      BY <3>6, <3>7 DEF NoStricter, is_stricter
    <3>9. task'[w].doc.tier = docs'[d].tier
      BY <3>1, <3>3, <3>4
    <3> QED
      BY <1>1, <3>5, <3>8, <3>9, ScanTierStep
  <2> QED
    BY <1>1, <1>15, <2>1, <2>2, <2>3 DEF scan_dedup, scan_race_escalate, At
<1>16. CASE scan_validated(w)
  <2>1. task[w].doc \in DocRows /\ task[w].pc = "validated" /\ task[w].pc \in Loaded
    BY <1>3, <1>4, <1>16 DEF scan_validated, At, ScanPcs
  <2>2. Promoted(w) \in DocRows /\ Promoted(w).status = "VALIDATED"
    BY <2>1 DEF Promoted, DocRows, DocumentStatus
  <2>3. /\ \A e \in Docs : docs'[e].tier = docs[e].tier
        /\ docs' = docs \/ docs'[d].status = "VALIDATED"
        /\ Goto(w, "race_lost") \/ Goto(w, "promoted_audit")
    <3>1. ASSUME update_document(d, Promoted(w))
          PROVE  /\ \A e \in Docs : docs'[e].tier = docs[e].tier
                 /\ docs'[d].status = "VALIDATED"
      BY <2>2, <3>1, UpdatesTo
    <3> QED
      BY <1>1, <1>16, <3>1 DEF scan_validated
  <2>4. task'[w].doc = task[w].doc /\ task'[w].pc \in {"race_lost", "promoted_audit"}
    BY <1>6, <2>3 DEF ScanPcs
  <2>5. TiersRise /\ (task'[w].pc \in Loaded /\ ~Holds(d)' => task'[w].doc.tier = docs'[d].tier)
    BY <1>10, <2>1, <2>3, <2>4
  <2> QED
    BY <1>1, <1>9, <2>1, <2>3, <2>4, <2>5, ScanTierStep
<1> QED
  BY <1>11, <1>12, <1>13, <1>14, <1>15, <1>16 DEF ScanNext

\* A step that interrupts no SCAN handler, changes no classification and gives no copy up.
LEMMA CalmTiers ==
    ASSUME QueueTypeOK, TypeOK, DedupInv, DedupInv', HoldersStay, TierInv,
           \A e \in Docs : /\ docs'[e].tier = docs[e].tier
                           /\ docs'[e].status = "DUPLICATE" => docs[e].status = "DUPLICATE",
           \A v \in Workers :
              WorkerStage[v] = "SCAN" =>
                 /\ Undisturbed(v)
                 /\ task[v].pc \in Loaded => task'[v] = task[v] /\ workers'[v] = workers[v]
    PROVE  TierInv'
<1>1. TiersRise
  BY DEF TiersRise
<1>2. ASSUME NEW v \in Workers, WorkerStage[v] = "SCAN", task'[v].pc \in Loaded
      PROVE  /\ task'[v] = task[v] /\ DocOf(v)' = DocOf(v) /\ DocOf(v) \in Docs
             /\ task[v].pc \in Loaded
  BY <1>2, HasDocument DEF Undisturbed, DocOf
<1>3. ASSUME NEW v \in Workers, WorkerStage[v] = "SCAN", task'[v].pc \in Loaded,
             ~Holds(DocOf(v))'
      PROVE  (task[v].doc.tier = docs[DocOf(v)].tier)'
  <2>1. PICK e \in Docs : e = DocOf(v) /\ e = DocOf(v)'
    BY <1>2, <1>3
  <2>2. ~Holds(e)
    BY <1>3, <2>1 DEF HoldersStay
  <2> QED
    BY <1>2, <1>3, <2>1, <2>2 DEF TierInv
<1>4. ASSUME NEW v \in Workers, WorkerStage[v] = "SCAN",
             task'[v].pc \in {"tier_audit", "duplicate"}
      PROVE  NoStricter(DocOf(v))'
  <2>1. task'[v].pc \in Loaded
    BY <1>4 DEF Loaded, ScanPcs
  <2>2. PICK e \in Docs : e = DocOf(v) /\ e = DocOf(v)'
    BY <1>2, <1>4, <2>1
  <2>3. HeldElsewhere(e) /\ NoStricter(e)
    BY <1>2, <1>4, <2>1, <2>2 DEF DedupInv, ScanKnows, TierInv
  <2> QED
    BY <1>1, <2>2, <2>3, RankKept
<1>5. ASSUME NEW e \in Docs, docs'[e].status = "DUPLICATE"
      PROVE  \/ NoStricter(e)'
             \/ \E v \in Workers : /\ WorkerStage[v] = "SCAN" /\ DocOf(v)' = e
                                   /\ workers'[v].pc = "processing"
                                   /\ task'[v].pc = "race_escalate"
  <2>1. docs[e].status = "DUPLICATE" /\ HeldElsewhere(e)
    BY <1>5 DEF DedupInv, RowTrue
  <2>2. CASE NoStricter(e)
    BY <1>1, <2>1, <2>2, RankKept
  <2>3. ASSUME NEW v \in Workers, WorkerStage[v] = "SCAN", DocOf(v) = e,
               workers[v].pc = "processing", task[v].pc = "race_escalate"
        PROVE  /\ DocOf(v)' = e /\ workers'[v].pc = "processing"
               /\ task'[v].pc = "race_escalate"
    BY <2>3 DEF Loaded, ScanPcs, DocOf
  <2> QED
    BY <2>1, <2>2, <2>3 DEF TierInv
<1> QED
  BY <1>3, <1>4, <1>5 DEF TierInv

\* The queue's own steps leave a SCAN handler alone that neither crashes nor meets a
\* database fault.
LEMMA ScanUninterrupted ==
    ASSUME "SCAN" \notin Crashes \cup DatabaseFaults, QueueTypeOK, TypeOK, NEW w \in Workers,
           \/ Claims(w) \/ Renews(w) \/ Reaps(w) \/ Writes(w) \/ CompletionFails(w)
           \/ WorkerDies(w) \/ (Handles(w) /\ returns(w)) \/ Aborts(w),
           NEW v \in Workers, WorkerStage[v] = "SCAN", task[v].pc \in Loaded
    PROVE  task'[v] = task[v] /\ workers'[v] = workers[v]
<1>1. task \in [Workers -> TaskStates] /\ workers \in [Workers -> WorkerStates]
  BY DEF TypeOK, QueueTypeOK
<1>2. workers[v].pc = "processing" /\ task[v].pc \notin Outcomes
  BY DEF TypeOK, TaskFits, Loaded, ScanPcs, TextPcs, Outcomes
<1>3. CASE v # w
  BY <1>1, <1>3 DEF Claims, pick_job, Renews, renew_once, Reaps, reap_stuck_jobs, Writes,
     WriteOutcome, mark_job_completed, handle_job_retry_or_fail, mark_job_failed,
     CompletionFails, complete_raises, WorkerDies, Crash, returns, process_job_ends, Aborts,
     aborts, Goto, queueVars
<1>4. CASE v = w
  BY <1>2, <1>4 DEF Claims, pick_job, Renews, renew_once, Reaps, reap_stuck_jobs, Writes,
     WriteOutcome, mark_job_completed, handle_job_retry_or_fail, mark_job_failed,
     CompletionFails, complete_raises, WorkerDies, returns, Aborts, aborts
<1> QED
  BY <1>3, <1>4

\* The inductive step.
LEMMA TierStep ==
    ASSUME Deletes = {}, "SCAN" \notin Crashes \cup DatabaseFaults, "reset" \notin Backfills
    PROVE  /\ QueueTypeOK /\ TypeOK /\ TypeOK' /\ KeptInv /\ UploadInv /\ ScanSolo
           /\ DedupInv /\ DedupInv' /\ TierInv /\ [Next]_vars
           => TierInv'
<1> SUFFICES ASSUME QueueTypeOK, TypeOK, TypeOK', KeptInv, UploadInv, ScanSolo, DedupInv,
                    DedupInv', TierInv, [Next]_vars
             PROVE  TierInv'
  OBVIOUS
<1>1. HoldersStay
  BY DedupStep
<1>2. \A v \in Workers : task[v].pc \in Loaded => workers[v].pc = "processing"
  BY DEF TypeOK, TaskFits, Loaded, ScanPcs, TextPcs
<1>3. ASSUME \A e \in Docs : /\ docs'[e].tier = docs[e].tier
                             /\ \/ docs'[e].status = docs[e].status
                                \/ docs'[e].status = "QUARANTINED",
             UNCHANGED <<task, workers>>
      PROVE  TierInv'
  BY <1>1, <1>2, <1>3, CalmTiers DEF Undisturbed
<1>4. ASSUME NEW w \in Workers, TextNext(w) PROVE TierInv'
  <2>1. PICK d \in Docs : d = DocOf(w)
    BY <1>4, TextMoves
  <2>2. /\ WorkerStage[w] \in TextStageNames
        /\ \A e \in Docs : /\ docs'[e].tier = docs[e].tier
                           /\ docs'[e].status = "DUPLICATE" => docs[e].status = "DUPLICATE"
    BY <1>4, <2>1, TextMoves DEF DoneStatus, FailStatus, TextStageNames
  <2>3. \A v \in Workers \ {w} : task'[v] = task[v] /\ workers' = workers
    BY <1>4, HandlerFrame
  <2> QED
    BY <1>1, <1>2, <2>2, <2>3, CalmTiers DEF Undisturbed, TextStageNames
<1>5. ASSUME NEW w \in Workers,
             \/ Claims(w) \/ Renews(w) \/ Reaps(w) \/ Writes(w) \/ CompletionFails(w)
             \/ WorkerDies(w) \/ Handles(w) \/ Aborts(w)
      PROVE  TierInv'
  <2>1. CASE Handles(w) /\ ~returns(w)
    BY <1>1, <1>4, <2>1, ScanTiers DEF Handles
  <2>2. CASE ~(Handles(w) /\ ~returns(w))
    <3>1. docs' = docs /\ \A v \in Workers : Undisturbed(v)
      BY <1>5, <2>2, QueueSteps DEF corpusVars
    <3>2. \A v \in Workers : WorkerStage[v] = "SCAN" /\ task[v].pc \in Loaded =>
             task'[v] = task[v] /\ workers'[v] = workers[v]
      BY <1>5, <2>2, ScanUninterrupted
    <3> QED
      BY <1>1, <3>1, <3>2, CalmTiers
  <2> QED
    BY <2>1, <2>2
<1>6. ASSUME NEW d \in Docs,
             Receives(d) \/ Deleted(d) \/ Erases(d) \/ RequestDies(d) \/ Backfilled(d)
      PROVE  TierInv'
  <2>1. ~Deleted(d) /\ ~Erases(d) /\ ~erase_dies(d)
    BY NoDeletes
  <2>2. task' = task /\ workers' = workers /\ docs \in [Docs -> DocRows]
    BY <1>6, RequestsFrame DEF TypeOK
  <2>3. \A e \in Docs : /\ docs'[e].tier = docs[e].tier
                        /\ \/ docs'[e].status = docs[e].status
                           \/ docs'[e].status = "QUARANTINED"
    <3>1. CASE receive_create(d)
      BY <2>2, <3>1 DEF receive_create, DocRows
    <3>2. ASSUME Backfilled(d) PROVE docs' = docs
      BY <2>2, <3>2 DEF Backfilled, backfill
    <3> QED
      BY <1>6, <2>1, <3>1, <3>2 DEF Receives, receive_put, receive_enqueue, receive_audit,
         RequestDies, receive_dies, corpusVars
  <2> QED
    BY <1>3, <2>2, <2>3
<1>7. ASSUME NEW j \in Jobs, LeaseRunsOut(j) PROVE TierInv'
  BY <1>3, <1>7 DEF LeaseRunsOut, ExpireLease, corpusVars
<1>8. CASE UNCHANGED vars
  BY <1>3, <1>8 DEF vars
<1> QED
  BY <1>5, <1>6, <1>7, <1>8 DEF Next

\* "Let the stricter of the two tiers win", whatever the storage, the API and the other
\* stages do, and whichever of two copies is promoted first: once the scan of a duplicate is
\* over, the document it duplicates is at least as restricted.  A SCAN worker that crashed
\* between writing DUPLICATE and escalating would not come back to it.
THEOREM StricterTierWinsHolds ==
    ASSUME Deletes = {},
           "SCAN" \notin Crashes \cup DatabaseFaults \cup LeaseLoss \cup BackfillStages,
           "reset" \notin Backfills
    PROVE  Spec => []StricterTierWins
<1>1. Init => TierInv
  BY DEF Init, TaskInit, NoTask, CorpusInit, NoDoc, TierInv, Loaded, ScanPcs, TextPcs
<1>2. /\ QueueTypeOK /\ TypeOK /\ TypeOK' /\ KeptInv /\ UploadInv /\ ScanSolo
      /\ DedupInv /\ DedupInv' /\ TierInv /\ [Next]_vars
      => TierInv'
  BY TierStep
<1>3. Spec => []HeldInv
  BY PipelineImplementsQueue, JobsHeld
<1>4. QueueTypeOK /\ HeldInv /\ DedupInv /\ TierInv => StricterTierWins
  <2> SUFFICES ASSUME QueueTypeOK, HeldInv, DedupInv, TierInv,
                      NEW d \in Docs, docs[d].status = "DUPLICATE", Quiet(d),
                      NEW e \in get_by_checksum(ContentOf[d])
               PROVE  ~is_stricter(docs[d].tier, docs[e].tier)
    BY DEF StricterTierWins
  <2>1. ASSUME NEW w \in Workers, WorkerStage[w] = "SCAN", DocOf(w) = d,
               workers[w].pc = "processing"
        PROVE  FALSE
    <3>1. workers[w].job \in Jobs /\ jobs[workers[w].job].status = "RUNNING"
      BY <2>1, HasDocument DEF HeldInv
    <3> QED
      BY <2>1, <3>1 DEF Quiet, JobsOf, DocOf, Done
  <2>2. NoStricter(d)
    BY <2>1 DEF TierInv
  <2>3. e \in Docs \ {d} /\ ContentOf[e] = ContentOf[d] /\ Holds(e)
    BY CorpusAssumption DEF get_by_checksum, Active, Inactive, Holds, DedupInv, RowTrue
  <2> QED
    BY <2>2, <2>3 DEF NoStricter
<1>5. Spec => [](KeptInv /\ ScanSolo /\ UploadInv /\ DedupInv)
  <2>1. Spec => [](ScanSolo /\ UploadInv)
    BY ScannedAlone
  <2>2. Spec => []DedupInv
    BY DedupTrue
  <2> QED
    BY <2>1, <2>2, KeptHolds, PTL
<1> QED
  BY <1>1, <1>2, <1>3, <1>4, <1>5, PipelineTypeCorrect, PTL DEF Spec

(***************************************************************************)
(* The life of a document                                                  *)
(***************************************************************************)

\* The life and the content the pipeline shows of a document.
ShownLife == [d \in Docs |-> LifeOf(docs[d].status)]
ShownContent == [d \in Docs |-> IF docs[d].status = "ABSENT" THEN None ELSE ContentOf[d]]

\* A step that changes one document's life, and no content.
LEMMA LifeGoes ==
    ASSUME NEW d \in Docs, NEW from, NEW to,
           \A e \in Docs \ {d} : docs'[e].status = docs[e].status,
           docs[d].status # "ABSENT", docs'[d].status # "ABSENT",
           LifeOf(docs[d].status) \in from, LifeOf(docs'[d].status) = to
    PROVE  Life!Moves(d, from, to) /\ UNCHANGED ShownContent
<1>1. ShownLife' = [ShownLife EXCEPT ![d] = to]
  BY DEF ShownLife
<1>2. ShownLife[d] \in from
  BY DEF ShownLife
<1>3. UNCHANGED ShownContent
  BY DEF ShownContent
<1> QED
  BY <1>1, <1>2, <1>3 DEF Life!Moves, ShownLife

\* A step that changes no status is not seen from outside.
LEMMA LifeStutters ==
    ASSUME \A e \in Docs : docs'[e].status = docs[e].status
    PROVE  [Life!LifeNext]_(Life!lifeVars)
<1>1. UNCHANGED <<ShownLife, ShownContent>>
  BY DEF ShownLife, ShownContent
<1> QED
  BY <1>1 DEF Life!lifeVars, ShownLife, ShownContent

\* The documents that hold their bytes, seen from outside.
LEMMA HoldersHold ==
    ASSUME NEW c, c # None, NEW e \in Life!Holders(c), DedupInv
    PROVE  /\ e \in Docs /\ ContentOf[e] = c /\ Holds(e)
           /\ LifeOf(docs[e].status) \in {"accepted", "failed", "live"}
<1>1. /\ e \in Docs /\ ContentOf[e] = c
      /\ LifeOf(docs[e].status) \in {"accepted", "failed", "live"}
  BY DEF Life!Holders
<1>2. docs[e].status \notin {"ABSENT", "QUARANTINED", "VALIDATION_FAILED", "REJECTED", "DUPLICATE"}
  BY <1>1 DEF LifeOf
<1> QED
  BY <1>1, <1>2 DEF DedupInv, RowTrue, Holds, Active, Inactive

\* A move of one document that leaves the contents alone is a step seen from outside, or
\* none.
LEMMA LifeSteps ==
    ASSUME NEW d \in Docs, UNCHANGED ShownContent,
           \/ Life!Stalls(d) \/ Life!Refuses(d) \/ Life!Accepts(d) \/ Life!Duplicates(d)
           \/ Life!Fails(d) \/ Life!Recovers(d) \/ Life!GoesLive(d)
    PROVE  [Life!LifeNext]_(Life!lifeVars)
<1>1. CASE ShownLife' = ShownLife
  BY <1>1 DEF Life!lifeVars, ShownLife, ShownContent
<1>2. CASE ShownLife' # ShownLife
  BY <1>2 DEF Life!LifeNext, ShownLife
<1> QED
  BY <1>1, <1>2

\* SCAN accepts a document only while no other holds its bytes, and gives one up only for
\* another that has not been given up.
LEMMA ScanLife ==
    ASSUME QueueTypeOK, TypeOK, TypeOK', StageInv, DedupInv, DedupInv',
           NEW w \in Workers, ScanNext(w)
    PROVE  [Life!LifeNext]_(Life!lifeVars)
<1>1. PICK d \in Docs : d = DocOf(w)
  BY ScanMoves
<1>2. /\ \A e \in Docs \ {d} : docs'[e].status = docs[e].status
      /\ \/ docs'[d].status = docs[d].status
         \/ docs'[d].status = "VALIDATION_FAILED" /\ task[w].pc \notin ScanClosing
         \/ /\ docs'[d].status \in {"VALIDATED", "REJECTED", "DUPLICATE"}
            /\ task[w].pc \notin ScanClosing
  BY <1>1, ScanMoves
<1>3. /\ workers[w].pc = "processing" /\ WorkerStage[w] = "SCAN"
      /\ ContentOf[d] \in Contents /\ ContentOf[d] # None
  BY <1>1, HandlerFrame, ScanMoves, CorpusAssumption
<1>4. task[w].pc \notin ScanClosing =>
         docs[d].status # "ABSENT" /\ LifeOf(docs[d].status) \in {"received", "stalled"}
  <2>1. task[w].pc \notin ScanClosing => ScanOpen(d)
    BY <1>1, <1>3 DEF StageInv, ScansInTime, ScanOver
  <2> QED
    BY <2>1 DEF ScanOpen, LifeOf
<1>5. CASE docs'[d].status = docs[d].status
  BY <1>2, <1>5, LifeStutters
<1>6. CASE task[w].pc \notin ScanClosing /\ docs'[d].status = "VALIDATION_FAILED"
  <2>1. LifeOf(docs'[d].status) = "stalled"
    BY <1>6 DEF LifeOf
  <2>2. Life!Moves(d, {"received", "stalled"}, "stalled") /\ UNCHANGED ShownContent
    BY <1>2, <1>4, <1>6, <2>1, LifeGoes
  <2> QED
    BY <2>2, LifeSteps DEF Life!Stalls, ShownContent
<1>7. CASE task[w].pc \notin ScanClosing /\ docs'[d].status = "REJECTED"
  <2>1. LifeOf(docs'[d].status) = "refused"
    BY <1>7 DEF LifeOf
  <2>2. Life!Moves(d, {"received", "stalled"}, "refused") /\ UNCHANGED ShownContent
    BY <1>2, <1>4, <1>7, <2>1, LifeGoes
  <2> QED
    BY <2>2, LifeSteps DEF Life!Refuses, ShownContent
<1>8. CASE task[w].pc \notin ScanClosing /\ docs'[d].status = "VALIDATED"
  <2>1. LifeOf(docs'[d].status) = "accepted"
    BY <1>8 DEF LifeOf
  <2>2. Life!Moves(d, {"received", "stalled"}, "accepted") /\ UNCHANGED ShownContent
    BY <1>2, <1>4, <1>8, <2>1, LifeGoes
  <2>3. ShownContent[d] = ContentOf[d]
    BY <1>4, <1>8 DEF ShownContent
  <2>4. ASSUME NEW e \in Life!Holders(ContentOf[d]) PROVE FALSE
    <3>1. /\ e \in Docs /\ ContentOf[e] = ContentOf[d] /\ Holds(e) /\ e # d
          /\ LifeOf(docs[e].status) \in {"accepted", "failed", "live"}
      BY <1>3, <1>4, <1>8, <2>4, HoldersHold
    <3>2. docs[e].status \notin Inactive \cup {"QUARANTINED", "VALIDATION_FAILED"}
      BY <3>1 DEF LifeOf, Inactive
    <3>3. docs'[e].status = docs[e].status
      BY <1>2, <3>1
    <3>4. Holds(e)' /\ Holds(d)'
      BY <1>3, <1>8, <3>1, <3>2, <3>3 DEF DedupInv, RowTrue, Holds, Active, Inactive
    <3> QED
      BY <3>1, <3>4 DEF DedupInv, UniqueIndex
  <2>5. Life!Holders(ShownContent[d]) = {}
    BY <2>3, <2>4 DEF Life!Holders
  <2> QED
    BY <2>2, <2>5, LifeSteps DEF Life!Accepts, ShownContent
<1>9. CASE task[w].pc \notin ScanClosing /\ docs'[d].status = "DUPLICATE"
  <2>1. LifeOf(docs'[d].status) = "duplicate"
    BY <1>9 DEF LifeOf
  <2>2. Life!Moves(d, {"received", "stalled"}, "duplicate") /\ UNCHANGED ShownContent
    BY <1>2, <1>4, <1>9, <2>1, LifeGoes
  <2>3. PICK e \in Docs \ {d} : ContentOf[e] = ContentOf[d] /\ Holds(e)'
    BY <1>9 DEF DedupInv, RowTrue, HeldElsewhere
  <2>4. docs[e].status \in DocumentStatus \ (Inactive \cup {"QUARANTINED"})
    <3>1. docs'[e].status = docs[e].status /\ ContentOf[e] # None
      BY <1>2, <1>3, <2>3
    <3>2. docs \in [Docs -> DocRows]
      BY DEF TypeOK
    <3> QED
      BY <2>3, <3>1, <3>2 DEF DedupInv, RowTrue, Holds, Active, Inactive, DocRows
  <2>5. LifeOf(docs[e].status) \in {"stalled", "accepted", "failed", "live"}
    BY <2>4 DEF LifeOf, DocumentStatus, Inactive
  <2>6. e \in Life!Originals(d)
    BY <1>4, <1>9, <2>3, <2>4, <2>5 DEF Life!Originals, Inactive
  <2> QED
    BY <2>2, <2>6, LifeSteps DEF Life!Duplicates, ShownContent
<1> QED
  BY <1>2, <1>5, <1>6, <1>7, <1>8, <1>9

\* The text stages take an accepted document on, or let it fail.
LEMMA TextLife ==
    ASSUME QueueTypeOK, TypeOK, StageInv, NEW w \in Workers, TextNext(w)
    PROVE  [Life!LifeNext]_(Life!lifeVars)
<1>1. PICK d \in Docs : d = DocOf(w)
  BY TextMoves
<1>2. \A e \in Docs \ {d} : docs'[e].status = docs[e].status
  BY <1>1, TextMoves
<1>3. CASE docs'[d].status = docs[d].status
  BY <1>2, <1>3, LifeStutters
<1>4. CASE /\ task[w].pc \in TextOpen
           /\ docs'[d].status \in {DoneStatus[WorkerStage[w]], FailStatus[WorkerStage[w]],
                                   "SKIPPED_UNSUPPORTED_LANGUAGE"}
  <2>1. WorkerStage[w] \in TextStageNames /\ docs[d].status = EntryStatus[WorkerStage[w]]
    BY <1>1, <1>4, TextMoves DEF StageInv, InEntryStatus
  <2>2. docs[d].status # "ABSENT" /\ LifeOf(docs[d].status) \in {"accepted"}
    BY <2>1 DEF EntryStatus, TextStageNames, LifeOf
  <2>3. /\ docs'[d].status # "ABSENT"
        /\ LifeOf(docs'[d].status) \in {"accepted", "failed", "live"}
    BY <1>4, <2>1 DEF DoneStatus, FailStatus, TextStageNames, LifeOf
  <2>4. CASE LifeOf(docs'[d].status) = "accepted"
    <3>1. UNCHANGED <<ShownLife, ShownContent>>
      BY <1>2, <2>2, <2>3, <2>4 DEF ShownLife, ShownContent
    <3> QED
      BY <3>1 DEF Life!lifeVars, ShownLife, ShownContent
  <2>5. CASE LifeOf(docs'[d].status) = "failed"
    <3>1. Life!Moves(d, {"accepted"}, "failed") /\ UNCHANGED ShownContent
      BY <1>2, <2>2, <2>3, <2>5, LifeGoes
    <3> QED
      BY <3>1, LifeSteps DEF Life!Fails, ShownContent
  <2>6. CASE LifeOf(docs'[d].status) = "live"
    <3>1. Life!Moves(d, {"accepted"}, "live") /\ UNCHANGED ShownContent
      BY <1>2, <2>2, <2>3, <2>6, LifeGoes
    <3> QED
      BY <3>1, LifeSteps DEF Life!GoesLive, ShownContent
  <2> QED
    BY <2>3, <2>4, <2>5, <2>6
<1> QED
  BY <1>1, <1>3, <1>4, TextMoves

\* A request receives a document, or is not seen from outside.
LEMMA RequestLife ==
    ASSUME "reset" \notin Backfills, QueueTypeOK, TypeOK, StageInv, NEW d \in Docs,
           Receives(d) \/ Deleted(d) \/ Erases(d) \/ RequestDies(d) \/ Backfilled(d)
    PROVE  [Life!LifeNext]_(Life!lifeVars)
<1>1. docs \in [Docs -> DocRows]
  BY DEF TypeOK
<1>2. CASE receive_create(d)
  <2>1. /\ docs[d].status = "ABSENT" /\ docs'[d].status = "QUARANTINED"
        /\ \A e \in Docs \ {d} : docs'[e] = docs[e]
        /\ ContentOf[d] \in Contents
    BY <1>1, <1>2, CorpusAssumption
       DEF receive_create, UploadStep, StageInv, CreatedByUpload, DocRows
  <2>2. LifeOf(docs[d].status) = "absent" /\ LifeOf(docs'[d].status) = "received"
    BY <2>1 DEF LifeOf
  <2>3. /\ ShownLife[d] = "absent" /\ ShownLife' = [ShownLife EXCEPT ![d] = "received"]
        /\ ShownContent' = [ShownContent EXCEPT ![d] = ContentOf[d]]
    BY <2>1, <2>2 DEF ShownLife, ShownContent
  <2>4. Life!Receives_(d, ContentOf[d])
    BY <2>3 DEF Life!Receives_, Life!Moves, ShownLife, ShownContent
  <2>5. ShownLife' # ShownLife
    BY <2>3 DEF ShownLife
  <2> QED
    BY <2>1, <2>4, <2>5 DEF Life!LifeNext, ShownLife
<1>3. ASSUME Backfilled(d) PROVE docs' = docs
  BY <1>1, <1>3 DEF Backfilled, backfill
<1>4. CASE Deleted(d) \/ Erases(d) \/ (RequestDies(d) /\ erase_dies(d))
  BY <1>4, EraseMoves, LifeStutters
<1>5. CASE docs' = docs
  BY <1>5, LifeStutters
<1> QED
  BY <1>2, <1>3, <1>4, <1>5 DEF Receives, receive_put, receive_enqueue, receive_audit,
     RequestDies, receive_dies, corpusVars

\* The pipeline implements DocumentLife, which the Drive connector is modelled on: of two
\* copies one at most is accepted, one is only given up for another that is not, and what
\* is settled stays settled.
THEOREM PipelineImplementsLife ==
    ASSUME Deletes = {}, OneWorkerPerStage,
           "SCAN" \notin Crashes \cup DatabaseFaults \cup BackfillStages,
           "reset" \notin Backfills
    PROVE  Spec => LifeSpec
<1>1. Init => Life!LifeInit
  BY DEF Init, CorpusInit, NoDoc, LifeOf, Life!LifeInit
<1>2. /\ QueueTypeOK /\ TypeOK /\ TypeOK' /\ StageInv /\ DedupInv /\ DedupInv' /\ [Next]_vars
      => [Life!LifeNext]_(Life!lifeVars)
  <2> SUFFICES ASSUME QueueTypeOK, TypeOK, TypeOK', StageInv, DedupInv, DedupInv', [Next]_vars
               PROVE  [Life!LifeNext]_(Life!lifeVars)
    OBVIOUS
  <2>1. CASE docs' = docs
    BY <2>1, LifeStutters
  <2>2. ASSUME NEW w \in Workers,
               \/ Claims(w) \/ Renews(w) \/ Reaps(w) \/ Writes(w) \/ CompletionFails(w)
               \/ WorkerDies(w) \/ Handles(w) \/ Aborts(w)
        PROVE  [Life!LifeNext]_(Life!lifeVars)
    <3>1. CASE Handles(w) /\ ~returns(w)
      BY <3>1, ScanLife, TextLife DEF Handles
    <3> QED
      BY <2>1, <2>2, <3>1, QueueSteps DEF corpusVars
  <2>3. ASSUME NEW d \in Docs,
               Receives(d) \/ Deleted(d) \/ Erases(d) \/ RequestDies(d) \/ Backfilled(d)
        PROVE  [Life!LifeNext]_(Life!lifeVars)
    BY <2>3, RequestLife
  <2> QED
    BY <2>1, <2>2, <2>3 DEF Next, LeaseRunsOut, corpusVars, vars
<1>3. OneWorkerPerStage => OneScanner
  BY DEF OneWorkerPerStage, OneScanner
<1>4. Spec => []StageInv
  BY StagesTakeTurns
<1>5. Spec => []DedupInv
  BY <1>3, DedupTrue
<1> QED
  BY <1>1, <1>2, <1>4, <1>5, PipelineTypeCorrect, PTL DEF Spec, LifeSpec, Life!LifeSpec

(***************************************************************************)
(* What is stranded can be put back on its way (StrandedIsRecoverable).    *)
(***************************************************************************)

\* Nobody queued the scan of the document, or that was backed out.
NeverQueued(d) ==
    \A j \in Jobs : JobStage[j] = "SCAN" /\ JobDoc[j] = d => jobs[j].status = "ABSENT"

\* A SCAN job that is being worked on is not COMPLETED.
ScanNotCompleted ==
    \A w \in Workers :
        workers[w].pc # "idle" /\ WorkerStage[w] = "SCAN" =>
            jobs[workers[w].job].status # "COMPLETED"

\* A SCAN handler that ends well has decided the fate of its document.
ScanDecides ==
    \A w \in Workers : WorkerStage[w] = "SCAN" /\ ScanOver(w) => ~ScanOpen(DocOf(w))

\* So has one that did.
CompletedDecided ==
    \A j \in Jobs :
        JobStage[j] = "SCAN" /\ jobs[j].status = "COMPLETED" => ~ScanOpen(JobDoc[j])

\* Until the first scan is queued, the uploaded bytes are where the upload put them.
UploadKept ==
    \A d \in Docs :
        NeverQueued(d) =>
            /\ docs[d].status \in {"ABSENT", "QUARANTINED"}
            /\ docs[d].status = "QUARANTINED" \/ upload[d] = "stored" =>
                  <<"quarantine", d>> \in store

\* Passages are cut from a normalized text that stays.
TextKept ==
    /\ \A d \in Docs : docs[d].status = "CHUNKED" => <<"normalized", d>> \in store
    /\ \A w \in Workers :
          WorkerStage[w] = "CHUNK" /\ task[w].pc \in TextOpen =>
              <<"normalized", DocOf(w)>> \in store

StrandInv == ScanNotCompleted /\ ScanDecides /\ CompletedDecided /\ UploadKept /\ TextKept

\* What a step of the queue does to a job's status, and to who works on what.
LEMMA QueueMoves ==
    ASSUME QueueTypeOK, ClaimsDistinct, [QueueNext]_queueVars
    PROVE  /\ \A j \in Jobs : jobs[j].status # "ABSENT" => jobs'[j].status # "ABSENT"
           /\ \A j \in Jobs :
                 jobs'[j].status = "COMPLETED" =>
                    \/ jobs[j].status = "COMPLETED"
                    \/ \E w \in Workers : mark_job_completed(w) /\ workers[w].job = j
           /\ \A v \in Workers :
                 workers'[v].pc # "idle" =>
                    \/ workers[v].pc # "idle" /\ workers'[v].job = workers[v].job
                    \/ \E j \in Jobs : /\ workers'[v].job = j /\ jobs'[j].status = "RUNNING"
<1>1. /\ jobs \in [Jobs -> JobRows] /\ workers \in [Workers -> WorkerStates]
      /\ \A v \in Workers : workers[v].pc # "idle" => workers[v].job \in Jobs
  BY DEF QueueTypeOK, WorkerStates
<1>2. ASSUME NEW j \in Jobs, AddJob(j) \/ ExpireLease(j)
      PROVE  /\ workers' = workers
             /\ \A i \in Jobs : \/ jobs'[i].status = jobs[i].status
                               \/ jobs'[i].status = "PENDING"
  <2>1. CASE AddJob(j)
    BY <1>1, <2>1, NewRows DEF AddJob
  <2>2. CASE ExpireLease(j)
    BY <1>1, <2>2, RowEdits DEF ExpireLease
  <2> QED
    BY <1>2, <2>1, <2>2
<1>3. ASSUME NEW J \in SUBSET Jobs, CancelPending(J)
      PROVE  /\ workers' = workers
             /\ \A i \in Jobs : jobs'[i].status \in {jobs[i].status, "FAILED"}
  BY <1>1, <1>3 DEF CancelPending, Cancelled, JobRows
<1>4. ASSUME NEW w \in Workers, NEW j \in Jobs, pick_job(w, j)
      PROVE  /\ \A i \in Jobs : jobs'[i].status \in {jobs[i].status, "RUNNING"}
             /\ jobs'[j].status = "RUNNING" /\ workers'[w].job = j
             /\ \A v \in Workers \ {w} : workers'[v] = workers[v]
  BY <1>1, <1>4 DEF pick_job, Claimed, Claiming, JobRows, WorkerStates
<1>5. ASSUME NEW w \in Workers, renew_once(w)
      PROVE  workers' = workers /\ \A i \in Jobs : jobs'[i].status = jobs[i].status
  BY <1>1, <1>5 DEF renew_once, Renewed, JobRows
<1>6. ASSUME NEW w \in Workers, reap_stuck_jobs(w)
      PROVE  /\ workers' = workers
             /\ \A i \in Jobs : jobs'[i].status \in {jobs[i].status, "FAILED", "PENDING"}
  BY <1>1, <1>6 DEF reap_stuck_jobs, Reaped, Abandoned, Requeued, JobRows
<1>7. ASSUME NEW w \in Workers, NEW o, process_job_ends(w, o) \/ complete_raises(w)
      PROVE  /\ jobs' = jobs /\ workers'[w].job = workers[w].job /\ workers[w].pc # "idle"
             /\ \A v \in Workers \ {w} : workers'[v] = workers[v]
  BY <1>1, <1>7 DEF process_job_ends, complete_raises, Ended, WorkerStates
<1>8. ASSUME NEW w \in Workers, Crash(w) \/ WriteOutcome(w)
      PROVE  /\ workers[w].pc # "idle" /\ workers'[w].pc = "idle"
             /\ \A v \in Workers \ {w} : workers'[v] = workers[v]
  BY <1>1, <1>8 DEF Crash, WriteOutcome, mark_job_completed, handle_job_retry_or_fail,
     mark_job_failed, IdleWorker
<1>9. ASSUME NEW w \in Workers, handle_job_retry_or_fail(w) \/ mark_job_failed(w)
      PROVE  \A i \in Jobs : jobs'[i].status \in {jobs[i].status, "FAILED", "PENDING"}
  BY <1>1, <1>8, <1>9, RowEdits DEF WriteOutcome, handle_job_retry_or_fail, mark_job_failed
<1>10. ASSUME NEW w \in Workers, mark_job_completed(w)
       PROVE  \A i \in Jobs : \/ jobs'[i].status = jobs[i].status
                              \/ workers[w].job = i /\ jobs'[i].status = "COMPLETED"
  BY <1>1, <1>10 DEF mark_job_completed, Completed, JobRows
<1>11. ASSUME NEW w \in Workers, Crash(w) PROVE jobs' = jobs
  BY <1>11 DEF Crash
<1>12. CASE UNCHANGED queueVars
  BY <1>12 DEF queueVars
<1>13. CASE \E j \in Jobs : AddJob(j) \/ ExpireLease(j)
  BY <1>2, <1>13
<1>14. CASE \E J \in SUBSET Jobs : CancelPending(J)
  BY <1>3, <1>14
<1>15. CASE \E w \in Workers, j \in Jobs : pick_job(w, j)
  BY <1>4, <1>15
<1>16. CASE \E w \in Workers : renew_once(w) \/ reap_stuck_jobs(w)
  BY <1>5, <1>6, <1>16
<1>17. CASE \E w \in Workers :
              complete_raises(w) \/ \E o \in Outcomes : process_job_ends(w, o)
  BY <1>7, <1>17
<1>18. CASE \E w \in Workers : Crash(w) \/ handle_job_retry_or_fail(w) \/ mark_job_failed(w)
  BY <1>8, <1>9, <1>11, <1>18 DEF WriteOutcome
<1>19. CASE \E w \in Workers : mark_job_completed(w)
  BY <1>8, <1>10, <1>19 DEF WriteOutcome
<1> QED
  BY <1>12, <1>13, <1>14, <1>15, <1>16, <1>17, <1>18, <1>19 DEF QueueNext

\* The step leaves the status of the document and its quarantined bytes alone.
Spares(e) ==
    /\ docs'[e].status = docs[e].status
    /\ <<"quarantine", e>> \in store => <<"quarantine", e>> \in store'
    /\ upload'[e] = "stored" => upload[e] = "stored" \/ <<"quarantine", e>> \in store'

\* A SCAN step drops no bytes but those of its own document.
LEMMA ScanStores ==
    ASSUME NEW w \in Workers, ScanNext(w), NEW e \in Docs \ {DocOf(w)}
    PROVE  <<"quarantine", e>> \in store => <<"quarantine", e>> \in store'
<1>1. CASE delete_object(<<"quarantine", DocOf(w)>>)
  BY <1>1 DEF delete_object
<1>2. CASE scan_promote(w)
  BY <1>2 DEF scan_promote, Copied
<1>3. CASE store' = store
  BY <1>3
<1> QED
  BY <1>1, <1>2, <1>3 DEF ScanNext, scan_load, scan_read, scan_read_fails, scan_reject,
     scan_reject_audit, scan_reject_delete, scan_dedup, scan_tier_audit, scan_duplicate,
     scan_dup_delete, scan_dup_audit, scan_promote_fails, scan_clear, scan_validated,
     scan_race_lost, scan_race_escalate, scan_race_tier_audit, scan_race_audit,
     scan_promoted_audit, scan_enqueue, loads, commits, audits, enqueues, corpusVars

\* A text handler at work stays with its text or takes up one that is there.
TextGoesOn(v) ==
    WorkerStage[v] = "CHUNK" /\ task'[v].pc \in TextOpen =>
        /\ DocOf(v)' = DocOf(v) /\ DocOf(v) \in Docs
        /\ task[v].pc \in TextOpen \/ docs[DocOf(v)].status = "AWAITING_CLASSIFICATION"

\* What a step of the pipeline may do to one document.
LEMMA StepEffects ==
    ASSUME Deletes = {}, "reset" \notin Backfills, QueueTypeOK, TypeOK, KeptInv, UploadInv,
           [Next]_vars
    PROVE  /\ Grows
           /\ \A v \in Workers : TextGoesOn(v)
           /\ \A e \in Docs :
                 \/ Spares(e)
                 \/ \E w \in Workers : ScanNext(w) /\ DocOf(w) = e
                 \/ \E w \in Workers :
                       /\ TextNext(w) /\ DocOf(w) = e /\ task[w].pc \in TextOpen
                       /\ docs'[e].status \notin {"ABSENT", "QUARANTINED", "VALIDATION_FAILED"}
                       /\ docs'[e].status = "CHUNKED" => WorkerStage[w] = "CHUNK"
                 \/ /\ upload[e] = "stored" /\ upload'[e] = "created" /\ store' = store
                    /\ docs'[e].status = "QUARANTINED"
<1>1. ASSUME UNCHANGED <<corpusVars, upload>>, \A v \in Workers : Undisturbed(v)
      PROVE  /\ Grows /\ \A v \in Workers : TextGoesOn(v)
             /\ \A e \in Docs : Spares(e)
  <2>1. Grows /\ \A e \in Docs : Spares(e)
    BY <1>1 DEF corpusVars, Grows, Spares
  <2>2. ASSUME NEW v \in Workers, task'[v].pc \in TextOpen
        PROVE  DocOf(v)' = DocOf(v) /\ DocOf(v) \in Docs /\ task[v].pc \in TextOpen
    <3>1. task'[v] = task[v] /\ workers'[v] = workers[v] /\ workers[v].pc = "processing"
      BY <1>1, <2>2 DEF Undisturbed, TextOpen, Loaded, TextPcs
    <3> QED
      BY <2>2, <3>1, HasDocument DEF DocOf
  <2> QED
    BY <2>1, <2>2 DEF TextGoesOn
<1>2. ASSUME UNCHANGED <<task, workers>>
      PROVE  \A v \in Workers : Undisturbed(v) /\ TextGoesOn(v)
  BY <1>2, HasDocument
     DEF Undisturbed, TextGoesOn, DocOf, TypeOK, TaskFits, Loaded, ScanPcs, TextPcs, TextOpen
<1>3. ASSUME NEW w \in Workers, ScanNext(w) \/ TextNext(w), UNCHANGED apiVars
      PROVE  /\ workers' = workers /\ workers[w].pc = "processing" /\ upload' = upload
             /\ \A v \in Workers \ {w} : task'[v] = task[v]
             /\ \A v \in Workers : DocOf(v)' = DocOf(v)
             /\ \A v \in Workers : task[v].pc \in TextOpen => DocOf(v) \in Docs
             /\ Grows /\ DocOf(w) \in Docs
  BY <1>3, HandlerFrame, HandlerGrows, HasDocument DEF DocOf, apiVars, TypeOK, TaskFits, TextOpen
<1>4. ASSUME NEW w \in Workers, ScanNext(w), UNCHANGED apiVars
      PROVE  /\ \A v \in Workers : TextGoesOn(v)
             /\ \A e \in Docs \ {DocOf(w)} : Spares(e)
  <2>1. WorkerStage[w] # "CHUNK"
    BY <1>4, ScanMoves
  <2>2. \A v \in Workers : TextGoesOn(v)
    BY <1>3, <1>4, <2>1 DEF TextGoesOn
  <2>3. \A e \in Docs \ {DocOf(w)} : Spares(e)
    BY <1>3, <1>4, ScanMoves, ScanStores DEF Spares
  <2> QED
    BY <2>2, <2>3
<1>5. ASSUME NEW w \in Workers, TextNext(w), UNCHANGED apiVars
      PROVE  /\ \A v \in Workers : TextGoesOn(v)
             /\ \A e \in Docs :
                   \/ Spares(e)
                   \/ /\ DocOf(w) = e /\ task[w].pc \in TextOpen
                      /\ docs'[e].status \notin {"ABSENT", "QUARANTINED", "VALIDATION_FAILED"}
                      /\ docs'[e].status = "CHUNKED" => WorkerStage[w] = "CHUNK"
  <2>1. PICK d \in Docs : d = DocOf(w)
    BY <1>3, <1>5
  <2>2. \A e \in Docs : <<"quarantine", e>> \in store => <<"quarantine", e>> \in store'
    BY <1>5, TextStores
  <2>3. \A e \in Docs \ {d} : Spares(e)
    <3>1. \A e \in Docs \ {d} : docs'[e] = docs[e]
      BY <1>5, <2>1, TextMoves
    <3> QED
      BY <1>3, <1>5, <2>2, <3>1 DEF Spares
  <2>4. \/ Spares(d)
        \/ /\ task[w].pc \in TextOpen
           /\ docs'[d].status \notin {"ABSENT", "QUARANTINED", "VALIDATION_FAILED"}
           /\ docs'[d].status = "CHUNKED" => WorkerStage[w] = "CHUNK"
    BY <1>3, <1>5, <2>1, <2>2, TextMoves
       DEF Spares, DoneStatus, FailStatus, TextStageNames
  <2>5. \A v \in Workers : TextGoesOn(v)
    BY <1>3, <1>5, <2>1, TextMoves DEF TextGoesOn, EntryStatus
  <2> QED
    BY <2>1, <2>3, <2>4, <2>5
<1>6. ASSUME NEW d \in Docs,
             Receives(d) \/ Deleted(d) \/ Erases(d) \/ RequestDies(d) \/ Backfilled(d)
      PROVE  /\ Grows /\ \A v \in Workers : TextGoesOn(v)
             /\ \A e \in Docs :
                   \/ Spares(e)
                   \/ /\ upload[e] = "stored" /\ upload'[e] = "created" /\ store' = store
                      /\ docs'[e].status = "QUARANTINED"
  <2>1. ~Deleted(d) /\ ~Erases(d) /\ ~erase_dies(d)
    BY NoDeletes
  <2>2. /\ UNCHANGED <<task, workers, chunks>> /\ docs \in [Docs -> DocRows]
        /\ upload \in [Docs -> UploadStates]
        /\ store' = store \/ store' = store \cup {<<"quarantine", d>>}
    BY <1>6, <2>1, RequestsFrame DEF Receives, receive_put, receive_create, receive_enqueue,
       receive_audit, RequestDies, receive_dies, Backfilled, backfill, corpusVars, apiVars, TypeOK
  <2>3. Grows /\ \A v \in Workers : TextGoesOn(v)
    BY <1>2, <2>2 DEF Grows
  <2>4. CASE receive_create(d)
    <3>1. /\ upload[d] = "stored" /\ upload' = [upload EXCEPT ![d] = "created"]
          /\ store' = store /\ docs'[d].status = "QUARANTINED"
          /\ \A e \in Docs \ {d} : docs'[e] = docs[e]
      BY <2>2, <2>4 DEF receive_create, UploadStep, DocRows
    <3> QED
      BY <2>2, <2>3, <3>1 DEF Spares
  <2>5. CASE receive_put(d)
    <3>1. /\ upload' = [upload EXCEPT ![d] = "stored"] /\ docs' = docs
          /\ store' = store \cup {<<"quarantine", d>>}
      BY <2>5 DEF receive_put, UploadStep
    <3> QED
      BY <2>2, <2>3, <3>1 DEF Spares
  <2>6. CASE receive_enqueue(d) \/ receive_audit(d) \/ receive_dies(d) \/ Backfilled(d)
    <3>1. ASSUME Backfilled(d) PROVE docs' = docs
      BY <2>2, <3>1 DEF Backfilled, backfill
    <3>2. docs' = docs /\ store' = store
      BY <2>6, <3>1 DEF receive_enqueue, receive_audit, receive_dies, Backfilled, backfill,
         corpusVars
    <3>3. \A e \in Docs : upload'[e] = "stored" => upload[e] = "stored"
      BY <2>2, <2>6 DEF receive_enqueue, receive_audit, receive_dies, Backfilled, backfill,
         UploadStep, apiVars
    <3> QED
      BY <2>3, <3>2, <3>3 DEF Spares
  <2> QED
    BY <1>6, <2>1, <2>3, <2>4, <2>5, <2>6 DEF Receives, RequestDies
<1>7. CASE UNCHANGED vars
  BY <1>1, <1>2, <1>7 DEF vars, corpusVars
<1>8. ASSUME NEW j \in Jobs, LeaseRunsOut(j)
      PROVE  UNCHANGED <<corpusVars, upload, task, workers>>
  BY <1>8 DEF LeaseRunsOut, ExpireLease, apiVars
<1>9. CASE \E j \in Jobs : LeaseRunsOut(j)
  BY <1>1, <1>2, <1>8, <1>9
<1>10. CASE \E d \in Docs :
              Receives(d) \/ Deleted(d) \/ Erases(d) \/ RequestDies(d) \/ Backfilled(d)
  BY <1>6, <1>10
<1>11. ASSUME NEW w \in Workers,
              \/ Claims(w) \/ Renews(w) \/ Reaps(w) \/ Writes(w) \/ CompletionFails(w)
              \/ WorkerDies(w) \/ (Handles(w) /\ returns(w)) \/ Aborts(w)
       PROVE  UNCHANGED <<corpusVars, upload>> /\ \A v \in Workers : Undisturbed(v)
  BY <1>11, QueueSteps DEF apiVars
<1>12. CASE \E w \in Workers : Handles(w) /\ ScanNext(w)
  BY <1>3, <1>4, <1>12 DEF Handles
<1>13. CASE \E w \in Workers : Handles(w) /\ TextNext(w)
  BY <1>3, <1>5, <1>13 DEF Handles
<1>14. CASE \E w \in Workers :
              \/ Claims(w) \/ Renews(w) \/ Reaps(w) \/ Writes(w) \/ CompletionFails(w)
              \/ WorkerDies(w) \/ (Handles(w) /\ returns(w)) \/ Aborts(w)
  BY <1>1, <1>11, <1>14
<1>15. Next => \/ \E w \in Workers : Handles(w) /\ ScanNext(w)
               \/ \E w \in Workers : Handles(w) /\ TextNext(w)
               \/ \E w \in Workers :
                     \/ Claims(w) \/ Renews(w) \/ Reaps(w) \/ Writes(w) \/ CompletionFails(w)
                     \/ WorkerDies(w) \/ (Handles(w) /\ returns(w)) \/ Aborts(w)
               \/ \E j \in Jobs : LeaseRunsOut(j)
               \/ \E d \in Docs :
                     Receives(d) \/ Deleted(d) \/ Erases(d) \/ RequestDies(d) \/ Backfilled(d)
  BY DEF Next, Handles
<1> QED
  BY <1>7, <1>9, <1>10, <1>12, <1>13, <1>14, <1>15

\* The scan of a document whose fate was written, or is being scanned, stays decided.
LEMMA StaysDecided ==
    ASSUME Deletes = {}, "reset" \notin Backfills, QueueTypeOK, TypeOK, KeptInv, UploadInv,
           ClaimsDistinct, [Next]_vars, NEW e \in Docs, ~ScanOpen(e), ~NeverQueued(e)
    PROVE  \/ ~ScanOpen(e)'
           \/ \E w \in Workers :
                 /\ ScanNext(w) /\ DocOf(w) = e /\ workers[w].pc = "processing"
                 /\ WorkerStage[w] = "SCAN" /\ task[w].pc \notin ScanClosing
<1>1. upload[e] # "stored"
  BY DEF NeverQueued, UploadInv, OneScanJob
<1>2. ASSUME NEW w \in Workers, ScanNext(w), DocOf(w) = e
      PROVE  \/ ~ScanOpen(e)'
             \/ /\ workers[w].pc = "processing"
                /\ WorkerStage[w] = "SCAN" /\ task[w].pc \notin ScanClosing
  BY <1>2, ScanMoves, HandlerFrame DEF ScanOpen
<1> QED
  BY <1>1, <1>2, StepEffects DEF Spares, ScanOpen

\* Only its own steps bring a SCAN handler past its decision.
LEMMA OverBefore ==
    ASSUME QueueTypeOK, TypeOK, TypeOK', [Next]_vars,
           NEW v \in Workers, WorkerStage[v] = "SCAN", ScanOver(v)'
    PROVE  /\ workers[v].pc # "idle" /\ DocOf(v)' = DocOf(v)
           /\ \/ ScanOver(v) /\ ~ScanNext(v)
              \/ ScanNext(v) /\ task'[v].pc \in ScanClosing
<1>1. CASE ScanNext(v)
  BY <1>1, HandlerFrame DEF ScanOver, DocOf
<1>2. ASSUME ~ScanNext(v) PROVE ScanOver(v) /\ DocOf(v)' = DocOf(v)
  <2>1. CASE workers'[v] = workers[v] /\ task'[v] = task[v]
    BY <2>1 DEF ScanOver, DocOf
  <2>2. CASE workers' = workers /\ task' = task
    BY <2>1, <2>2
  <2>3. ASSUME NEW w \in Workers, ScanNext(w) \/ TextNext(w)
        PROVE  workers'[v] = workers[v] /\ task'[v] = task[v]
    BY <1>2, <2>3, HandlerFrame, TextMoves DEF TextStageNames
  <2>4. ASSUME \/ Claims(v) \/ Renews(v) \/ Reaps(v) \/ Writes(v) \/ CompletionFails(v)
               \/ WorkerDies(v) \/ (Handles(v) /\ returns(v)) \/ Aborts(v)
        PROVE  ScanOver(v) /\ DocOf(v)' = DocOf(v)
    <3>1. /\ task \in [Workers -> TaskStates] /\ workers \in [Workers -> WorkerStates]
          /\ task[v].pc = "start" \/ workers[v].pc = "processing"
          /\ "transient" \notin ScanClosing /\ "start" \notin ScanClosing
      BY DEF TypeOK, QueueTypeOK, TaskFits, ScanClosing
    <3>2. CASE Renews(v) \/ Reaps(v)
      BY <2>2, <3>2 DEF Renews, renew_once, Reaps, reap_stuck_jobs
    <3>3. CASE Claims(v)
      BY <3>1, <3>3 DEF Claims, pick_job, Claiming, ScanOver
    <3>4. CASE Writes(v) \/ WorkerDies(v)
      BY <3>1, <3>4 DEF Writes, WriteOutcome, mark_job_completed, handle_job_retry_or_fail,
         mark_job_failed, WorkerDies, Crash, IdleWorker, ScanOver
    <3>5. CASE CompletionFails(v)
      BY <3>1, <3>5 DEF CompletionFails, complete_raises, Ended, ScanOver, WorkerStates
    <3>6. CASE returns(v)
      BY <3>1, <3>6 DEF returns, process_job_ends, Ended, ScanOver, WorkerStates, DocOf, ScanClosing
    <3>7. CASE Aborts(v)
      BY <3>1, <3>7 DEF Aborts, aborts, Goto, ScanOver, TaskStates, queueVars
    <3> QED
      BY <2>4, <3>2, <3>3, <3>4, <3>5, <3>6, <3>7
  <2>5. ASSUME NEW w \in Workers,
               \/ Claims(w) \/ Renews(w) \/ Reaps(w) \/ Writes(w) \/ CompletionFails(w)
               \/ WorkerDies(w) \/ Handles(w) \/ Aborts(w)
        PROVE  ScanOver(v) /\ DocOf(v)' = DocOf(v)
    <3>1. CASE ScanNext(w) \/ TextNext(w)
      BY <2>1, <2>3, <3>1
    <3>2. CASE ~(ScanNext(w) \/ TextNext(w))
      BY <2>1, <2>4, <2>5, <3>2, OthersKeep DEF Handles
    <3> QED
      BY <3>1, <3>2
  <2>6. ASSUME NEW d \in Docs,
               Receives(d) \/ Deleted(d) \/ Erases(d) \/ RequestDies(d) \/ Backfilled(d)
        PROVE  workers' = workers /\ task' = task
    BY <2>6, RequestsFrame
  <2> QED
    BY <2>2, <2>5, <2>6 DEF Next, LeaseRunsOut, ExpireLease, vars
<1>3. ScanOver(v) => workers[v].pc # "idle"
  BY DEF ScanOver
<1>4. ScanNext(v) => workers[v].pc # "idle"
  BY HandlerFrame
<1> QED
  BY <1>1, <1>2, <1>3, <1>4

\* The inductive step.
LEMMA StrandStep ==
    ASSUME Deletes = {}, "reset" \notin Backfills
    PROVE  /\ QueueTypeOK /\ TypeOK /\ TypeOK' /\ KeptInv /\ UploadInv /\ ScanSolo
           /\ ClaimsDistinct /\ StrandInv /\ [Next]_vars
           => StrandInv'
<1> SUFFICES ASSUME QueueTypeOK, TypeOK, TypeOK', KeptInv, UploadInv, ScanSolo, ClaimsDistinct,
                    StrandInv, [Next]_vars
             PROVE  StrandInv'
  OBVIOUS
<1>1. [QueueNext]_queueVars
  BY StepOfQueue
<1>2. ASSUME NEW v \in Workers, workers[v].pc # "idle"
      PROVE  /\ workers[v].job \in Jobs /\ jobs[workers[v].job].status # "ABSENT"
             /\ JobStage[workers[v].job] = WorkerStage[v]
             /\ DocOf(v) \in Docs
             /\ WorkerStage[v] = "SCAN" => ~NeverQueued(DocOf(v))
  BY <1>2, HasDocument DEF ClaimsDistinct, TypeOK, TaskFits, NeverQueued, DocOf
<1>3. ASSUME NEW v \in Workers, WorkerStage[v] = "SCAN", ScanOver(v)'
      PROVE  /\ workers[v].pc # "idle" /\ DocOf(v)' = DocOf(v)
             /\ \/ ScanOver(v) /\ ~ScanNext(v)
                \/ ScanNext(v) /\ task'[v].pc \in ScanClosing
  BY <1>3, OverBefore
<1>4. ScanNotCompleted'
  <2> SUFFICES ASSUME NEW v \in Workers, workers'[v].pc # "idle", WorkerStage[v] = "SCAN"
               PROVE  jobs'[workers'[v].job].status # "COMPLETED"
    BY DEF ScanNotCompleted
  <2>1. CASE workers[v].pc # "idle" /\ workers'[v].job = workers[v].job
    <3>1. PICK j \in Jobs : j = workers[v].job
      BY <1>2, <2>1
    <3>2. jobs[j].status # "COMPLETED"
      BY <2>1, <3>1 DEF StrandInv, ScanNotCompleted
    <3>3. ASSUME NEW w \in Workers, mark_job_completed(w), workers[w].job = j PROVE FALSE
      <4>1. workers[w].pc # "idle" /\ workers'[w].pc = "idle"
        BY <3>3 DEF mark_job_completed, QueueTypeOK, IdleWorker
      <4>2. WorkerStage[w] = "SCAN" /\ DocOf(w) = DocOf(v)
        BY <1>2, <2>1, <3>1, <3>3, <4>1 DEF DocOf
      <4>3. w = v
        BY <2>1, <4>1, <4>2 DEF ScanSolo
      <4> QED
        BY <4>1, <4>3
    <3> QED
      BY <1>1, <2>1, <3>1, <3>2, <3>3, QueueMoves
  <2> QED
    BY <1>1, <2>1, QueueMoves
<1>5. ScanDecides'
  <2> SUFFICES ASSUME NEW v \in Workers, WorkerStage[v] = "SCAN", ScanOver(v)'
               PROVE  ~ScanOpen(DocOf(v))'
    BY DEF ScanDecides
  <2>1. /\ workers[v].pc # "idle" /\ DocOf(v)' = DocOf(v)
        /\ \/ ScanOver(v) /\ ~ScanNext(v)
           \/ ScanNext(v) /\ task'[v].pc \in ScanClosing
    BY <1>3
  <2>2. PICK e \in Docs : e = DocOf(v) /\ e = DocOf(v)' /\ ~NeverQueued(e)
    BY <1>2, <2>1
  <2>3. CASE ScanNext(v) /\ task'[v].pc \in ScanClosing
    <3>1. task[v].pc \in ScanClosing => ~ScanOpen(e)
      BY <2>2, <2>3, HandlerFrame DEF StrandInv, ScanDecides, ScanOver
    <3>2. ~ScanOpen(e)'
      BY <2>2, <2>3, <3>1, ScanMoves DEF ScanOpen
    <3> QED
      BY <2>2, <3>2 DEF ScanOpen
  <2>4. CASE ScanOver(v) /\ ~ScanNext(v)
    <3>1. ~ScanOpen(e)
      BY <2>2, <2>4 DEF StrandInv, ScanDecides
    <3>2. ASSUME NEW w \in Workers, DocOf(w) = e, workers[w].pc = "processing",
                 WorkerStage[w] = "SCAN"
          PROVE  w = v
      BY <2>1, <2>2, <3>2 DEF ScanSolo
    <3>3. ~ScanOpen(e)'
      BY <2>2, <2>4, <3>1, <3>2, StaysDecided
    <3> QED
      BY <2>2, <3>3 DEF ScanOpen
  <2> QED
    BY <2>1, <2>3, <2>4
<1>6. CompletedDecided'
  <2> SUFFICES ASSUME NEW j \in Jobs, JobStage[j] = "SCAN", jobs'[j].status = "COMPLETED"
               PROVE  ~ScanOpen(JobDoc[j])'
    BY DEF CompletedDecided
  <2>1. PICK e \in Docs : e = JobDoc[j]
    BY CorpusAssumption
  <2>2. CASE jobs[j].status = "COMPLETED"
    <3>1. ~ScanOpen(e) /\ ~NeverQueued(e)
      BY <2>1, <2>2 DEF StrandInv, CompletedDecided, NeverQueued
    <3>2. ASSUME NEW w \in Workers, DocOf(w) = e, workers[w].pc = "processing",
                 WorkerStage[w] = "SCAN"
          PROVE  FALSE
      <4>1. workers[w].job = j
        BY <1>2, <2>1, <2>2, <3>2 DEF UploadInv, OneScanJob, DocOf
      <4> QED
        BY <2>2, <3>2, <4>1 DEF StrandInv, ScanNotCompleted
    <3> QED
      BY <2>1, <3>1, <3>2, StaysDecided DEF ScanOpen
  <2>3. ASSUME NEW v \in Workers, mark_job_completed(v), workers[v].job = j
        PROVE  ~ScanOpen(e)'
    <3>1. /\ ScanOver(v) /\ DocOf(v) = e /\ workers[v].pc = "finishing"
          /\ WorkerStage[v] = "SCAN"
      BY <1>2, <2>1, <2>3 DEF mark_job_completed, ScanOver, DocOf
    <3>2. ~ScanOpen(e) /\ ~NeverQueued(e)
      BY <1>2, <3>1 DEF StrandInv, ScanDecides
    <3>3. ASSUME NEW w \in Workers, DocOf(w) = e, workers[w].pc = "processing",
                 WorkerStage[w] = "SCAN"
          PROVE  FALSE
      BY <3>1, <3>3 DEF ScanSolo
    <3> QED
      BY <3>2, <3>3, StaysDecided
  <2> QED
    BY <1>1, <2>1, <2>2, <2>3, QueueMoves DEF ScanOpen
<1>7. UploadKept'
  <2> SUFFICES ASSUME NEW e \in Docs, NeverQueued(e)'
               PROVE  /\ docs'[e].status \in {"ABSENT", "QUARANTINED"}
                      /\ docs'[e].status = "QUARANTINED" \/ upload'[e] = "stored" =>
                            <<"quarantine", e>> \in store'
    BY DEF UploadKept
  <2>1. NeverQueued(e)
    BY <1>1, QueueMoves DEF NeverQueued
  <2>2. ASSUME NEW w \in Workers, ScanNext(w), DocOf(w) = e PROVE FALSE
    BY <1>2, <2>1, <2>2, HandlerFrame, ScanMoves
  <2>3. ASSUME NEW w \in Workers, TextNext(w), DocOf(w) = e, task[w].pc \in TextOpen
        PROVE  FALSE
    BY <2>1, <2>3, TextMoves DEF UploadInv, TextPastUpload, StrandInv, UploadKept
  <2> QED
    BY <2>1, <2>2, <2>3, StepEffects DEF StrandInv, UploadKept, Spares
<1>8. TextKept'
  <2>1. ASSUME NEW e \in Docs, docs'[e].status = "CHUNKED"
        PROVE  <<"normalized", e>> \in store'
    <3>1. CASE docs[e].status = "CHUNKED"
      BY <3>1, StepEffects DEF StrandInv, TextKept, Grows
    <3>2. ASSUME NEW w \in Workers, DocOf(w) = e, task[w].pc \in TextOpen,
                 WorkerStage[w] = "CHUNK"
          PROVE  <<"normalized", e>> \in store'
      BY <3>2, StepEffects DEF StrandInv, TextKept, Grows
    <3>3. ASSUME NEW w \in Workers, ScanNext(w), DocOf(w) = e
          PROVE  docs[e].status = "CHUNKED"
      BY <2>1, <3>3, ScanMoves
    <3> QED
      BY <2>1, <3>1, <3>2, <3>3, StepEffects DEF Spares
  <2>2. ASSUME NEW v \in Workers, WorkerStage[v] = "CHUNK", task'[v].pc \in TextOpen
        PROVE  (<<"normalized", DocOf(v)>> \in store)'
    <3>1. /\ DocOf(v)' = DocOf(v) /\ DocOf(v) \in Docs
          /\ task[v].pc \in TextOpen \/ docs[DocOf(v)].status = "AWAITING_CLASSIFICATION"
      BY <2>2, StepEffects DEF TextGoesOn
    <3>2. <<"normalized", DocOf(v)>> \in store
      BY <2>2, <3>1 DEF StrandInv, TextKept, KeptInv, Present
    <3> QED
      BY <3>1, <3>2, StepEffects DEF Grows
  <2> QED
    BY <2>1, <2>2 DEF TextKept
<1> QED
  BY <1>4, <1>5, <1>6, <1>7, <1>8 DEF StrandInv

\* Every stranded document keeps what it needs.
LEMMA StrandHolds ==
    ASSUME Deletes = {}, OneScanner \/ "SCAN" \notin LeaseLoss,
           "SCAN" \notin BackfillStages, "reset" \notin Backfills
    PROVE  Spec => []StrandInv
<1>1. Init => StrandInv
  <2> SUFFICES ASSUME Init PROVE StrandInv
    OBVIOUS
  <2>1. /\ \A d \in Docs : docs[d].status = "ABSENT" /\ upload[d] = "none"
        /\ \A w \in Workers : task[w].pc = "start" /\ workers[w].pc = "idle"
        /\ \A j \in Jobs : jobs[j].status = "ABSENT"
    BY NewRows DEF Init, CorpusInit, NoDoc, TaskInit, NoTask, QueueInit, IdleWorker, ApiInit
  <2> QED
    BY <2>1, CorpusAssumption DEF StrandInv, ScanNotCompleted, ScanDecides, CompletedDecided,
       UploadKept, TextKept, ScanOver, ScanOpen, TextOpen
<1>2. /\ QueueTypeOK /\ TypeOK /\ TypeOK' /\ KeptInv /\ UploadInv /\ ScanSolo
      /\ ClaimsDistinct /\ StrandInv /\ [Next]_vars
      => StrandInv'
  BY StrandStep
<1>3. Spec => []ClaimsDistinct
  <2>1. StaleInv => ClaimsDistinct
    BY DEF StaleInv
  <2> QED
    BY <2>1, PipelineImplementsQueue, ClaimsAccounted, PTL
<1> QED
  BY <1>1, <1>2, <1>3, KeptHolds, ScannedAlone, PipelineTypeCorrect, PTL DEF Spec

\* Whatever dies between the commit of a status and that of the next job, a crash, a
\* database or storage fault or an upload cut short, the document that is left behind with
\* no job stands in the entry status of a stage whose input is there, so that the operator's
\* backfill_jobs.py can put it back on its way; unless one of its jobs FAILED for all to see.
THEOREM StrandedIsRecoverableHolds ==
    ASSUME Deletes = {}, OneScanner \/ "SCAN" \notin LeaseLoss,
           "SCAN" \notin BackfillStages, "reset" \notin Backfills
    PROVE  Spec => []StrandedIsRecoverable
<1>1. QueueTypeOK /\ TypeOK /\ KeptInv /\ StrandInv => StrandedIsRecoverable
  <2> SUFFICES ASSUME QueueTypeOK, TypeOK, KeptInv, StrandInv, NEW d \in Docs,
                      docs[d].status # "ABSENT", Quiet(d), ~Settled(d)
               PROVE  \E s \in DOMAIN STAGE_ENTRY_STATUS :
                         docs[d].status = STAGE_ENTRY_STATUS[s] /\ InputPresent(d, s)
    BY DEF StrandedIsRecoverable
  <2>1. docs[d].status \in {"QUARANTINED", "VALIDATION_FAILED", "VALIDATED", "EXTRACTED",
                            "AWAITING_CLASSIFICATION", "CHUNKED"}
    BY DEF Settled, TypeOK, DocRows, DocumentStatus, Inactive
  <2>2. \A j \in Jobs : JobDoc[j] = d => jobs[j].status \in {"ABSENT", "COMPLETED"}
    BY DEF Quiet, Settled, JobsOf, Done
  <2>3. ScanOpen(d) => docs[d].status = "QUARANTINED" /\ <<"quarantine", d>> \in store
    BY <2>2 DEF StrandInv, CompletedDecided, UploadKept, NeverQueued, ScanOpen
  <2>4. PICK s \in {"SCAN", "EXTRACT", "NORMALIZE", "CHUNK", "EMBED"} :
           docs[d].status = STAGE_ENTRY_STATUS[s]
    BY <2>1, <2>3 DEF ScanOpen, STAGE_ENTRY_STATUS
  <2>5. InputPresent(d, s)
    <3>1. docs[d].status = "VALIDATED" => <<"raw", docs[d].raw>> \in store
      BY DEF KeptInv, Present
    <3>2. docs[d].status = "EXTRACTED" => <<"extracted", d>> \in store
      BY DEF KeptInv, Present
    <3>3. docs[d].status = "AWAITING_CLASSIFICATION" => <<"normalized", d>> \in store
      BY DEF KeptInv, Present
    <3>4. docs[d].status = "CHUNKED" => <<"normalized", d>> \in store /\ chunks[d].present
      BY DEF KeptInv, Present, StrandInv, TextKept
    <3>5. docs[d].status = "QUARANTINED" => <<"quarantine", d>> \in store
      BY <2>3 DEF ScanOpen
    <3>6. CASE s = "SCAN"
      BY <2>4, <3>5, <3>6 DEF InputPresent, STAGE_ENTRY_STATUS
    <3>7. CASE s = "EXTRACT"
      BY <2>4, <3>1, <3>7 DEF InputPresent, STAGE_ENTRY_STATUS
    <3>8. CASE s = "NORMALIZE"
      BY <2>4, <3>2, <3>8 DEF InputPresent, STAGE_ENTRY_STATUS
    <3>9. CASE s = "CHUNK"
      BY <2>4, <3>3, <3>9 DEF InputPresent, STAGE_ENTRY_STATUS
    <3>10. CASE s = "EMBED"
      BY <2>4, <3>4, <3>10 DEF InputPresent, STAGE_ENTRY_STATUS
    <3> QED
      BY <2>4, <3>6, <3>7, <3>8, <3>9, <3>10
  <2> QED
    BY <2>4, <2>5 DEF STAGE_ENTRY_STATUS
<1>2. Spec => []KeptInv
  BY KeptHolds
<1>3. Spec => []StrandInv
  BY StrandHolds
<1> QED
  BY <1>1, <1>2, <1>3, PipelineTypeCorrect, PTL

(***************************************************************************)
(* What an erase leaves behind (TombstoneStays, ErasedNotSearchable).      *)
(***************************************************************************)

\* The places of a SCAN handler from which it may still look for copies by checksum.
Checksummed ==
    {"dedup", "tier_audit", "duplicate", "promote", "clear", "validated", "race_lost",
     "race_escalate"}

\* A document that nobody has cut into passages.
Uncut(d) == docs[d].status \in Inactive \cup {"QUARANTINED", "VALIDATION_FAILED"}

\* The request of d has stopped all work on it, or may find it stopped.
Uploaded(d) == upload[d] \in {"queued", "done", "dead"}

\* A recorded claim has stopped all work on the document, the passages go before the
\* tombstone is written, and what is purged along with another document is a duplicate,
\* which never had passages.
ErasedInOrder(d) ==
    /\ docs[d].purged =>
          /\ docs[d].sha = None /\ ~chunks[d].present
          /\ Quiet(d) \/ docs[d].status = "DUPLICATE"
    /\ docs[d].purged \/ erase[d].pc # "idle" => Uploaded(d)
    /\ erase[d].recorded => Quiet(d) /\ erase[d].pc # "idle"
    /\ erase[d].pc \in {"purge", "duplicates"} => erase[d].recorded /\ ~chunks[d].present
    /\ Uncut(d) => ~chunks[d].present

\* A SCAN handler that may still look for copies has taken the checksum.
HasChecksum(w) == task[w].pc \in Checksummed => task[w].doc.sha # None

EraseInv ==
    /\ \A d \in Docs : ErasedInOrder(d)
    /\ \A w \in Workers : HasChecksum(w)

\* Whoever is on a document has a RUNNING job.
LEMMA BusyOnIt ==
    ASSUME LeaseLoss = {}, QueueTypeOK, HeldInv, NEW w \in Workers, workers[w].pc # "idle"
    PROVE  ~Quiet(DocOf(w))
<1>1. workers[w].job \in Jobs /\ jobs[workers[w].job].status = "RUNNING"
  BY HasDocument DEF HeldInv
<1> QED
  BY <1>1 DEF Quiet, JobsOf, DocOf, Done

\* Once a document has been queued, nothing that is over for it starts anew.
LEMMA QuietStays ==
    ASSUME LeaseLoss = {}, BackfillStages = {}, QueueTypeOK, TypeOK, HeldInv,
           NEW d \in Docs, Quiet(d), Uploaded(d), [Next]_vars
    PROVE  Quiet(d)'
<1>0. jobs \in [Jobs -> JobRows] /\ workers \in [Workers -> WorkerStates] /\ TypeOK
  BY DEF QueueTypeOK
<1>1. \A w \in Workers : workers[w].pc # "idle" => DocOf(w) # d /\ workers[w].job \in Jobs
  BY BusyOnIt, HasDocument
<1>2. ASSUME \A j \in JobsOf(d) : jobs'[j].status \in {jobs[j].status, "FAILED"}
      PROVE  Quiet(d)'
  BY <1>2 DEF Quiet, JobsOf, Done
<1>3. ASSUME NEW j \in Jobs, AddJob(j), JobDoc[j] # d PROVE Quiet(d)'
  BY <1>0, <1>2, <1>3 DEF AddJob, JobsOf
<1>4. ASSUME NEW w \in Workers,
             \/ Claims(w) \/ Renews(w) \/ Reaps(w) \/ Writes(w) \/ CompletionFails(w)
             \/ WorkerDies(w) \/ (Handles(w) /\ returns(w)) \/ Aborts(w)
      PROVE  Quiet(d)'
  <2>1. CASE Claims(w)
    <3>1. PICK j \in Jobs : pick_job(w, j)
      BY <2>1 DEF Claims
    <3>2. j \notin JobsOf(d) /\ \A i \in Jobs \ {j} : jobs'[i] = jobs[i]
      BY <1>0, <3>1 DEF pick_job, Quiet, Done
    <3> QED
      BY <1>2, <3>2 DEF JobsOf
  <2>2. CASE Renews(w)
    <3>1. workers[w].job \notin JobsOf(d)
      BY <1>1, <2>2 DEF Renews, renew_once, JobsOf, DocOf
    <3> QED
      BY <1>0, <1>2, <2>2, <3>1 DEF Renews, renew_once, JobsOf
  <2>3. CASE Reaps(w)
    <3>1. \A j \in JobsOf(d) : jobs'[j] = jobs[j]
      BY <2>3 DEF Reaps, reap_stuck_jobs, Expired, Quiet, Done, JobsOf
    <3> QED
      BY <1>2, <3>1
  <2>4. CASE Writes(w)
    <3>1. workers[w].pc # "idle"
      BY <2>4 DEF Writes, WriteOutcome, mark_job_completed, handle_job_retry_or_fail,
         mark_job_failed
    <3>2. workers[w].job \notin JobsOf(d)
      BY <1>1, <3>1 DEF JobsOf, DocOf
    <3> QED
      BY <1>0, <1>2, <2>4, <3>2 DEF Writes, WriteOutcome, mark_job_completed,
         handle_job_retry_or_fail, mark_job_failed, JobsOf
  <2>5. CASE jobs' = jobs
    BY <1>2, <2>5
  <2> QED
    BY <1>4, <2>1, <2>2, <2>3, <2>4, <2>5 DEF CompletionFails, complete_raises, WorkerDies, Crash,
       returns, process_job_ends, Aborts, aborts, queueVars
<1>5. ASSUME NEW j \in Jobs, LeaseRunsOut(j) PROVE Quiet(d)'
  <2>1. j \notin JobsOf(d)
    BY <1>5 DEF LeaseRunsOut, ExpireLease, Quiet, Done
  <2> QED
    BY <1>0, <1>2, <1>5, <2>1 DEF LeaseRunsOut, ExpireLease, JobsOf
<1>6. ASSUME NEW w \in Workers, ScanNext(w) \/ TextNext(w) PROVE Quiet(d)'
  <2>1. DocOf(w) # d
    BY <1>1, <1>6, HandlerFrame
  <2>2. \/ jobs' = jobs
        \/ \E j \in Jobs : JobDoc[j] = DocOf(w) /\ AddJob(j)
    BY <1>6 DEF ScanNext, scan_load, scan_read, scan_read_fails, scan_reject, scan_reject_audit,
       scan_reject_delete, scan_dedup, scan_tier_audit, scan_duplicate, scan_dup_delete,
       scan_dup_audit, scan_promote, scan_promote_fails, scan_clear, scan_validated,
       scan_race_lost, scan_race_escalate, scan_race_tier_audit, scan_race_audit,
       scan_promoted_audit, scan_enqueue, loads, commits, audits, enqueues, TextNext,
       extract_process, normalize_process, chunk_process, embed_process, Common, stage_load,
       stage_read, stage_read_fails, stage_work, stage_work_fails, stage_put, stage_put_fails,
       stage_commit, stage_audit, stage_enqueue, stage_fail, stage_fail_audit, extract_no_raw,
       chunk_persist, embed_work, embed_store, embed_unsupported, embed_skip,
       embed_skip_audit, queueVars
  <2> QED
    BY <1>2, <1>3, <2>1, <2>2
<1>7. ASSUME NEW e \in Docs,
             Receives(e) \/ Deleted(e) \/ Erases(e) \/ RequestDies(e) \/ Backfilled(e)
      PROVE  Quiet(d)'
  <2>1. CASE Deleted(e) \/ Erases(e) \/ (RequestDies(e) /\ erase_dies(e))
    BY <1>2, <2>1, EraseMoves DEF JobsOf
  <2>2. CASE receive_enqueue(e)
    <3>1. PICK j \in Jobs : JobDoc[j] = e /\ AddJob(j)
      BY <2>2 DEF receive_enqueue, JobsOf
    <3>2. e # d
      BY <2>2 DEF receive_enqueue, UploadStep, Uploaded
    <3> QED
      BY <1>3, <3>1, <3>2
  <2>3. ~Backfilled(e)
    BY DEF Backfilled
  <2>4. CASE jobs' = jobs
    BY <1>2, <2>4
  <2> QED
    BY <1>7, <2>1, <2>2, <2>3, <2>4 DEF Receives, receive_put, receive_create, receive_audit,
       RequestDies, receive_dies, queueVars
<1>8. CASE UNCHANGED vars
  BY <1>2, <1>8 DEF vars
<1> QED
  BY <1>4, <1>5, <1>6, <1>7, <1>8 DEF Next, Handles

\* A SCAN step writes the row of its document before it closes, and may raise the tier of
\* a document with a checksum.
LEMMA ScanTouches ==
    ASSUME QueueTypeOK, TypeOK, EraseInv, NEW w \in Workers, ScanNext(w)
    PROVE  /\ chunks' = chunks
           /\ task'[w].pc \in Checksummed => task'[w].doc.sha # None
           /\ \A e \in Docs :
                 /\ docs'[e].purged = docs[e].purged
                 /\ \/ docs'[e] = docs[e]
                    \/ docs[e].sha # None
                    \/ e = DocOf(w) /\ task[w].pc \notin ScanClosing
<1>0. chunks' = chunks
  BY DEF ScanNext, scan_load, scan_read, scan_read_fails, scan_reject, scan_reject_audit,
     scan_reject_delete, scan_dedup, scan_tier_audit, scan_duplicate, scan_dup_delete,
     scan_dup_audit, scan_promote, scan_promote_fails, scan_clear, scan_validated,
     scan_race_lost, scan_race_escalate, scan_race_tier_audit, scan_race_audit,
     scan_promoted_audit, scan_enqueue, loads, commits, audits, enqueues, corpusVars
<1>1. PICK d \in Docs : d = DocOf(w)
  BY HandlerFrame, HasDocument
<1>2. /\ docs \in [Docs -> DocRows] /\ task \in [Workers -> TaskStates]
      /\ task[w].pc \in Loaded => task[w].doc \in DocRows
      /\ ContentOf[d] \in Contents /\ ContentOf[d] # None
  BY <1>1, CorpusAssumption DEF TypeOK, TaskFits
<1>3. /\ {"read"} \cup ScanPcs \subseteq Loaded /\ Outcomes \cup ScanPcs \subseteq TaskPcs
      /\ Checksummed \subseteq ScanPcs /\ Outcomes \cap Checksummed = {}
  BY DEF Loaded, TaskPcs, Outcomes, ScanPcs, TextPcs, Checksummed
<1>4. ASSUME NEW pc \in Outcomes \cup ScanPcs, Goto(w, pc)
      PROVE  task'[w].pc = pc /\ task'[w].doc = task[w].doc
  BY <1>3, <1>4, Goes
<1>5. task[w].pc \in Checksummed => task[w].doc.sha # None
  BY DEF EraseInv, HasChecksum
<1>6. ASSUME docs' = docs,
             task'[w].doc = task[w].doc,
             task'[w].pc \in Checksummed => task[w].pc \in Checksummed
      PROVE  /\ task'[w].pc \in Checksummed => task'[w].doc.sha # None
             /\ \A e \in Docs : docs'[e].purged = docs[e].purged /\ docs'[e] = docs[e]
  BY <1>5, <1>6
<1>7. CASE scan_load(w)
  <2>1. docs' = docs
    BY <1>7 DEF scan_load, loads, corpusVars
  <2>2. task'[w].pc \in {"ok", "read"}
    <3>1. CASE Goto(w, "ok")
      BY <1>4, <3>1 DEF Outcomes
    <3>2. CASE task' = [task EXCEPT ![w] = [NoTask EXCEPT !.pc = "read", !.doc = docs[DocOf(w)]]]
      BY <1>1, <3>2, Copies
    <3> QED
      BY <1>7, <3>1, <3>2 DEF scan_load, loads
  <2> QED
    BY <1>0, <2>1, <2>2 DEF Checksummed
<1>8. CASE scan_read(w)
  <2>1. docs' = docs /\ task[w].doc \in DocRows
    BY <1>2, <1>3, <1>8 DEF scan_read, At, corpusVars
  <2>2. task'[w].pc = "reject" \/ task'[w].doc.sha = ContentOf[d]
    <3> DEFINE t == task[w]
               u == [t EXCEPT !.pc = "dedup", !.doc.sha = ContentOf[DocOf(w)]]
               v == [t EXCEPT !.pc = "reject"]
    <3>1. u.doc.sha = ContentOf[d] /\ v.pc = "reject"
      BY <1>1, <1>2, <2>1 DEF TaskStates, DocRows
    <3>2. task'[w] = u \/ task'[w] = v
      BY <1>2, <1>8 DEF scan_read
    <3> HIDE DEF u, v
    <3> QED
      BY <3>1, <3>2
  <2> QED
    BY <1>0, <1>2, <2>1, <2>2 DEF Checksummed
<1>9. CASE \/ scan_read_fails(w) \/ scan_reject(w) \/ scan_duplicate(w)
           \/ scan_promote_fails(w) \/ scan_race_lost(w)
  <2>1. /\ task[w].doc \in DocRows
        /\ task[w].pc \in {"read", "reject", "duplicate", "promote", "race_lost"}
    BY <1>2, <1>3, <1>9 DEF scan_read_fails, scan_reject, scan_duplicate, scan_promote_fails,
       scan_race_lost, At, ScanPcs
  <2>2. PICK dto \in DocRows, pc \in {"transient", "reject_audit", "dup_delete", "race_escalate"} :
          /\ commits(w, dto, pc)
          /\ pc = "race_escalate" => task[w].pc = "race_lost"
    <3> DEFINE a == [task[w].doc EXCEPT !.status = "VALIDATION_FAILED"]
               b == [task[w].doc EXCEPT !.status = "REJECTED", !.quarantine = FALSE]
               c == [task[w].doc EXCEPT !.status = "DUPLICATE", !.quarantine = FALSE]
               e == [task[w].doc EXCEPT !.status = "DUPLICATE", !.quarantine = FALSE, !.raw = None]
    <3>1. a \in DocRows /\ b \in DocRows /\ c \in DocRows /\ e \in DocRows
      BY <2>1 DEF DocRows, DocumentStatus, Inactive
    <3>2. \/ commits(w, a, "transient") \/ commits(w, b, "reject_audit")
          \/ commits(w, c, "dup_delete")
          \/ commits(w, e, "race_escalate") /\ task[w].pc = "race_lost"
      BY <1>9 DEF scan_read_fails, scan_reject, scan_duplicate, scan_promote_fails,
         scan_race_lost, At
    <3> HIDE DEF a, b, c, e
    <3> QED
      BY <3>1, <3>2
  <2>3. pc \in TaskPcs /\ pc \in Outcomes \cup ScanPcs
    BY DEF TaskPcs, Outcomes, Loaded, ScanPcs
  <2>4. /\ \A e \in Docs \ {d} : docs'[e] = docs[e]
        /\ docs' = docs \/ docs'[d].purged = docs[d].purged
        /\ Goto(w, "transient") \/ Goto(w, pc)
    BY <1>1, <2>2, <2>3, CommitsTo
  <2>5. task'[w].doc = task[w].doc /\ task'[w].pc \in {pc, "transient"}
    BY <1>4, <2>3, <2>4 DEF Outcomes
  <2>6. task[w].pc \notin ScanClosing
    BY <2>1 DEF ScanClosing
  <2>7. task'[w].pc \in Checksummed => task'[w].doc.sha # None
    BY <1>5, <2>2, <2>5 DEF Checksummed
  <2> QED
    BY <1>0, <1>1, <2>4, <2>6, <2>7
<1>10. CASE scan_validated(w)
  <2>1. task[w].doc \in DocRows /\ task[w].pc = "validated"
    BY <1>2, <1>3, <1>10 DEF scan_validated, At, ScanPcs
  <2>2. CASE Goto(w, "race_lost") /\ UNCHANGED docs
    <3>1. task'[w].doc = task[w].doc /\ "validated" \in Checksummed
      BY <1>4, <2>2 DEF ScanPcs, Checksummed
    <3> QED
      BY <1>0, <1>6, <2>1, <2>2, <3>1
  <2>3. CASE Goto(w, "promoted_audit") /\ update_document(DocOf(w), Promoted(w))
    <3>1. Promoted(w) \in DocRows
      BY <2>1 DEF Promoted, DocRows, DocumentStatus
    <3>2. /\ docs'[d].purged = docs[d].purged
          /\ \A e \in Docs \ {d} : docs'[e] = docs[e]
      BY <1>1, <2>3, <3>1, UpdatesTo
    <3>3. task'[w].pc = "promoted_audit"
      BY <1>4, <2>3 DEF ScanPcs
    <3> QED
      BY <1>0, <1>1, <2>1, <3>2, <3>3 DEF Checksummed, ScanClosing
  <2> QED
    BY <1>10, <2>2, <2>3 DEF scan_validated
<1>11. CASE scan_dedup(w) \/ scan_race_escalate(w)
  <2>1. task[w].pc \in {"dedup", "race_escalate"} /\ task[w].doc \in DocRows
    BY <1>2, <1>3, <1>11 DEF scan_dedup, scan_race_escalate, At, ScanPcs
  <2>2. task[w].doc.sha # None
    BY <1>5, <2>1 DEF Checksummed
  <2>3. CASE UNCHANGED docs /\ (Goto(w, "promote") \/ Goto(w, "race_audit"))
    <3>1. task'[w].doc = task[w].doc
      BY <1>4, <2>3 DEF ScanPcs
    <3> QED
      BY <1>0, <2>2, <2>3, <3>1
  <2>4. ASSUME NEW e \in get_by_checksum(task[w].doc.sha) \ {DocOf(w)},
               escalates(w, e, "tier_audit", "duplicate")
                  \/ escalates(w, e, "race_tier_audit", "race_audit")
        PROVE  /\ task'[w].doc = task[w].doc
               /\ docs[e].sha # None /\ e \in Docs
               /\ \A f \in Docs : /\ docs'[f].purged = docs[f].purged
                                  /\ f # e => docs'[f] = docs[f]
    <3>1. e \in Docs /\ docs[e].sha # None
      BY <2>2, <2>4 DEF get_by_checksum
    <3>2. {"tier_audit", "duplicate", "race_tier_audit", "race_audit"} \subseteq TaskPcs
      BY DEF TaskPcs, Loaded, ScanPcs
    <3>3. /\ task'[w].doc = task[w].doc
          /\ docs'[e].purged = docs[e].purged
          /\ \A f \in Docs \ {e} : docs'[f] = docs[f]
      BY <2>1, <2>4, <3>1, <3>2, EscalatesTo
    <3> QED
      BY <3>1, <3>3
  <2> QED
    BY <1>0, <1>11, <2>2, <2>3, <2>4 DEF scan_dedup, scan_race_escalate
<1>12. CASE \/ scan_reject_audit(w) \/ scan_reject_delete(w) \/ scan_tier_audit(w)
            \/ scan_dup_delete(w) \/ scan_dup_audit(w) \/ scan_promote(w) \/ scan_clear(w)
            \/ scan_race_tier_audit(w) \/ scan_race_audit(w) \/ scan_promoted_audit(w)
            \/ scan_enqueue(w)
  <2>1. PICK pc \in Outcomes \cup ScanPcs :
           /\ Goto(w, pc) /\ docs' = docs
           /\ pc \in Checksummed => task[w].pc \in Checksummed
    BY <1>12 DEF scan_reject_audit, scan_reject_delete, scan_tier_audit, scan_dup_delete,
       scan_dup_audit, scan_promote, scan_clear, scan_race_tier_audit, scan_race_audit,
       scan_promoted_audit, scan_enqueue, audits, enqueues, At, corpusVars, Outcomes, ScanPcs,
       Checksummed
  <2>2. task'[w].pc = pc /\ task'[w].doc = task[w].doc
    BY <1>4, <2>1
  <2> QED
    BY <1>0, <1>6, <2>1, <2>2
<1> QED
  BY <1>7, <1>8, <1>9, <1>10, <1>11, <1>12 DEF ScanNext

\* A text step writes the row and the passages of its own document, while at work on it.
LEMMA TextTouches ==
    ASSUME QueueTypeOK, TypeOK, NEW w \in Workers, TextNext(w)
    PROVE  /\ task'[w].pc \notin Checksummed
           /\ \A e \in Docs :
                 /\ docs'[e].purged = docs[e].purged
                 /\ docs'[e] = docs[e] \/ (e = DocOf(w) /\ task[w].pc \in TextOpen)
                 /\ chunks'[e].present => chunks[e].present
                                          \/ (e = DocOf(w) /\ task[w].pc \in TextOpen)
<1>1. /\ \A e \in Docs \ {DocOf(w)} : docs'[e] = docs[e]
      /\ docs'[DocOf(w)] = docs[DocOf(w)] \/ task[w].pc \in TextOpen
  BY TextMoves
<1>2. PICK d \in Docs : d = DocOf(w)
  BY HandlerFrame, HasDocument
<1>3. /\ docs \in [Docs -> DocRows] /\ task \in [Workers -> TaskStates]
      /\ chunks \in [Docs -> ChunkRows]
      /\ task[w].pc \in Loaded => task[w].doc \in DocRows
  BY DEF TypeOK, TaskFits
<1>4. /\ {"read"} \cup TextPcs \subseteq Loaded /\ Outcomes \cup TextPcs \subseteq TaskPcs
      /\ ({"read"} \cup Outcomes \cup TextPcs) \cap Checksummed = {}
  BY DEF Loaded, TaskPcs, Outcomes, TextPcs, Checksummed
<1>5. PICK s \in TextStageNames :
         \/ Common(w, s)
         \/ s = "EXTRACT" /\ extract_no_raw(w)
         \/ s = "CHUNK" /\ chunk_persist(w)
         \/ /\ s = "EMBED"
            /\ \/ embed_work(w) \/ embed_store(w) \/ embed_unsupported(w) \/ embed_skip(w)
               \/ embed_skip_audit(w)
  BY DEF TextNext, extract_process, normalize_process, chunk_process, embed_process, TextStageNames
<1>6. \A e \in Docs : chunks'[e].present => \/ chunks[e].present
                                            \/ e = d /\ task[w].pc \in TextOpen
  <2>1. CASE chunk_persist(w)
    BY <1>2, <1>3, <2>1 DEF chunk_persist, InStage, At, TextOpen
  <2>2. CASE embed_store(w)
    <3>1. DocOf(w) = d /\ chunks[d] \in ChunkRows
      BY <1>2, <1>3
    <3> DEFINE row == [chunks[d] EXCEPT !.vectors = TRUE]
    <3>2. row.present = chunks[d].present
      BY <3>1 DEF ChunkRows
    <3>3. chunks' = chunks \/ chunks' = [chunks EXCEPT ![d] = row]
      BY <2>2, <3>1 DEF embed_store
    <3> HIDE DEF row
    <3> QED
      BY <1>3, <3>2, <3>3
  <2>3. CASE chunks' = chunks
    BY <2>3
  <2> QED
    BY <1>5, <2>1, <2>2, <2>3 DEF Common, stage_load, stage_read, stage_read_fails, stage_work,
       stage_work_fails, stage_put, stage_put_fails, stage_commit, stage_audit, stage_enqueue,
       stage_fail, stage_fail_audit, extract_no_raw, embed_work, embed_unsupported, embed_skip,
       embed_skip_audit, loads, commits, audits, enqueues, corpusVars
<1>7. docs'[d].purged = docs[d].purged /\ task'[w].pc \in {"read"} \cup Outcomes \cup TextPcs
  <2>1. ASSUME NEW pc \in Outcomes \cup TextPcs, Goto(w, pc)
        PROVE  task'[w].pc = pc
    BY <1>4, <2>1, Goes
  <2>2. ASSUME task' = [task EXCEPT ![w] = [NoTask EXCEPT !.pc = "read", !.doc = docs[DocOf(w)]]]
        PROVE  task'[w].pc = "read"
    BY <1>3, <2>2 DEF NoTask
  <2>3. CASE stage_load(w, s)
    <3>1. docs' = docs
      BY <2>3 DEF stage_load, loads, corpusVars
    <3>2. CASE Goto(w, "ok")
      BY <2>1, <3>1, <3>2 DEF Outcomes
    <3>3. CASE task' = [task EXCEPT ![w] = [NoTask EXCEPT !.pc = "read", !.doc = docs[DocOf(w)]]]
      BY <2>2, <3>1, <3>3
    <3> QED
      BY <2>3, <3>2, <3>3 DEF stage_load, loads
  <2>4. CASE \/ stage_read(w, s) \/ stage_read_fails(w, s) \/ stage_work(w, s)
             \/ stage_work_fails(w, s) \/ stage_put(w, s) \/ stage_put_fails(w, s)
             \/ stage_audit(w, s) \/ stage_enqueue(w, s) \/ stage_fail_audit(w, s)
             \/ extract_no_raw(w) \/ embed_unsupported(w) \/ embed_skip_audit(w)
             \/ chunk_persist(w) \/ embed_store(w)
    <3>1. docs' = docs
      BY <2>4 DEF stage_read, stage_read_fails, stage_work, stage_work_fails, stage_put,
         chunk_persist, embed_store, stage_put_fails, stage_audit, stage_enqueue,
         stage_fail_audit, extract_no_raw, embed_unsupported, embed_skip_audit, audits, enqueues,
         corpusVars
    <3>2. \E pc \in Outcomes \cup TextPcs : Goto(w, pc)
      BY <2>4 DEF stage_read, stage_read_fails, stage_work, stage_work_fails, stage_put,
         chunk_persist, embed_store, stage_put_fails, stage_audit, stage_enqueue,
         stage_fail_audit, extract_no_raw, embed_unsupported, embed_skip_audit, audits, enqueues,
         Outcomes, TextPcs
    <3> QED
      BY <2>1, <3>1, <3>2
  <2>5. CASE embed_work(w)
    BY <1>3, <2>5 DEF embed_work, TaskStates, corpusVars, TextPcs
  <2>6. CASE stage_commit(w, s) \/ stage_fail(w, s) \/ embed_skip(w)
    <3>1. task[w].doc \in DocRows
      BY <1>3, <1>4, <2>6 DEF stage_commit, stage_fail, embed_skip, InStage, At, TextPcs
    <3>2. PICK x \in DocumentStatus, pc \in {"enqueue", "audit", "fail_audit", "skip_audit"} :
            commits(w, [task[w].doc EXCEPT !.status = x], pc)
      <4>1. DoneStatus[s] \in DocumentStatus /\ FailStatus[s] \in DocumentStatus
        BY DEF DoneStatus, FailStatus, TextStageNames, DocumentStatus
      <4>2. "SKIPPED_UNSUPPORTED_LANGUAGE" \in DocumentStatus
        BY DEF DocumentStatus
      <4> QED
        BY <2>6, <4>1, <4>2 DEF stage_commit, stage_fail, embed_skip
    <3> DEFINE dto == [task[w].doc EXCEPT !.status = x]
    <3>3. dto \in DocRows /\ commits(w, dto, pc)
      BY <3>1, <3>2 DEF DocRows
    <3>4. pc \in TextPcs /\ "transient" \in Outcomes
      BY DEF TextPcs, Outcomes
    <3> HIDE DEF dto
    <3>5. /\ docs' = docs \/ docs'[d].purged = docs[d].purged
          /\ Goto(w, "transient") \/ Goto(w, pc)
      BY <1>2, <1>4, <3>3, <3>4, CommitsTo
    <3> QED
      BY <2>1, <3>4, <3>5
  <2> QED
    BY <1>5, <2>3, <2>4, <2>5, <2>6 DEF Common
<1>8. task'[w].pc \notin Checksummed
  BY <1>4, <1>7
<1> QED
  BY <1>1, <1>2, <1>6, <1>7, <1>8

\* A document that is not touched, or is being worked on, or whose request goes on
\* towards the passages or ends, is erased in order as before.
LEMMA OrderKept ==
    ASSUME NEW e \in Docs, ErasedInOrder(e),
           Uploaded(e) => Uploaded(e)',
           Uploaded(e) /\ Quiet(e) => Quiet(e)',
           docs'[e].purged => docs[e].purged /\ docs'[e] = docs[e],
           chunks'[e].present =>
              \/ chunks[e].present
              \/ ~docs'[e].purged /\ erase'[e].pc \notin {"purge", "duplicates"},
           Uncut(e)' => Uncut(e) /\ (chunks'[e].present => chunks[e].present),
           \/ erase'[e] = erase[e]
           \/ /\ erase'[e].pc \notin {"purge", "duplicates"}
              /\ erase'[e].pc # "idle" => Uploaded(e)
              /\ erase'[e].recorded => erase[e].recorded /\ erase'[e].pc # "idle"
    PROVE  ErasedInOrder(e)'
<1>1. docs'[e].purged =>
         /\ docs'[e].sha = None /\ ~chunks'[e].present
         /\ Quiet(e)' \/ docs'[e].status = "DUPLICATE"
  BY DEF ErasedInOrder
<1>2. docs'[e].purged \/ erase'[e].pc # "idle" => Uploaded(e)'
  BY DEF ErasedInOrder
<1>3. erase'[e].recorded => Quiet(e)' /\ erase'[e].pc # "idle"
  BY DEF ErasedInOrder
<1>4. erase'[e].pc \in {"purge", "duplicates"} => erase'[e].recorded /\ ~chunks'[e].present
  BY DEF ErasedInOrder
<1>5. Uncut(e)' => ~chunks'[e].present
  BY DEF ErasedInOrder
<1> QED
  BY <1>1, <1>2, <1>3, <1>4, <1>5 DEF ErasedInOrder

\* No handler touches a document whose claim is recorded or whose row is a tombstone, and
\* none that looks up a checksum has none.
LEMMA HandlerErases ==
    ASSUME LeaseLoss = {}, BackfillStages = {}, QueueTypeOK, TypeOK, HeldInv, StageInv, EraseInv,
           NEW w \in Workers, ScanNext(w) \/ TextNext(w), UNCHANGED apiVars, [Next]_vars
    PROVE  /\ EraseInv'
           /\ \A e \in Docs : docs[e].purged => docs'[e] = docs[e]
<1>1. /\ workers' = workers /\ workers[w].pc = "processing"
      /\ \A v \in Workers \ {w} : task'[v] = task[v]
  BY HandlerFrame
<1>2. PICK d \in Docs : d = DocOf(w)
  BY <1>1, HasDocument
<1>3. ~Quiet(d)
  BY <1>1, <1>2, BusyOnIt
<1>4. /\ \A v \in Workers : HasChecksum(v)'
      /\ \A e \in Docs : docs'[e].purged = docs[e].purged
  BY <1>1, ScanTouches, TextTouches DEF HasChecksum, EraseInv
<1>5. WorkerStage[w] \in TextStageNames /\ task[w].pc \in TextOpen =>
         docs[d].status \in {"VALIDATED", "EXTRACTED", "AWAITING_CLASSIFICATION", "CHUNKED"}
  BY <1>2 DEF StageInv, InEntryStatus, EntryStatus, TextStageNames
<1>6. WorkerStage[w] = "SCAN" /\ task[w].pc \notin ScanClosing => ScanOpen(d)
  BY <1>1, <1>2 DEF StageInv, ScansInTime, ScanOver
<1>7. docs[d].purged => docs[d].status = "DUPLICATE"
  BY <1>3 DEF EraseInv, ErasedInOrder
<1>8. ASSUME NEW e \in Docs, docs[e].purged PROVE docs'[e] = docs[e]
  <2>1. docs[e].sha = None
    BY <1>8 DEF EraseInv, ErasedInOrder
  <2>2. CASE ScanNext(w)
    BY <1>2, <1>6, <1>7, <1>8, <2>1, <2>2, ScanTouches, ScanMoves DEF ScanOpen
  <2>3. CASE TextNext(w)
    BY <1>2, <1>5, <1>7, <1>8, <2>3, TextTouches, TextMoves
  <2> QED
    BY <2>2, <2>3
<1>9. ASSUME NEW e \in Docs PROVE chunks'[e].present => \/ chunks[e].present
                                                        \/ /\ e = d /\ ~docs[d].purged
                                                           /\ ~Uncut(d)
  <2>1. CASE ScanNext(w)
    BY <2>1, ScanTouches
  <2>2. CASE TextNext(w)
    BY <1>2, <1>5, <1>7, <2>2, TextTouches, TextMoves DEF Uncut, Inactive
  <2> QED
    BY <2>1, <2>2
<1>10. ASSUME NEW e \in Docs, docs'[e].status # docs[e].status
       PROVE  e = d /\ (~Uncut(e)' \/ (Uncut(e) /\ chunks' = chunks))
  <2>1. CASE ScanNext(w)
    <3>1. e = d /\ task[w].pc \notin ScanClosing /\ WorkerStage[w] = "SCAN"
      BY <1>2, <1>10, <2>1, ScanMoves
    <3> QED
      BY <1>6, <2>1, <3>1, ScanTouches DEF Uncut, ScanOpen
  <2>2. CASE TextNext(w)
    <3>1. /\ e = d /\ WorkerStage[w] \in TextStageNames
          /\ docs'[e].status \in {DoneStatus[WorkerStage[w]], FailStatus[WorkerStage[w]],
                                  "SKIPPED_UNSUPPORTED_LANGUAGE"}
      BY <1>2, <1>10, <2>2, TextMoves
    <3> QED
      BY <3>1 DEF Uncut, Inactive, DoneStatus, FailStatus, TextStageNames
  <2> QED
    BY <2>1, <2>2
<1>11. ASSUME NEW e \in Docs PROVE ErasedInOrder(e)'
  <2>1. ErasedInOrder(e) /\ UNCHANGED <<upload, erase>>
    BY DEF EraseInv, apiVars
  <2>2. Uploaded(e) => Uploaded(e)'
    BY <2>1 DEF Uploaded
  <2>3. Uploaded(e) /\ Quiet(e) => Quiet(e)'
    BY QuietStays
  <2>4. docs'[e].purged => docs[e].purged /\ docs'[e] = docs[e]
    BY <1>4, <1>8
  <2>5. erase[e].pc \in {"purge", "duplicates"} => e # d
    BY <1>3, <2>1 DEF ErasedInOrder
  <2>6. Uncut(e)' => Uncut(e) /\ (chunks'[e].present => chunks[e].present)
    BY <1>9, <1>10 DEF Uncut
  <2> QED
    BY <1>4, <1>9, <2>1, <2>2, <2>3, <2>4, <2>5, <2>6, OrderKept
<1> QED
  BY <1>4, <1>8, <1>11 DEF EraseInv

\* A request is erased in order: it records its claim once all work has stopped, and
\* writes the tombstone after the passages are gone.
LEMMA RequestErases ==
    ASSUME LeaseLoss = {}, BackfillStages = {}, EagerDelete = FALSE,
           QueueTypeOK, TypeOK, HeldInv, StageInv, EraseInv, [Next]_vars, NEW d \in Docs,
           Receives(d) \/ Deleted(d) \/ Erases(d) \/ RequestDies(d) \/ Backfilled(d)
    PROVE  /\ EraseInv'
           /\ \A e \in Docs : docs[e].purged => docs'[e] = docs[e]
<1>1. /\ task' = task /\ jobs \in [Jobs -> JobRows]
      /\ docs \in [Docs -> DocRows] /\ chunks \in [Docs -> ChunkRows]
      /\ erase \in [Docs -> EraseStates] /\ upload \in [Docs -> UploadStates]
  BY RequestsFrame DEF TypeOK, QueueTypeOK
<1>2. \A v \in Workers : HasChecksum(v)'
  BY <1>1 DEF EraseInv, HasChecksum
<1>3. ~Backfilled(d)
  BY DEF Backfilled
<1>4. \A e \in Docs : Uploaded(e) => Uploaded(e)'
  <2>1. CASE Deleted(d) \/ Erases(d) \/ (RequestDies(d) /\ erase_dies(d))
    BY <2>1, EraseMoves DEF Uploaded
  <2>2. CASE Receives(d) \/ (RequestDies(d) /\ receive_dies(d))
    BY <1>1, <2>2 DEF Receives, receive_put, receive_create, receive_enqueue, receive_audit,
       RequestDies, receive_dies, UploadStep, Uploaded
  <2> QED
    BY <1>3, <2>1, <2>2 DEF RequestDies
<1>5. \A e \in Docs : ErasedInOrder(e) /\ (Uploaded(e) /\ Quiet(e) => Quiet(e)')
  BY QuietStays DEF EraseInv
<1>6. ASSUME NEW e \in Docs, docs'[e] = docs[e], chunks'[e] = chunks[e],
             \/ erase'[e] = erase[e]
             \/ /\ erase'[e].pc \notin {"purge", "duplicates"}
                /\ erase'[e].pc # "idle" => Uploaded(e)
                /\ erase'[e].recorded => erase[e].recorded /\ erase'[e].pc # "idle"
      PROVE  ErasedInOrder(e)'
  BY <1>4, <1>5, <1>6, OrderKept DEF Uncut
<1>7. CASE docs' = docs /\ \A e \in Docs : ErasedInOrder(e)'
  BY <1>2, <1>7 DEF EraseInv
<1>8. CASE receive_put(d) \/ receive_enqueue(d) \/ receive_audit(d) \/ receive_dies(d)
  BY <1>6, <1>7, <1>8 DEF receive_put, receive_enqueue, receive_audit, receive_dies, corpusVars
<1>9. CASE receive_create(d)
  <2>1. /\ upload[d] = "stored" /\ UNCHANGED <<chunks, erase>>
        /\ docs'[d].status = "QUARANTINED" /\ docs'[d].purged = docs[d].purged
        /\ \A e \in Docs \ {d} : docs'[e] = docs[e]
    BY <1>1, <1>9 DEF receive_create, UploadStep, DocRows
  <2>2. docs[d].status = "ABSENT" /\ ~docs[d].purged
    BY <1>5, <2>1 DEF StageInv, CreatedByUpload, ErasedInOrder, Uploaded
  <2>3. ErasedInOrder(d)'
    BY <1>4, <1>5, <2>1, <2>2, OrderKept DEF Uncut, Inactive
  <2>4. \A e \in Docs : ErasedInOrder(e)'
    BY <1>6, <2>1, <2>3
  <2> QED
    BY <1>2, <2>1, <2>2, <2>4 DEF EraseInv
<1>10. CASE Deleted(d)
  <2>1. /\ UNCHANGED <<docs, chunks>> /\ Uploaded(d)
        /\ erase' = [erase EXCEPT ![d] = [NoErase EXCEPT !.pc = "claim", !.doc = docs[d]]]
    BY <1>10 DEF Deleted, delete_document, corpusVars, Uploaded
  <2>2. erase'[d].pc = "claim" /\ ~erase'[d].recorded
    BY <1>1, <2>1 DEF NoErase
  <2> QED
    BY <1>1, <1>6, <1>7, <2>1, <2>2
<1>11. ASSUME NEW from \in ErasePcs, NEW to \in ErasePcs \ {"idle"}, from # "idle",
              EraseStep(d, from, to)
       PROVE  /\ \A e \in Docs \ {d} : erase'[e] = erase[e]
              /\ erase[d].pc = from /\ erase'[d].pc = to
              /\ erase'[d].recorded = erase[d].recorded /\ Uploaded(d)
  <2> DEFINE u == [erase[d] EXCEPT !.pc = to]
  <2>1. u.pc = to /\ u.recorded = erase[d].recorded
    BY <1>1 DEF EraseStates
  <2>2. erase' = [erase EXCEPT ![d] = u] /\ erase[d].pc = from
    BY <1>11 DEF EraseStep
  <2> HIDE DEF u
  <2> QED
    BY <1>1, <1>5, <1>11, <2>1, <2>2 DEF ErasedInOrder
<1>12. ASSUME erase' = [erase EXCEPT ![d] = NoErase]
       PROVE  /\ erase'[d].pc = "idle" /\ ~erase'[d].recorded
              /\ \A e \in Docs \ {d} : erase'[e] = erase[e]
  BY <1>1, <1>12 DEF NoErase
<1>13. CASE erase_busy(d) \/ erase_dies(d) \/ erase_chunks_raises(d)
            \/ \E b \in DOMAIN AfterBucket : erase_object_fails(d, b)
  <2>1. UNCHANGED <<docs, chunks>> /\ erase' = [erase EXCEPT ![d] = NoErase]
    BY <1>13 DEF erase_busy, erase_dies, erase_chunks_raises, erase_object_fails, corpusVars
  <2> QED
    BY <1>6, <1>7, <1>12, <2>1
<1>14. CASE erase_unrecorded(d) \/ \E b \in DOMAIN AfterBucket :
                                     erase_object(d, b) \/ erase_object_unseen(d, b)
  <2>1. /\ UNCHANGED <<docs, chunks>>
        /\ \E from \in ErasePcs, to \in DOMAIN AfterBucket \cup {"chunks"} :
              from # "idle" /\ EraseStep(d, from, to)
    BY <1>14 DEF erase_unrecorded, erase_object, erase_object_unseen, corpusVars, AfterBucket,
       ErasePcs
  <2>2. DOMAIN AfterBucket \cup {"chunks"} \subseteq ErasePcs \ {"idle", "purge", "duplicates"}
    BY DEF AfterBucket, ErasePcs
  <2>3. /\ erase'[d].pc \notin {"idle", "purge", "duplicates"}
        /\ erase'[d].recorded = erase[d].recorded /\ Uploaded(d)
        /\ \A e \in Docs \ {d} : erase'[e] = erase[e]
    BY <1>11, <2>1, <2>2
  <2> QED
    BY <1>6, <1>7, <2>1, <2>3
<1>15. CASE erase_claim(d)
  <2>1. /\ erase[d].pc = "claim" /\ ~Busy(d) /\ UNCHANGED <<docs, chunks>>
        /\ erase' = [erase EXCEPT ![d].pc = "raw", ![d].recorded = TRUE]
        /\ CancelPending(JobsOf(d))
    BY <1>15 DEF erase_claim
  <2>2. erase'[d].pc = "raw" /\ \A e \in Docs \ {d} : erase'[e] = erase[e]
    BY <1>1, <2>1 DEF EraseStates
  <2>3. Quiet(d)'
    BY <1>1, <2>1, RowEdits DEF CancelPending, Busy, Quiet, JobsOf, JobRows, JobStatus, Done
  <2>4. Uploaded(d)'
    BY <1>4, <1>5, <2>1 DEF ErasedInOrder
  <2>5. ErasedInOrder(d)'
    BY <1>5, <2>1, <2>2, <2>3, <2>4 DEF ErasedInOrder, Uncut
  <2> QED
    BY <1>6, <1>7, <2>1, <2>2, <2>5
<1>16. CASE erase_chunks(d)
  <2>1. /\ erase[d].recorded /\ EraseStep(d, "chunks", "purge") /\ docs' = docs
        /\ chunks' = [chunks EXCEPT ![d] = ErasedChunks(chunks[d])]
    BY <1>16 DEF erase_chunks
  <2>2. /\ \A e \in Docs \ {d} : erase'[e] = erase[e]
        /\ erase'[d].pc = "purge" /\ erase'[d].recorded
    <3>1. "chunks" \in ErasePcs /\ "purge" \in ErasePcs \ {"idle"} /\ "chunks" # "idle"
      BY DEF ErasePcs
    <3>2. /\ \A e \in Docs \ {d} : erase'[e] = erase[e]
          /\ erase'[d].pc = "purge" /\ erase'[d].recorded = erase[d].recorded
      BY <1>11, <2>1, <3>1
    <3> QED
      BY <2>1, <3>2
  <2>3. ErasedChunks(chunks[d]).present = FALSE
    BY <1>1 DEF ErasedChunks, ChunkRows
  <2>4. ~chunks'[d].present /\ \A e \in Docs \ {d} : chunks'[e] = chunks[e]
    BY <1>1, <2>1, <2>3
  <2>5. Quiet(d)' /\ Uploaded(d)'
    BY <1>4, <1>5, <2>1 DEF ErasedInOrder
  <2>6. ErasedInOrder(d)'
    BY <1>5, <2>1, <2>2, <2>4, <2>5 DEF ErasedInOrder, Uncut
  <2> QED
    BY <1>6, <1>7, <2>1, <2>2, <2>4, <2>6
<1>17. CASE erase_purge(d)
  <2> DEFINE row == Tombstone(docs[d])
  <2>1. /\ EraseStep(d, "purge", "duplicates") /\ chunks' = chunks
        /\ docs' = [docs EXCEPT ![d] = IF docs[d].purged THEN docs[d] ELSE row]
    BY <1>17 DEF erase_purge
  <2>2. row.status = docs[d].status /\ row.sha = None /\ row.purged = TRUE
    BY <1>1 DEF Tombstone, DocRows
  <2> HIDE DEF row
  <2>3. /\ \A e \in Docs \ {d} : erase'[e] = erase[e]
        /\ erase[d].pc = "purge" /\ erase'[d].pc = "duplicates"
        /\ erase'[d].recorded = erase[d].recorded
    BY <1>11, <2>1 DEF ErasePcs
  <2>4. erase[d].recorded /\ ~chunks[d].present /\ Quiet(d)' /\ Uploaded(d)'
    BY <1>4, <1>5, <2>3 DEF ErasedInOrder
  <2>5. docs'[d].status = docs[d].status /\ docs'[d].sha = None
    BY <1>1, <1>5, <2>1, <2>2 DEF ErasedInOrder
  <2>6. ErasedInOrder(d)'
    BY <1>5, <2>1, <2>3, <2>4, <2>5 DEF ErasedInOrder, Uncut
  <2>7. \A e \in Docs : ErasedInOrder(e)'
    BY <1>1, <1>6, <2>1, <2>3, <2>6
  <2> QED
    BY <1>1, <1>2, <2>1, <2>7 DEF EraseInv
<1>18. CASE erase_duplicates(d)
  <2>1. /\ erase[d].pc = "duplicates" /\ chunks' = chunks
        /\ erase' = [erase EXCEPT ![d] = NoErase]
        /\ docs' = docs \/ (erase[d].doc.sha # None /\ purge_duplicates_of(erase[d].doc.sha))
    BY <1>18 DEF erase_duplicates
  <2>2. /\ erase'[d].pc = "idle" /\ ~erase'[d].recorded
        /\ \A e \in Docs \ {d} : erase'[e] = erase[e]
    BY <1>12, <2>1
  <2>3. ASSUME NEW e \in Docs
        PROVE  \/ docs'[e] = docs[e]
               \/ /\ docs[e].sha # None /\ docs[e].status = "DUPLICATE"
                  /\ docs'[e].sha = None /\ docs'[e].status = "DUPLICATE"
    <3> DEFINE row == TombstonedDuplicate(docs[e])
    <3>1. row.status = docs[e].status /\ row.sha = None
      BY <1>1 DEF TombstonedDuplicate, DocRows
    <3>2. \/ docs'[e] = docs[e]
          \/ docs[e].sha # None /\ docs[e].status = "DUPLICATE" /\ docs'[e] = row
      BY <2>1 DEF purge_duplicates_of
    <3> HIDE DEF row
    <3> QED
      BY <3>1, <3>2
  <2>4. ASSUME NEW e \in Docs, docs'[e] # docs[e] PROVE ErasedInOrder(e)'
    <3>1. /\ docs[e].sha # None /\ docs[e].status = "DUPLICATE"
          /\ docs'[e].sha = None /\ docs'[e].status = "DUPLICATE"
      BY <2>3, <2>4
    <3>2. ~chunks[e].present
      BY <1>5, <3>1 DEF ErasedInOrder, Uncut, Inactive
    <3>3. Uploaded(e)
      BY <1>1, <3>1 DEF StageInv, CreatedByUpload, Uploaded, UploadStates
    <3>4. erase'[e] = erase[e] \/ (erase'[e].pc = "idle" /\ ~erase'[e].recorded)
      BY <2>2
    <3>5. erase'[e].recorded => Quiet(e)' /\ erase'[e].pc # "idle"
      BY <1>5, <3>3, <3>4 DEF ErasedInOrder
    <3> QED
      BY <1>4, <1>5, <2>1, <3>1, <3>2, <3>3, <3>4, <3>5 DEF ErasedInOrder
  <2>5. \A e \in Docs : ErasedInOrder(e)'
    BY <1>6, <2>1, <2>2, <2>4
  <2>6. \A e \in Docs : docs[e].purged => docs'[e] = docs[e]
    BY <1>5, <2>3 DEF ErasedInOrder
  <2> QED
    BY <1>2, <2>5, <2>6 DEF EraseInv
<1> QED
  BY <1>3, <1>8, <1>9, <1>10, <1>13, <1>14, <1>15, <1>16, <1>17, <1>18
     DEF Receives, Erases, RequestDies

\* The inductive step, and what it says of a tombstone.
LEMMA EraseSteps ==
    ASSUME LeaseLoss = {}, BackfillStages = {}, EagerDelete = FALSE
    PROVE  QueueTypeOK /\ TypeOK /\ HeldInv /\ StageInv /\ EraseInv /\ [Next]_vars
           => EraseInv' /\ \A e \in Docs : docs[e].purged => docs'[e] = docs[e]
<1> SUFFICES ASSUME QueueTypeOK, TypeOK, HeldInv, StageInv, EraseInv, [Next]_vars
             PROVE  EraseInv' /\ \A e \in Docs : docs[e].purged => docs'[e] = docs[e]
  OBVIOUS
<1>1. ASSUME UNCHANGED <<corpusVars, apiVars>>, \A v \in Workers : Undisturbed(v)
      PROVE  EraseInv' /\ \A e \in Docs : docs[e].purged => docs'[e] = docs[e]
  <2>1. UNCHANGED <<docs, chunks, upload, erase>>
    BY <1>1 DEF corpusVars, apiVars
  <2>2. \A v \in Workers : HasChecksum(v)'
    BY <1>1 DEF EraseInv, HasChecksum, Undisturbed, Checksummed, Loaded, ScanPcs
  <2>3. \A e \in Docs : ErasedInOrder(e) /\ (Uploaded(e) /\ Quiet(e) => Quiet(e)')
    BY QuietStays DEF EraseInv
  <2>4. \A e \in Docs : ErasedInOrder(e)'
    BY <2>1, <2>3, OrderKept DEF Uploaded, Uncut
  <2> QED
    BY <2>1, <2>2, <2>4 DEF EraseInv
<1>2. ASSUME UNCHANGED <<task, workers>> PROVE \A v \in Workers : Undisturbed(v)
  BY <1>2 DEF Undisturbed, TypeOK, TaskFits, Loaded, ScanPcs, TextPcs
<1>3. ASSUME NEW w \in Workers,
             \/ Claims(w) \/ Renews(w) \/ Reaps(w) \/ Writes(w) \/ CompletionFails(w)
             \/ WorkerDies(w) \/ Handles(w) \/ Aborts(w)
      PROVE  EraseInv' /\ \A e \in Docs : docs[e].purged => docs'[e] = docs[e]
  <2>1. CASE Handles(w) /\ ~returns(w)
    BY <2>1, HandlerErases DEF Handles
  <2> QED
    BY <1>1, <1>3, <2>1, QueueSteps
<1>4. ASSUME NEW d \in Docs,
             Receives(d) \/ Deleted(d) \/ Erases(d) \/ RequestDies(d) \/ Backfilled(d)
      PROVE  EraseInv' /\ \A e \in Docs : docs[e].purged => docs'[e] = docs[e]
  BY <1>4, RequestErases
<1>5. ASSUME NEW j \in Jobs, LeaseRunsOut(j) PROVE UNCHANGED <<corpusVars, apiVars, task, workers>>
  BY <1>5 DEF LeaseRunsOut, ExpireLease
<1>6. CASE UNCHANGED vars
  BY <1>1, <1>2, <1>6 DEF vars, corpusVars, apiVars
<1> QED
  BY <1>1, <1>2, <1>3, <1>4, <1>5, <1>6 DEF Next

\* Nothing is claimed, cut or erased to begin with.
LEMMA EraseInit == Init => EraseInv
<1> SUFFICES ASSUME Init PROVE EraseInv
  OBVIOUS
<1>1. /\ \A d \in Docs : /\ ~docs[d].purged /\ ~chunks[d].present
                         /\ erase[d].pc = "idle" /\ ~erase[d].recorded
      /\ \A w \in Workers : task[w].pc = "start"
  BY DEF Init, CorpusInit, NoDoc, NoChunks, ApiInit, NoErase, TaskInit, NoTask
<1> QED
  BY <1>1 DEF EraseInv, ErasedInOrder, HasChecksum, Checksummed

\* What is erased stays in order, with one worker per stage, no lost leases, no back-fill
\* and no delete that overtakes its upload, if SCAN workers neither crash nor meet a
\* database fault; the other stages and the API may.
LEMMA EraseHolds ==
    ASSUME OneWorkerPerStage, "SCAN" \notin Crashes \cup DatabaseFaults,
           LeaseLoss = {}, BackfillStages = {}, "reset" \notin Backfills, EagerDelete = FALSE
    PROVE  Spec => []EraseInv
<1>1. Spec => []StageInv
  BY StagesTakeTurns
<1>2. Spec => []HeldInv
  BY PipelineImplementsQueue, JobsHeld, PTL
<1>3. QueueTypeOK /\ TypeOK /\ HeldInv /\ StageInv /\ EraseInv /\ [Next]_vars
      => EraseInv' /\ \A e \in Docs : docs[e].purged => docs'[e] = docs[e]
  BY EraseSteps
<1> QED
  BY <1>1, <1>2, <1>3, EraseInit, PipelineTypeCorrect, PTL DEF Spec

\* An erased document has no passages, and no job is left to bring them back.
THEOREM ErasedNotSearchableHolds ==
    ASSUME OneWorkerPerStage, "SCAN" \notin Crashes \cup DatabaseFaults,
           LeaseLoss = {}, BackfillStages = {}, "reset" \notin Backfills, EagerDelete = FALSE
    PROVE  Spec => []ErasedNotSearchable
<1>1. EraseInv => ErasedNotSearchable
  BY DEF EraseInv, ErasedInOrder, ErasedNotSearchable
<1> QED
  BY <1>1, EraseHolds, PTL

\* No worker writes its old copy of a row over the tombstone.
THEOREM TombstoneStaysHolds ==
    ASSUME OneWorkerPerStage, "SCAN" \notin Crashes \cup DatabaseFaults,
           LeaseLoss = {}, BackfillStages = {}, "reset" \notin Backfills, EagerDelete = FALSE
    PROVE  Spec => TombstoneStays
<1>1. Spec => []StageInv
  BY StagesTakeTurns
<1>2. Spec => []EraseInv
  BY EraseHolds
<1>3. Spec => []HeldInv
  BY PipelineImplementsQueue, JobsHeld, PTL
<1>4. QueueTypeOK /\ TypeOK /\ HeldInv /\ StageInv /\ EraseInv /\ [Next]_vars
      => [\A d \in Docs : docs[d].purged => docs'[d] = docs[d]]_vars
  BY EraseSteps
<1> QED
  BY <1>1, <1>2, <1>3, <1>4, PipelineTypeCorrect, PTL DEF Spec, TombstoneStays

(***************************************************************************)
(* What the audit log says of a document (AuditTrail).                     *)
(***************************************************************************)

\* The worker of a RUNNING job lives, so its lease is held.
WellAttended ==
    \A j \in Jobs : jobs[j].status = "RUNNING" => jobs[j].lease = "held" /\ Attended(j)

\* A text stage works on no document whose scan is open.
TextAfterScan ==
    \A w \in Workers :
        WorkerStage[w] \in TextStageNames /\ task[w].pc \in TextOpen => ~ScanOpen(DocOf(w))

\* Nor is a document scanned, or queued for it, whose scan is over.
ScanJobsOpen ==
    \A j \in Jobs : JobStage[j] = "SCAN" /\ jobs[j].status = "PENDING" => ScanOpen(JobDoc[j])

\* No SCAN job is given up: its handler always comes to an end.
ScanSucceeds(w) ==
    WorkerStage[w] = "SCAN" =>
        task[w].pc \notin {"transient", "permanent"} /\ workers[w].outcome = "ok"

ScanNeverFails ==
    /\ \A w \in Workers : ScanSucceeds(w)
    /\ \A j \in Jobs : JobStage[j] = "SCAN" => jobs[j].status # "FAILED"

\* The handler has dropped the quarantined bytes and is about to write VALIDATED.
Promoting(d) ==
    \E w \in Workers :
        /\ workers[w].pc = "processing" /\ WorkerStage[w] = "SCAN" /\ DocOf(w) = d
        /\ task[w].pc \in {"validated", "race_lost"}

\* Until then they are there.
BytesThere ==
    \A d \in Docs :
        upload[d] = "stored" \/ ScanOpen(d) => <<"quarantine", d>> \in store \/ Promoting(d)

\* At pc a handler of w has still to record this event of its document.
Due(w, pc, event) ==
    \/ /\ event = "DOCUMENT_REJECTED"
       /\ pc \in {"reject_audit", "dup_delete", "dup_audit", "race_escalate",
                  "race_tier_audit", "race_audit"}
    \/ event = "DOCUMENT_PROMOTED" /\ pc = "promoted_audit"
    \/ event = "EMBEDDING_SKIPPED" /\ pc = "skip_audit"
    \/ /\ WorkerStage[w] \in TextStageNames
       /\ \/ event = FailStatus[WorkerStage[w]] /\ pc = "fail_audit"
          \/ /\ event = DoneEvent[WorkerStage[w]]
             /\ pc = "audit" \/ (pc = "enqueue" /\ WorkerStage[w] = "CHUNK")

Owes(w, event) == workers[w].pc = "processing" /\ Due(w, task[w].pc, event)

\* The event is recorded, or somebody is about to.
Accounted(d, event) ==
    <<d, event>> \in audit \/ \E w \in Workers : Owes(w, event) /\ DocOf(w) = d

StatusAccounted ==
    \A d \in Docs :
        docs[d].status # "ABSENT" /\ ~ScanOpen(d) => Accounted(d, StatusEvent(docs[d].status))

\* An upload that got that far has created the document and queued its scan.
UploadQueued ==
    \A d \in Docs :
        upload[d] \in {"queued", "done"} => docs[d].status # "ABSENT" /\ ~NeverQueued(d)

AuditInv ==
    /\ WellAttended /\ TextAfterScan /\ ScansInTime /\ ScanJobsOpen /\ ScanNeverFails
    /\ BytesThere /\ StatusAccounted /\ UploadQueued

\* A SCAN handler that finds the bytes fails nowhere, records what it decides, and gives
\* the quarantined bytes up only once it has promoted them or closed the document.
LEMMA ScanRecords ==
    ASSUME "SCAN" \notin StorageFaults \cup DatabaseFaults, QueueTypeOK, TypeOK,
           NEW w \in Workers, ScanNext(w), NEW d \in Docs, d = DocOf(w),
           <<"quarantine", d>> \in store \/ task[w].pc \notin {"read", "promote"}
    PROVE  /\ task'[w].pc \notin {"transient", "permanent"}
           /\ \/ docs'[d].status = docs[d].status
              \/ Due(w, task'[w].pc, StatusEvent(docs'[d].status))
           /\ \A event : Due(w, task[w].pc, event) =>
                 Due(w, task'[w].pc, event) \/ <<d, event>> \in audit'
           /\ <<"quarantine", d>> \in store =>
                 \/ <<"quarantine", d>> \in store'
                 \/ task'[w].pc = "validated" \/ task[w].pc \in ScanClosing
           /\ task[w].pc \in {"validated", "race_lost"} =>
                 task'[w].pc \in {"race_lost"} \cup ScanClosing
<1>1. workers' = workers /\ workers[w].pc = "processing" /\ WorkerStage[w] = "SCAN"
  BY HandlerFrame, ScanMoves
<1>2. /\ docs \in [Docs -> DocRows] /\ task \in [Workers -> TaskStates]
      /\ task[w].pc \in Loaded => task[w].doc \in DocRows
  BY DEF TypeOK, TaskFits
<1>3. {"read"} \cup ScanPcs \subseteq Loaded /\ Outcomes \cup ScanPcs \subseteq TaskPcs
  BY DEF Loaded, TaskPcs, Outcomes, ScanPcs, TextPcs
<1>4. ASSUME NEW pc \in Outcomes \cup ScanPcs, Goto(w, pc)
      PROVE  task'[w].pc = pc
  BY <1>3, <1>4, Goes
<1>5. CASE scan_load(w)
  <2>1. docs' = docs /\ store' = store /\ task[w].pc = "start"
    BY <1>5 DEF scan_load, loads, corpusVars, At
  <2>2. task'[w].pc \in {"ok", "read"}
    <3>1. CASE Goto(w, "ok")
      BY <1>4, <3>1 DEF Outcomes
    <3>2. CASE task' = [task EXCEPT ![w] = [NoTask EXCEPT !.pc = "read", !.doc = docs[DocOf(w)]]]
      BY <3>2, Copies
    <3> QED
      BY <1>5, <3>1, <3>2 DEF scan_load, loads
  <2> QED
    BY <1>1, <2>1, <2>2 DEF Due, TextStageNames
<1>6. CASE scan_read(w)
  <2>1. docs' = docs /\ store' = store /\ task[w].pc = "read"
    BY <1>6 DEF scan_read, corpusVars, At
  <2>2. task'[w].pc \in {"dedup", "reject"}
    <3> DEFINE t == task[w]
               u == [t EXCEPT !.pc = "dedup", !.doc.sha = ContentOf[DocOf(w)]]
               v == [t EXCEPT !.pc = "reject"]
    <3>1. u.pc = "dedup" /\ v.pc = "reject"
      BY <1>2 DEF TaskStates
    <3>2. task'[w] = u \/ task'[w] = v
      BY <1>2, <1>6 DEF scan_read
    <3> HIDE DEF u, v
    <3> QED
      BY <3>1, <3>2
  <2> QED
    BY <1>1, <2>1, <2>2 DEF Due, TextStageNames
<1>7. ~scan_read_fails(w) /\ ~scan_promote_fails(w)
  BY DEF scan_read_fails, scan_promote_fails, At
<1>8. CASE scan_reject(w) \/ scan_duplicate(w) \/ scan_race_lost(w)
  <2>1. /\ task[w].doc \in DocRows
        /\ task[w].pc \in {"reject", "duplicate", "race_lost"}
    BY <1>2, <1>3, <1>8 DEF scan_reject, scan_duplicate, scan_race_lost, At, ScanPcs
  <2>2. PICK dto \in DocRows, pc \in {"reject_audit", "dup_delete", "race_escalate"} :
          commits(w, dto, pc) /\ dto.status \in {"REJECTED", "DUPLICATE"}
    <3> DEFINE b == [task[w].doc EXCEPT !.status = "REJECTED", !.quarantine = FALSE]
               c == [task[w].doc EXCEPT !.status = "DUPLICATE", !.quarantine = FALSE]
               e == [task[w].doc EXCEPT !.status = "DUPLICATE", !.quarantine = FALSE, !.raw = None]
    <3>1. /\ b \in DocRows /\ c \in DocRows /\ e \in DocRows
          /\ b.status = "REJECTED" /\ c.status = "DUPLICATE" /\ e.status = "DUPLICATE"
      BY <2>1 DEF DocRows, DocumentStatus, Inactive
    <3>2. \/ commits(w, b, "reject_audit") \/ commits(w, c, "dup_delete")
          \/ commits(w, e, "race_escalate")
      BY <1>8 DEF scan_reject, scan_duplicate, scan_race_lost
    <3> HIDE DEF b, c, e
    <3> QED
      BY <3>1, <3>2
  <2>3. pc \in TaskPcs /\ pc \in ScanPcs /\ ~IntegrityError(DocOf(w), dto)
    BY <2>2 DEF TaskPcs, Loaded, ScanPcs, IntegrityError, Active, Inactive
  <2>4. docs'[d].status \in {"REJECTED", "DUPLICATE"} /\ Goto(w, pc) /\ store' = store
    BY <2>2, <2>3, CommitsTo
  <2>5. task'[w].pc = pc
    BY <1>4, <2>3, <2>4
  <2>6. Due(w, task'[w].pc, StatusEvent(docs'[d].status))
    <3>1. StatusEvent(docs'[d].status) = "DOCUMENT_REJECTED"
      BY <2>4 DEF StatusEvent
    <3> QED
      BY <1>1, <2>5, <3>1 DEF Due
  <2>7. pc \in ScanClosing
    BY DEF ScanClosing
  <2> QED
    BY <1>1, <2>1, <2>4, <2>5, <2>6, <2>7 DEF Due, TextStageNames
<1>9. CASE scan_validated(w)
  <2>1. task[w].doc \in DocRows /\ task[w].pc = "validated" /\ store' = store
    BY <1>2, <1>3, <1>9 DEF scan_validated, At, ScanPcs
  <2>2. CASE Goto(w, "race_lost") /\ UNCHANGED docs
    <3>1. task'[w].pc = "race_lost"
      BY <1>4, <2>2 DEF ScanPcs
    <3> QED
      BY <1>1, <2>1, <2>2, <3>1 DEF Due, TextStageNames
  <2>3. CASE Goto(w, "promoted_audit") /\ update_document(DocOf(w), Promoted(w))
    <3>1. Promoted(w) \in DocRows /\ Promoted(w).status = "VALIDATED"
      BY <2>1 DEF Promoted, DocRows, DocumentStatus
    <3>2. docs'[d].status = "VALIDATED"
      BY <2>3, <3>1, UpdatesTo
    <3>3. task'[w].pc = "promoted_audit"
      BY <1>4, <2>3 DEF ScanPcs
    <3>4. StatusEvent(docs'[d].status) = "DOCUMENT_PROMOTED"
      BY <3>2 DEF StatusEvent
    <3>5. Due(w, task'[w].pc, StatusEvent(docs'[d].status))
      BY <1>1, <3>3, <3>4 DEF Due
    <3> QED
      BY <1>1, <2>1, <3>3, <3>5 DEF Due, TextStageNames, ScanClosing
  <2> QED
    BY <1>9, <2>2, <2>3 DEF scan_validated
<1>10. CASE scan_dedup(w) \/ scan_race_escalate(w)
  <2>1. /\ task[w].doc \in DocRows /\ store' = store
        /\ \/ task[w].pc = "dedup" /\ scan_dedup(w)
           \/ task[w].pc = "race_escalate" /\ scan_race_escalate(w)
    BY <1>2, <1>3, <1>10 DEF scan_dedup, scan_race_escalate, At, ScanPcs
  <2>2. ASSUME NEW e \in get_by_checksum(task[w].doc.sha), NEW a \in ScanPcs, NEW pc \in ScanPcs,
               escalates(w, e, a, pc)
        PROVE  task'[w].pc \in {a, pc} /\ docs'[d].status = docs[d].status
    <3>1. e \in Docs /\ a \in TaskPcs /\ pc \in TaskPcs
      BY <1>3 DEF get_by_checksum
    <3> QED
      BY <2>1, <2>2, <3>1, EscalatesTo
  <2>3. CASE scan_dedup(w)
    <3>1. /\ docs'[d].status = docs[d].status
          /\ task'[w].pc \in {"tier_audit", "duplicate", "promote"}
      <4>1. \/ Goto(w, "promote") /\ UNCHANGED docs
            \/ \E e \in get_by_checksum(task[w].doc.sha) :
                  escalates(w, e, "tier_audit", "duplicate")
        BY <2>3 DEF scan_dedup
      <4>2. {"tier_audit", "duplicate", "promote"} \subseteq ScanPcs
        BY DEF ScanPcs
      <4> QED
        BY <1>4, <2>2, <4>1, <4>2
    <3>2. task[w].pc = "dedup"
      BY <2>3 DEF scan_dedup, At
    <3> QED
      BY <1>1, <2>1, <3>1, <3>2 DEF Due, TextStageNames
  <2>4. CASE scan_race_escalate(w)
    <3>1. /\ docs'[d].status = docs[d].status
          /\ task'[w].pc \in {"race_tier_audit", "race_audit"}
      <4>1. \/ Goto(w, "race_audit") /\ UNCHANGED docs
            \/ \E e \in get_by_checksum(task[w].doc.sha) :
                  escalates(w, e, "race_tier_audit", "race_audit")
        BY <2>4 DEF scan_race_escalate
      <4>2. {"race_tier_audit", "race_audit"} \subseteq ScanPcs
        BY DEF ScanPcs
      <4> QED
        BY <1>4, <2>2, <4>1, <4>2
    <3>2. task[w].pc = "race_escalate"
      BY <2>4 DEF scan_race_escalate, At
    <3> QED
      BY <1>1, <2>1, <3>1, <3>2 DEF Due, TextStageNames
  <2> QED
    BY <1>10, <2>3, <2>4
<1>11. CASE \/ scan_reject_audit(w) \/ scan_tier_audit(w) \/ scan_dup_audit(w)
            \/ scan_race_tier_audit(w) \/ scan_race_audit(w) \/ scan_promoted_audit(w)
  <2>1. ASSUME NEW e, NEW events, NEW pc \in Outcomes \cup ScanPcs, audits(w, e, events, pc)
        PROVE  /\ docs' = docs /\ store' = store /\ task'[w].pc = pc
               /\ audit' = audit \cup ({e} \X events)
    <3>1. Goto(w, pc) /\ docs' = docs /\ store' = store /\ audit' = audit \cup ({e} \X events)
      BY <1>1, <2>1 DEF audits, log_event
    <3> QED
      BY <1>4, <3>1
  <2>2. {"ok", "reject_delete", "duplicate", "race_audit", "enqueue_extract"}
           \subseteq Outcomes \cup ScanPcs
    BY DEF Outcomes, ScanPcs
  <2>3. CASE scan_tier_audit(w)
    BY <1>1, <2>1, <2>2, <2>3 DEF scan_tier_audit, At, Due, TextStageNames
  <2>4. CASE scan_race_tier_audit(w)
    BY <1>1, <2>1, <2>2, <2>4 DEF scan_race_tier_audit, At, Due, TextStageNames
  <2>5. CASE scan_reject_audit(w)
    BY <1>1, <2>1, <2>2, <2>5 DEF scan_reject_audit, At, Due, TextStageNames
  <2>6. CASE scan_dup_audit(w)
    BY <1>1, <2>1, <2>2, <2>6 DEF scan_dup_audit, At, Due, TextStageNames
  <2>7. CASE scan_race_audit(w)
    BY <1>1, <2>1, <2>2, <2>7 DEF scan_race_audit, At, Due, TextStageNames, ScanClosing
  <2>8. CASE scan_promoted_audit(w)
    BY <1>1, <2>1, <2>2, <2>8 DEF scan_promoted_audit, At, Due, TextStageNames
  <2> QED
    BY <1>11, <2>3, <2>4, <2>5, <2>6, <2>7, <2>8
<1>12. CASE scan_reject_delete(w) \/ scan_dup_delete(w) \/ scan_clear(w)
  <2>1. PICK pc \in {"ok", "dup_audit", "validated"} :
           /\ docs' = docs /\ Goto(w, pc)
           /\ \/ task[w].pc = "reject_delete" /\ pc = "ok"
              \/ task[w].pc = "dup_delete" /\ pc = "dup_audit"
              \/ task[w].pc = "clear" /\ pc = "validated"
    BY <1>12 DEF scan_reject_delete, scan_dup_delete, scan_clear, At
  <2>2. task'[w].pc = pc
    BY <1>4, <2>1 DEF Outcomes, ScanPcs
  <2> QED
    BY <1>1, <2>1, <2>2 DEF Due, TextStageNames, ScanClosing
<1>13. CASE scan_promote(w) \/ scan_enqueue(w)
  <2>1. PICK pc \in {"ok", "clear"} :
           /\ docs' = docs /\ Goto(w, pc) /\ task[w].pc \in {"promote", "enqueue_extract"}
           /\ store \subseteq store'
    BY <1>13 DEF scan_promote, scan_enqueue, enqueues, Copied, At, corpusVars
  <2>2. task'[w].pc = pc
    BY <1>4, <2>1 DEF Outcomes, ScanPcs
  <2> QED
    BY <1>1, <2>1, <2>2 DEF Due, TextStageNames
<1> QED
  BY <1>5, <1>6, <1>7, <1>8, <1>9, <1>10, <1>11, <1>12, <1>13 DEF ScanNext

\* So does a text handler.
LEMMA TextRecords ==
    ASSUME QueueTypeOK, TypeOK, NEW w \in Workers, WorkerStage[w] \notin DatabaseFaults,
           TextNext(w), NEW d \in Docs, d = DocOf(w)
    PROVE  /\ \/ docs'[d].status = docs[d].status
              \/ Due(w, task'[w].pc, StatusEvent(docs'[d].status))
           /\ \A event : Due(w, task[w].pc, event) =>
                 Due(w, task'[w].pc, event) \/ <<d, event>> \in audit'
<1>1. /\ docs \in [Docs -> DocRows] /\ task \in [Workers -> TaskStates]
      /\ task[w].pc \in Loaded => task[w].doc \in DocRows
  BY DEF TypeOK, TaskFits
<1>2. {"read"} \cup TextPcs \subseteq Loaded /\ Outcomes \cup TextPcs \subseteq TaskPcs
  BY DEF Loaded, TaskPcs, Outcomes, TextPcs
<1>3. ASSUME NEW pc \in Outcomes \cup TextPcs, Goto(w, pc)
      PROVE  task'[w].pc = pc
  BY <1>2, <1>3, Goes
<1>4. PICK s \in TextStageNames :
         \/ Common(w, s)
         \/ s = "EXTRACT" /\ extract_no_raw(w)
         \/ s = "CHUNK" /\ chunk_persist(w)
         \/ /\ s = "EMBED"
            /\ \/ embed_work(w) \/ embed_store(w) \/ embed_unsupported(w) \/ embed_skip(w)
               \/ embed_skip_audit(w)
  BY DEF TextNext, extract_process, normalize_process, chunk_process, embed_process, TextStageNames
<1>5. WorkerStage[w] = s
  BY <1>4 DEF Common, stage_load, stage_read, stage_read_fails, stage_work, stage_work_fails,
     stage_put, stage_put_fails, stage_commit, stage_audit, stage_enqueue, stage_fail,
     stage_fail_audit, extract_no_raw, chunk_persist, embed_work, embed_store,
     embed_unsupported, embed_skip, embed_skip_audit, InStage
<1>6. /\ DoneStatus[s] \in DocumentStatus /\ FailStatus[s] \in DocumentStatus
      /\ StatusEvent(DoneStatus[s]) = DoneEvent[s] /\ StatusEvent(FailStatus[s]) = FailStatus[s]
      /\ StatusEvent("SKIPPED_UNSUPPORTED_LANGUAGE") = "EMBEDDING_SKIPPED"
      /\ "SKIPPED_UNSUPPORTED_LANGUAGE" \in DocumentStatus
  BY DEF DoneStatus, FailStatus, DoneEvent, StatusEvent, TextStageNames, DocumentStatus
<1>7. ASSUME task[w].pc \in {"start", "read", "work", "put"}, docs' = docs
      PROVE  /\ docs'[d].status = docs[d].status
             /\ \A event : ~Due(w, task[w].pc, event)
  BY <1>7 DEF Due
<1>8. CASE \/ stage_load(w, s) \/ stage_read(w, s) \/ stage_read_fails(w, s)
           \/ stage_work(w, s) \/ stage_work_fails(w, s) \/ stage_put(w, s)
           \/ stage_put_fails(w, s) \/ extract_no_raw(w) \/ chunk_persist(w)
           \/ embed_work(w) \/ embed_store(w) \/ embed_unsupported(w)
  <2>1. task[w].pc \in {"start", "read", "work", "put"} /\ docs' = docs
    BY <1>8 DEF stage_load, stage_read, stage_read_fails, stage_work, stage_work_fails,
       stage_put, stage_put_fails, extract_no_raw, chunk_persist, embed_work, embed_store,
       embed_unsupported, loads, InStage, At, corpusVars
  <2> QED
    BY <1>7, <2>1
<1>9. CASE stage_commit(w, s) \/ stage_fail(w, s) \/ (s = "EMBED" /\ embed_skip(w))
  <2>1. task[w].pc \in {"commit", "fail", "skip"} /\ task[w].doc \in DocRows
    BY <1>1, <1>2, <1>9 DEF stage_commit, stage_fail, embed_skip, InStage, At, TextPcs
  <2>2. PICK x \in DocumentStatus, pc \in {"enqueue", "audit", "fail_audit", "skip_audit"} :
           /\ commits(w, [task[w].doc EXCEPT !.status = x], pc)
           /\ Due(w, pc, StatusEvent(x))
    <3>1. Due(w, IF s = "CHUNK" THEN "enqueue" ELSE "audit", DoneEvent[s])
      BY <1>5 DEF Due
    <3>2. Due(w, "fail_audit", FailStatus[s]) /\ Due(w, "skip_audit", "EMBEDDING_SKIPPED")
      BY <1>5 DEF Due
    <3> QED
      BY <1>6, <1>9, <3>1, <3>2 DEF stage_commit, stage_fail, embed_skip
  <2> DEFINE dto == [task[w].doc EXCEPT !.status = x]
  <2>3. dto \in DocRows /\ dto.status = x /\ commits(w, dto, pc)
    BY <2>1, <2>2 DEF DocRows
  <2>4. pc \in TextPcs
    BY DEF TextPcs
  <2> HIDE DEF dto
  <2>5. docs' = docs \/ (docs'[d].status = x /\ Goto(w, pc))
    BY <1>2, <2>3, <2>4, CommitsTo
  <2>6. \A event : ~Due(w, task[w].pc, event)
    BY <2>1 DEF Due
  <2> QED
    BY <1>3, <2>2, <2>4, <2>5, <2>6
<1>10. CASE stage_enqueue(w, s)
  <2>1. /\ docs' = docs /\ task[w].pc = "enqueue"
        /\ Goto(w, IF s = "CHUNK" THEN "audit" ELSE "ok")
    BY <1>10 DEF stage_enqueue, enqueues, InStage, At, corpusVars
  <2>2. s = "CHUNK" => task'[w].pc = "audit"
    BY <1>3, <2>1 DEF TextPcs
  <2> QED
    BY <1>5, <2>1, <2>2 DEF Due
<1>11. CASE \/ stage_audit(w, s) \/ stage_fail_audit(w, s) \/ (s = "EMBED" /\ embed_skip_audit(w))
  <2>1. ASSUME NEW event, NEW pc, audits(w, d, {event}, pc)
        PROVE  docs' = docs /\ <<d, event>> \in audit'
    BY <1>5, <2>1 DEF audits, log_event
  <2>2. CASE stage_audit(w, s)
    BY <1>5, <2>1, <2>2 DEF stage_audit, InStage, At, Due
  <2>3. CASE stage_fail_audit(w, s)
    BY <1>5, <2>1, <2>3 DEF stage_fail_audit, InStage, At, Due
  <2>4. CASE embed_skip_audit(w)
    BY <1>5, <2>1, <2>4 DEF embed_skip_audit, InStage, At, Due
  <2> QED
    BY <1>11, <2>2, <2>3, <2>4
<1> QED
  BY <1>4, <1>8, <1>9, <1>10, <1>11 DEF Common

\* Leases keep, SCAN is fed by uploads alone and reads what they stored, no worker dies or
\* meets a database fault, and nobody deletes or resets.
Reliable ==
    /\ LeaseLoss = {} /\ Deletes = {} /\ "reset" \notin Backfills
    /\ "SCAN" \notin BackfillStages \cup StorageFaults
    /\ (Crashes \cup DatabaseFaults) \cap Stages = {}

\* A step that takes nobody off a document and tells nothing of one keeps the account.
LEMMA AccountKept ==
    ASSUME UNCHANGED <<docs, store, audit, upload>>,
           \A v \in Workers : workers[v].pc = "processing" /\ task[v].pc \in Loaded =>
              workers'[v] = workers[v] /\ task'[v] = task[v],
           BytesThere, StatusAccounted
    PROVE  BytesThere' /\ StatusAccounted'
<1>1. ASSUME NEW d \in Docs, Promoting(d) PROVE Promoting(d)'
  <2>1. PICK v \in Workers :
           /\ workers[v].pc = "processing" /\ WorkerStage[v] = "SCAN" /\ DocOf(v) = d
           /\ task[v].pc \in {"validated", "race_lost"}
    BY <1>1 DEF Promoting
  <2>2. workers'[v] = workers[v] /\ task'[v] = task[v]
    BY <2>1 DEF Loaded, ScanPcs
  <2> QED
    BY <2>1, <2>2 DEF Promoting, DocOf
<1>2. ASSUME NEW d \in Docs, NEW event, Accounted(d, event) PROVE Accounted(d, event)'
  <2>1. CASE <<d, event>> \in audit
    BY <2>1 DEF Accounted
  <2>2. ASSUME NEW v \in Workers, Owes(v, event), DocOf(v) = d PROVE Accounted(d, event)'
    <3>1. workers'[v] = workers[v] /\ task'[v] = task[v]
      BY <2>2 DEF Owes, Due, Loaded, ScanPcs, TextPcs
    <3> QED
      BY <2>2, <3>1 DEF Accounted, Owes, DocOf
  <2> QED
    BY <1>2, <2>1, <2>2 DEF Accounted
<1>3. BytesThere'
  BY <1>1 DEF BytesThere, ScanOpen
<1>4. StatusAccounted'
  <2> SUFFICES ASSUME NEW d \in Docs, docs'[d].status # "ABSENT", ~ScanOpen(d)'
               PROVE  Accounted(d, StatusEvent(docs[d].status))'
    BY DEF StatusAccounted, StatusEvent
  <2>1. PICK event : event = StatusEvent(docs[d].status) /\ event = StatusEvent(docs'[d].status)
    OBVIOUS
  <2>2. Accounted(d, event)'
    BY <1>2, <2>1 DEF StatusAccounted, ScanOpen
  <2> QED
    BY <2>1, <2>2 DEF Accounted, Owes
<1> QED
  BY <1>3, <1>4

\* Nobody reaps, and what a worker claims, renews, returns or writes keeps the account.
LEMMA QueueAudits ==
    ASSUME Reliable, QueueTypeOK, TypeOK, TypeOK', HeldInv, AuditInv, NEW w \in Workers,
           \/ Claims(w) \/ Renews(w) \/ Reaps(w) \/ Writes(w) \/ CompletionFails(w)
           \/ WorkerDies(w) \/ (Handles(w) /\ returns(w)) \/ Aborts(w)
    PROVE  AuditInv'
<1>1. /\ UNCHANGED <<docs, store, audit, upload>> /\ \A v \in Workers : Undisturbed(v)
      /\ \A v \in Workers \ {w} : workers'[v] = workers[v] /\ task'[v] = task[v]
  BY QueueSteps, OthersKeep DEF corpusVars, apiVars
<1>2. /\ jobs \in [Jobs -> JobRows] /\ workers \in [Workers -> WorkerStates]
      /\ task \in [Workers -> TaskStates]
      /\ \A v \in Workers : workers[v].pc # "idle" => workers[v].job \in Jobs
      /\ \A v \in Workers : workers[v].pc # "idle" =>
            /\ JobStage[workers[v].job] = WorkerStage[v]
            /\ jobs[workers[v].job].status = "RUNNING"
      /\ workers[w].pc # "processing" => task[w].pc = "start"
  BY HasDocument DEF QueueTypeOK, TypeOK, TaskFits, HeldInv, Reliable
<1>3. \A e \in Docs : ScanOpen(e)' = ScanOpen(e)
  BY <1>1 DEF ScanOpen
<1>4. ~Reaps(w) /\ ~CompletionFails(w) /\ ~WorkerDies(w) /\ ~Aborts(w)
  <2>1. WorkerStage[w] \notin DatabaseFaults /\ WorkerStage[w] \notin Crashes
    BY QueueAssumption DEF Reliable
  <2>2. \A j \in Jobs : ~Expired(j)
    BY DEF AuditInv, WellAttended, Expired
  <2> QED
    BY <2>1, <2>2 DEF Reaps, reap_stuck_jobs, CompletionFails, WorkerDies, Aborts, aborts
<1>5. TextAfterScan'
  <2> SUFFICES ASSUME NEW v \in Workers, WorkerStage[v] \in TextStageNames, task'[v].pc \in TextOpen
               PROVE  ~ScanOpen(DocOf(v))'
    BY DEF TextAfterScan
  <2>1. task'[v] = task[v] /\ DocOf(v)' = DocOf(v) /\ ~ScanOpen(DocOf(v))
    BY <1>1 DEF Undisturbed, DocOf, TextOpen, Loaded, TextPcs, AuditInv, TextAfterScan
  <2> QED
    BY <1>1, <2>1 DEF ScanOpen
<1>6. UploadQueued'
  <2>1. \A j \in Jobs : jobs[j].status # "ABSENT" => jobs'[j].status # "ABSENT"
    <3>1. CASE Claims(w)
      BY <1>2, <3>1, RowEdits DEF Claims, pick_job
    <3>2. CASE Renews(w)
      BY <1>2, <3>2 DEF Renews, renew_once, Renewed, JobRows
    <3>3. CASE Writes(w)
      BY <1>2, <3>3, RowEdits DEF Writes, WriteOutcome, mark_job_completed,
         handle_job_retry_or_fail, mark_job_failed
    <3>4. CASE returns(w)
      BY <3>4 DEF returns, process_job_ends
    <3> QED
      BY <1>4, <3>1, <3>2, <3>3, <3>4
  <2> QED
    BY <1>1, <2>1 DEF AuditInv, UploadQueued, NeverQueued
<1>7. ASSUME NEW v \in Workers, NEW j \in Jobs, WorksOn(v, j), v # w PROVE WorksOn(v, j)'
  BY <1>1, <1>7 DEF WorksOn
<1>8. ASSUME NEW j \in Jobs, jobs[j].status = "RUNNING"
      PROVE  jobs[j].lease = "held" /\ \E v \in Workers : jobs[j].worker_id = v /\ WorksOn(v, j)
  BY <1>8 DEF AuditInv, WellAttended, Attended
<1>9. CASE Claims(w)
  <2>1. PICK j \in Jobs : pick_job(w, j)
    BY <1>9 DEF Claims
  <2>2. /\ jobs' = [jobs EXCEPT ![j] = Claimed(jobs[j], w)] /\ jobs[j].status = "PENDING"
        /\ workers' = [workers EXCEPT ![w] = Claiming(j, jobs[j].retry_count)]
        /\ workers[w].pc = "idle" /\ JobStage[j] = WorkerStage[w] /\ task' = task
    BY <1>9, <2>1 DEF Claims, pick_job
  <2>3. /\ \A i \in Jobs \ {j} : jobs'[i] = jobs[i]
        /\ workers'[w].job = j /\ workers'[w].pc = "processing" /\ workers'[w].outcome = "ok"
        /\ jobs'[j].status = "RUNNING" /\ jobs'[j].lease = "held" /\ jobs'[j].worker_id = w
    BY <1>2, <2>2 DEF Claiming, Claimed, JobRows
  <2>4. WellAttended'
    <3> SUFFICES ASSUME NEW i \in Jobs, jobs'[i].status = "RUNNING"
                 PROVE  jobs'[i].lease = "held" /\ Attended(i)'
      BY DEF WellAttended
    <3>1. CASE i = j
      BY <2>3, <3>1 DEF Attended, WorksOn
    <3>2. CASE i # j
      <4>1. PICK v \in Workers : jobs[i].worker_id = v /\ WorksOn(v, i)
        BY <1>8, <2>3, <3>2
      <4>2. v # w
        BY <2>2, <4>1 DEF WorksOn
      <4> QED
        BY <1>7, <1>8, <2>3, <3>2, <4>1, <4>2 DEF Attended
    <3> QED
      BY <3>1, <3>2
  <2>5. ScansInTime'
    <3> SUFFICES ASSUME NEW v \in Workers, workers'[v].pc # "idle", WorkerStage[v] = "SCAN"
                 PROVE  ScanOver(v)' \/ ScanOpen(DocOf(v))'
      BY DEF ScansInTime
    <3>1. CASE v = w
      <4>1. PICK e \in Docs : e = JobDoc[j]
        BY CorpusAssumption
      <4>2. ScanOpen(e) /\ DocOf(v)' = e
        BY <2>2, <2>3, <3>1, <4>1 DEF AuditInv, ScanJobsOpen, DocOf
      <4> QED
        BY <1>1, <4>2 DEF ScanOpen
    <3>2. CASE v # w
      BY <1>1, <3>2 DEF AuditInv, ScansInTime, ScanOver, ScanOpen, DocOf
    <3> QED
      BY <3>1, <3>2
  <2>6. ScanJobsOpen'
    BY <1>1, <2>3 DEF AuditInv, ScanJobsOpen, ScanOpen
  <2>7. ScanNeverFails'
    BY <1>1, <2>2, <2>3 DEF AuditInv, ScanNeverFails, ScanSucceeds
  <2>8. BytesThere' /\ StatusAccounted'
    BY <1>1, <2>2, AccountKept DEF AuditInv
  <2> QED
    BY <1>5, <1>6, <2>4, <2>5, <2>6, <2>7, <2>8 DEF AuditInv
<1>10. CASE Renews(w)
  <2>1. PICK j \in Jobs : j = workers[w].job /\ jobs[j].status = "RUNNING"
    BY <1>2, <1>10 DEF Renews, renew_once
  <2>2. workers' = workers /\ task' = task /\ jobs' = [jobs EXCEPT ![j] = Renewed(jobs[j])]
    BY <1>10, <2>1 DEF Renews, renew_once
  <2>3. /\ \A i \in Jobs \ {j} : jobs'[i] = jobs[i]
        /\ jobs'[j].status = "RUNNING" /\ jobs'[j].lease = "held"
        /\ jobs'[j].worker_id = jobs[j].worker_id
    BY <1>2, <2>1, <2>2 DEF Renewed, JobRows
  <2>4. WellAttended'
    BY <1>8, <2>1, <2>2, <2>3 DEF WellAttended, Attended, WorksOn
  <2>5. ScansInTime' /\ ScanJobsOpen' /\ ScanNeverFails'
    BY <1>1, <2>2, <2>3 DEF AuditInv, ScansInTime, ScanJobsOpen, ScanNeverFails, ScanSucceeds,
       ScanOver, ScanOpen, DocOf
  <2>6. BytesThere' /\ StatusAccounted'
    BY <1>1, <2>2, AccountKept DEF AuditInv
  <2> QED
    BY <1>5, <1>6, <2>4, <2>5, <2>6 DEF AuditInv
<1>11. CASE Writes(w)
  <2>1. PICK j \in Jobs : j = workers[w].job /\ workers[w].pc = "finishing"
    BY <1>2, <1>11 DEF Writes, WriteOutcome, mark_job_completed, handle_job_retry_or_fail,
       mark_job_failed
  <2>2. /\ \A i \in Jobs \ {j} : jobs'[i] = jobs[i]
        /\ jobs'[j].status \in {"COMPLETED", "FAILED", "PENDING"}
        /\ workers[w].outcome = "ok" => jobs'[j].status = "COMPLETED"
        /\ workers'[w] = IdleWorker /\ task' = task
    <3>1. /\ Completed(jobs[j]).status = "COMPLETED" /\ Failed(jobs[j]).status = "FAILED"
          /\ Requeued(jobs[j]).status = "PENDING"
      BY <1>2, RowEdits
    <3>2. CASE mark_job_completed(w)
      BY <1>2, <1>11, <2>1, <3>1, <3>2 DEF Writes, mark_job_completed
    <3>3. CASE handle_job_retry_or_fail(w)
      BY <1>2, <1>11, <2>1, <3>1, <3>3 DEF Writes, handle_job_retry_or_fail
    <3>4. CASE mark_job_failed(w)
      BY <1>2, <1>11, <2>1, <3>1, <3>4 DEF Writes, mark_job_failed
    <3> QED
      BY <1>11, <3>2, <3>3, <3>4 DEF Writes, WriteOutcome
  <2>3. WellAttended'
    <3> SUFFICES ASSUME NEW i \in Jobs, jobs'[i].status = "RUNNING"
                 PROVE  jobs'[i].lease = "held" /\ Attended(i)'
      BY DEF WellAttended
    <3>1. i # j
      BY <2>2
    <3>2. PICK v \in Workers : jobs[i].worker_id = v /\ WorksOn(v, i)
      BY <1>8, <2>2, <3>1
    <3>3. v # w
      BY <2>1, <3>1, <3>2 DEF WorksOn
    <3> QED
      BY <1>7, <1>8, <2>2, <3>1, <3>2, <3>3 DEF Attended
  <2>4. ScansInTime'
    BY <1>1, <2>2 DEF AuditInv, ScansInTime, ScanOver, ScanOpen, DocOf, IdleWorker
  <2>5. JobStage[j] = "SCAN" => jobs'[j].status = "COMPLETED"
    BY <1>2, <2>1, <2>2 DEF AuditInv, ScanNeverFails, ScanSucceeds
  <2>6. ScanJobsOpen' /\ ScanNeverFails'
    BY <1>1, <2>2, <2>5 DEF AuditInv, ScanJobsOpen, ScanNeverFails, ScanSucceeds, ScanOpen,
       IdleWorker
  <2>7. BytesThere' /\ StatusAccounted'
    BY <1>1, <2>1, <2>2, AccountKept DEF AuditInv
  <2> QED
    BY <1>5, <1>6, <2>3, <2>4, <2>6, <2>7 DEF AuditInv
<1>12. CASE returns(w)
  <2>1. /\ jobs' = jobs /\ workers[w].pc = "processing" /\ task[w].pc \in Outcomes
        /\ workers'[w].pc = "finishing" /\ workers'[w].outcome = task[w].pc
        /\ workers'[w].job = workers[w].job /\ task'[w].pc = "start"
    BY <1>2, <1>12 DEF returns, process_job_ends, Ended, WorkerStates, NoTask
  <2>2. WellAttended'
    BY <1>1, <1>8, <2>1 DEF WellAttended, Attended, WorksOn
  <2>3. WorkerStage[w] = "SCAN" => task[w].pc = "ok"
    BY <2>1 DEF AuditInv, ScanNeverFails, ScanSucceeds, Outcomes
  <2>4. ScansInTime'
    <3> SUFFICES ASSUME NEW v \in Workers, workers'[v].pc # "idle", WorkerStage[v] = "SCAN"
                 PROVE  ScanOver(v)' \/ ScanOpen(DocOf(v))'
      BY DEF ScansInTime
    <3>1. CASE v = w
      BY <2>1, <2>3, <3>1 DEF ScanOver
    <3>2. CASE v # w
      BY <1>1, <3>2 DEF AuditInv, ScansInTime, ScanOver, ScanOpen, DocOf
    <3> QED
      BY <3>1, <3>2
  <2>5. ScanJobsOpen' /\ ScanNeverFails'
    BY <1>1, <2>1, <2>3 DEF AuditInv, ScanJobsOpen, ScanNeverFails, ScanSucceeds, ScanOpen
  <2>6. BytesThere' /\ StatusAccounted'
    BY <1>1, <2>1, AccountKept DEF AuditInv, Outcomes, Loaded, ScanPcs, TextPcs
  <2> QED
    BY <1>5, <1>6, <2>2, <2>4, <2>5, <2>6 DEF AuditInv
<1> QED
  BY <1>4, <1>9, <1>10, <1>11, <1>12

\* A handler queues no scan, and no job but a new one.
LEMMA HandlerQueues ==
    ASSUME QueueTypeOK, NEW w \in Workers, ScanNext(w) \/ TextNext(w), NEW j \in Jobs
    PROVE  \/ jobs'[j] = jobs[j]
           \/ jobs[j].status = "ABSENT" /\ jobs'[j].status = "PENDING" /\ JobStage[j] # "SCAN"
<1>1. \/ jobs' = jobs
      \/ \E i \in Jobs : JobStage[i] # "SCAN" /\ AddJob(i)
  <2>1. CASE ScanNext(w)
    BY <2>1 DEF ScanNext, scan_load, scan_read, scan_read_fails, scan_reject, scan_reject_audit,
       scan_reject_delete, scan_dedup, scan_tier_audit, scan_duplicate, scan_dup_delete,
       scan_dup_audit, scan_promote, scan_promote_fails, scan_clear, scan_validated,
       scan_race_lost, scan_race_escalate, scan_race_tier_audit, scan_race_audit,
       scan_promoted_audit, scan_enqueue, loads, commits, audits, enqueues, queueVars
  <2>2. ASSUME NEW s \in TextStageNames, s # "EMBED", stage_enqueue(w, s)
        PROVE  \E i \in Jobs : JobStage[i] # "SCAN" /\ AddJob(i)
    BY <2>2 DEF stage_enqueue, enqueues, NextStage, TextStageNames
  <2>3. ASSUME NEW s \in TextStageNames, Common(w, s)
        PROVE  jobs' = jobs \/ (s # "EMBED" /\ stage_enqueue(w, s))
    BY <2>3 DEF Common, stage_load, stage_read, stage_read_fails, stage_work,
       stage_work_fails, stage_put, stage_put_fails, stage_commit, stage_audit, stage_fail,
       stage_fail_audit, stage_enqueue, loads, commits, audits, queueVars
  <2>4. CASE TextNext(w)
    BY <2>2, <2>3, <2>4 DEF TextNext, extract_process, normalize_process, chunk_process,
       embed_process, extract_no_raw, chunk_persist, embed_work, embed_store,
       embed_unsupported, embed_skip, embed_skip_audit, commits, audits, queueVars, TextStageNames
  <2> QED
    BY <2>1, <2>4
<1> QED
  BY <1>1, NewRows DEF AddJob, QueueTypeOK

\* What a handler does to a document it records, or is about to.
LEMMA HandlerAudits ==
    ASSUME Reliable, QueueTypeOK, TypeOK, TypeOK', HeldInv, UploadInv, ScanSolo, StrandInv,
           StrandInv', AuditInv, NEW w \in Workers, ScanNext(w) \/ TextNext(w), UNCHANGED apiVars
    PROVE  AuditInv'
<1>1. /\ workers' = workers /\ workers[w].pc = "processing" /\ upload' = upload
      /\ \A v \in Workers \ {w} : task'[v] = task[v]
      /\ \A v \in Workers : DocOf(v)' = DocOf(v)
  BY HandlerFrame DEF apiVars, DocOf
<1>2. PICK d \in Docs : d = DocOf(w) /\ d = JobDoc[workers[w].job]
  BY <1>1, HasDocument DEF DocOf
<1>3. /\ workers[w].job \in Jobs /\ jobs[workers[w].job].status = "RUNNING"
      /\ JobStage[workers[w].job] = WorkerStage[w] /\ WorkerStage[w] \in Stages
  BY <1>1, HasDocument, QueueAssumption DEF HeldInv, Reliable
<1>4. WorkerStage[w] = "SCAN" => upload[d] # "stored"
  BY <1>2, <1>3 DEF UploadInv, OneScanJob
<1>5. \A j \in Jobs :
         \/ jobs'[j] = jobs[j]
         \/ jobs[j].status = "ABSENT" /\ jobs'[j].status = "PENDING" /\ JobStage[j] # "SCAN"
  BY HandlerQueues
<1>6. ASSUME WorkerStage[w] = "SCAN", task[w].pc \notin ScanClosing PROVE ScanOpen(d)
  BY <1>1, <1>2, <1>6 DEF AuditInv, ScansInTime, ScanOver
<1>7. ScanNext(w) => WorkerStage[w] = "SCAN"
  BY ScanMoves
<1>8. TextNext(w) => WorkerStage[w] \in TextStageNames /\ WorkerStage[w] # "SCAN"
  BY TextMoves DEF TextStageNames
<1>9. ASSUME ScanNext(w)
      PROVE  <<"quarantine", d>> \in store \/ task[w].pc \notin {"read", "promote"}
  <2> SUFFICES ASSUME task[w].pc \in {"read", "promote"} PROVE <<"quarantine", d>> \in store
    OBVIOUS
  <2>1. <<"quarantine", d>> \in store \/ Promoting(d)
    BY <1>6, <1>7, <1>9 DEF AuditInv, BytesThere, ScanClosing
  <2>2. ASSUME Promoting(d) PROVE FALSE
    <3>1. PICK v \in Workers :
             /\ workers[v].pc = "processing" /\ WorkerStage[v] = "SCAN" /\ DocOf(v) = d
             /\ task[v].pc \in {"validated", "race_lost"}
      BY <2>2 DEF Promoting
    <3>2. v = w
      BY <1>1, <1>2, <1>7, <1>9, <3>1 DEF ScanSolo
    <3> QED
      BY <3>1, <3>2
  <2> QED
    BY <2>1, <2>2
<1>10. ASSUME ScanNext(w)
       PROVE  /\ task'[w].pc \notin {"transient", "permanent"}
              /\ \/ docs'[d].status = docs[d].status
                 \/ Due(w, task'[w].pc, StatusEvent(docs'[d].status))
              /\ \A event : Due(w, task[w].pc, event) =>
                    Due(w, task'[w].pc, event) \/ <<d, event>> \in audit'
              /\ <<"quarantine", d>> \in store =>
                    \/ <<"quarantine", d>> \in store'
                    \/ task'[w].pc = "validated" \/ task[w].pc \in ScanClosing
              /\ task[w].pc \in {"validated", "race_lost"} =>
                    task'[w].pc \in {"race_lost"} \cup ScanClosing
  <2>1. "SCAN" \notin StorageFaults \cup DatabaseFaults
    BY <1>3, <1>7, <1>10 DEF Reliable
  <2> QED
    BY <1>2, <1>9, <1>10, <2>1, ScanRecords
<1>11. ASSUME TextNext(w)
       PROVE  /\ \/ docs'[d].status = docs[d].status
                 \/ Due(w, task'[w].pc, StatusEvent(docs'[d].status))
              /\ \A event : Due(w, task[w].pc, event) =>
                    Due(w, task'[w].pc, event) \/ <<d, event>> \in audit'
  <2>1. WorkerStage[w] \notin DatabaseFaults
    BY <1>3 DEF Reliable
  <2> QED
    BY <1>2, <1>11, <2>1, TextRecords
<1>12. /\ \A e \in Docs \ {d} : docs'[e].status = docs[e].status
       /\ docs'[d].status = "ABSENT" => docs[d].status = "ABSENT"
       /\ ScanOpen(d)' => ScanOpen(d)
       /\ ScanOpen(d) => \/ ScanOpen(d)'
                         \/ WorkerStage[w] = "SCAN" /\ task'[w].pc \in ScanClosing
  <2>1. CASE ScanNext(w)
    BY <1>2, <1>6, <1>7, <2>1, ScanMoves DEF ScanOpen
  <2>2. CASE TextNext(w)
    <3>1. docs'[d].status = docs[d].status \/ docs'[d].status \notin
             {"ABSENT", "QUARANTINED", "VALIDATION_FAILED"}
      BY <1>2, <2>2, TextMoves DEF DoneStatus, FailStatus, TextStageNames
    <3>2. docs'[d].status = docs[d].status \/ ~ScanOpen(d)
      BY <1>2, <1>8, <2>2, TextMoves DEF AuditInv, TextAfterScan
    <3> QED
      BY <1>2, <2>2, <3>1, <3>2, TextMoves DEF ScanOpen
  <2> QED
    BY <2>1, <2>2
<1>13. \A e \in Docs : ScanOpen(e)' => ScanOpen(e)
  BY <1>12 DEF ScanOpen
<1>14. WellAttended'
  BY <1>1, <1>5 DEF AuditInv, WellAttended, Attended, WorksOn
<1>15. TextAfterScan'
  <2> SUFFICES ASSUME NEW v \in Workers, WorkerStage[v] \in TextStageNames,
                      task'[v].pc \in TextOpen
               PROVE  ~ScanOpen(DocOf(v))'
    BY DEF TextAfterScan
  <2>1. PICK e \in Docs : e = DocOf(v) /\ e = DocOf(v)'
    <3>1. workers[v].pc = "processing"
      BY <1>1 DEF TypeOK, TaskFits, TextOpen
    <3> QED
      BY <1>1, <3>1, HasDocument
  <2>2. ~ScanOpen(e)
    <3>1. CASE v # w
      BY <1>1, <2>1, <3>1 DEF AuditInv, TextAfterScan
    <3>2. CASE v = w
      <4>1. TextNext(w)
        BY <1>7, <3>2 DEF TextStageNames
      <4>2. CASE task[w].pc \in TextOpen
        BY <2>1, <3>2, <4>2 DEF AuditInv, TextAfterScan
      <4>3. CASE docs[e].status = EntryStatus[WorkerStage[w]]
        BY <3>2, <4>3 DEF EntryStatus, TextStageNames, ScanOpen
      <4>4. task'[w].pc \in TextOpen =>
               task[w].pc \in TextOpen \/ docs[DocOf(w)].status = EntryStatus[WorkerStage[w]]
        BY <4>1, TextMoves
      <4> QED
        BY <2>1, <3>2, <4>2, <4>3, <4>4
    <3> QED
      BY <3>1, <3>2
  <2> QED
    BY <1>13, <2>1, <2>2 DEF ScanOpen
<1>16. ScansInTime'
  <2> SUFFICES ASSUME NEW v \in Workers, workers'[v].pc # "idle", WorkerStage[v] = "SCAN"
               PROVE  ScanOver(v)' \/ ScanOpen(DocOf(v))'
    BY DEF ScansInTime
  <2>1. PICK e \in Docs : e = DocOf(v) /\ e = DocOf(v)'
    BY <1>1, HasDocument
  <2>2. ScanOver(v) \/ ScanOpen(e)
    BY <1>1, <2>1 DEF AuditInv, ScansInTime
  <2>3. CASE ScanOver(v)
    <3>1. CASE v # w
      BY <1>1, <2>3, <3>1 DEF ScanOver
    <3>2. CASE v = w
      <4>1. ScanNext(w) /\ task[w].pc \in ScanClosing
        BY <1>1, <1>8, <2>3, <3>2 DEF ScanOver
      <4> QED
        BY <1>1, <3>2, <4>1, ScanMoves DEF ScanOver
    <3> QED
      BY <3>1, <3>2
  <2>4. CASE ScanOpen(e)
    <3>1. CASE WorkerStage[w] = "SCAN" /\ task'[w].pc \in ScanClosing /\ e = d
      <4>1. v = w
        BY <1>1, <1>2, <2>1, <3>1 DEF ScanSolo
      <4> QED
        BY <1>1, <3>1, <4>1 DEF ScanOver
    <3>2. CASE ScanOpen(e)'
      BY <2>1, <3>2 DEF ScanOpen
    <3> QED
      BY <1>12, <2>4, <3>1, <3>2 DEF ScanOpen
  <2> QED
    BY <2>2, <2>3, <2>4
<1>17. ScanJobsOpen'
  <2> SUFFICES ASSUME NEW j \in Jobs, JobStage[j] = "SCAN", jobs'[j].status = "PENDING"
               PROVE  ScanOpen(JobDoc[j])'
    BY DEF ScanJobsOpen
  <2>1. PICK e \in Docs : e = JobDoc[j]
    BY CorpusAssumption
  <2>2. jobs[j].status = "PENDING" /\ ScanOpen(e)
    BY <1>5, <2>1 DEF AuditInv, ScanJobsOpen
  <2>3. WorkerStage[w] # "SCAN" \/ e # d
    BY <1>2, <1>3, <2>1, <2>2 DEF UploadInv, OneScanJob
  <2>4. ScanOpen(e)'
    BY <1>12, <2>2, <2>3 DEF ScanOpen
  <2> QED
    BY <2>1, <2>4 DEF ScanOpen
<1>18. ScanNeverFails'
  BY <1>1, <1>5, <1>8, <1>10 DEF AuditInv, ScanNeverFails, ScanSucceeds
<1>19. BytesThere'
  <2> SUFFICES ASSUME NEW e \in Docs, upload[e] = "stored" \/ ScanOpen(e)'
               PROVE  <<"quarantine", e>> \in store' \/ Promoting(e)'
    BY <1>1 DEF BytesThere
  <2>1. <<"quarantine", e>> \in store \/ Promoting(e)
    BY <1>13 DEF AuditInv, BytesThere
  <2>2. ASSUME NEW v \in Workers, workers[v].pc = "processing", WorkerStage[v] = "SCAN",
               DocOf(v) = e, task'[v].pc \in {"validated", "race_lost"}
        PROVE  Promoting(e)'
    BY <1>1, <2>2 DEF Promoting
  <2>3. CASE e # d \/ TextNext(w)
    <3>1. <<"quarantine", e>> \in store => <<"quarantine", e>> \in store'
      BY <1>2, <2>3, ScanStores, TextStores
    <3>2. ASSUME Promoting(e) PROVE Promoting(e)'
      <4>1. PICK v \in Workers :
               /\ workers[v].pc = "processing" /\ WorkerStage[v] = "SCAN" /\ DocOf(v) = e
               /\ task[v].pc \in {"validated", "race_lost"}
        BY <3>2 DEF Promoting
      <4>2. v # w
        BY <1>2, <1>8, <2>3, <4>1
      <4> QED
        BY <1>1, <2>2, <4>1, <4>2
    <3> QED
      BY <2>1, <3>1, <3>2
  <2>4. CASE e = d /\ ScanNext(w)
    <3>1. ScanOpen(d)' /\ ScanOpen(d)
      BY <1>4, <1>7, <1>13, <2>4
    <3>2. task[w].pc \notin ScanClosing
      BY <1>1, <1>2, <1>7, <2>4, <3>1 DEF StrandInv, ScanDecides, ScanOver
    <3>3. task'[w].pc \notin ScanClosing
      <4>1. ScanOver(w)' => ~ScanOpen(DocOf(w))'
        BY <1>7, <2>4 DEF StrandInv, ScanDecides
      <4>2. ~ScanOver(w)'
        BY <1>1, <1>2, <3>1, <4>1 DEF ScanOpen
      <4> QED
        BY <1>1, <4>2 DEF ScanOver
    <3>4. CASE <<"quarantine", e>> \in store
      BY <1>1, <1>2, <1>7, <1>10, <2>2, <2>4, <3>2, <3>4
    <3>5. CASE Promoting(e)
      <4>1. PICK v \in Workers :
               /\ workers[v].pc = "processing" /\ WorkerStage[v] = "SCAN" /\ DocOf(v) = e
               /\ task[v].pc \in {"validated", "race_lost"}
        BY <3>5 DEF Promoting
      <4>2. v = w
        BY <1>1, <1>2, <1>7, <2>4, <4>1 DEF ScanSolo
      <4> QED
        BY <1>10, <2>2, <2>4, <3>3, <4>1, <4>2
    <3> QED
      BY <2>1, <3>4, <3>5
  <2> QED
    BY <2>3, <2>4
<1>20. StatusAccounted'
  <2> SUFFICES ASSUME NEW e \in Docs, docs'[e].status # "ABSENT", ~ScanOpen(e)',
                      NEW event, event = StatusEvent(docs'[e].status)
               PROVE  Accounted(e, event)'
    BY DEF StatusAccounted, StatusEvent, Accounted, Owes
  <2>1. CASE docs'[e].status = docs[e].status
    <3>1. Accounted(e, event)
      BY <2>1 DEF AuditInv, StatusAccounted, ScanOpen
    <3>2. CASE <<e, event>> \in audit
      BY <3>2, AuditGrows DEF Accounted
    <3>3. ASSUME NEW v \in Workers, Owes(v, event), DocOf(v) = e PROVE Accounted(e, event)'
      <4>1. Due(v, task'[v].pc, event) \/ <<e, event>> \in audit'
        BY <1>1, <1>2, <1>10, <1>11, <3>3 DEF Owes
      <4> QED
        BY <1>1, <3>3, <4>1 DEF Accounted, Owes
    <3> QED
      BY <3>1, <3>2, <3>3 DEF Accounted
  <2>2. CASE docs'[e].status # docs[e].status
    <3>1. e = d /\ Due(w, task'[w].pc, event)
      BY <1>10, <1>11, <1>12, <2>2
    <3> QED
      BY <1>1, <1>2, <3>1 DEF Accounted, Owes
  <2> QED
    BY <2>1, <2>2
<1>21. UploadQueued'
  <2>1. \A j \in Jobs : jobs[j].status # "ABSENT" => jobs'[j].status # "ABSENT"
    BY <1>5
  <2> QED
    BY <1>1, <1>12, <2>1 DEF AuditInv, UploadQueued, NeverQueued
<1> QED
  BY <1>14, <1>15, <1>16, <1>17, <1>18, <1>19, <1>20, <1>21 DEF AuditInv

\* Where documents, handlers and workers stay as they are, so does what is owed of them.
LEMMA AccountStays ==
    ASSUME UNCHANGED <<docs, task, workers>>, audit \subseteq audit', StatusAccounted
    PROVE  StatusAccounted'
<1> SUFFICES ASSUME NEW e \in Docs, docs'[e].status # "ABSENT", ~ScanOpen(e)',
                    NEW event, event = StatusEvent(docs'[e].status)
             PROVE  Accounted(e, event)'
  BY DEF StatusAccounted, StatusEvent, Accounted, Owes
<1>1. Accounted(e, event)
  BY DEF StatusAccounted, ScanOpen
<1> QED
  BY <1>1 DEF Accounted, Owes, DocOf

\* An upload brings the bytes, the row and the scan in this order; the operator adds jobs.
LEMMA RequestAudits ==
    ASSUME Reliable, QueueTypeOK, TypeOK, KeptInv, UploadInv, AuditInv, NEW d \in Docs,
           Receives(d) \/ Deleted(d) \/ Erases(d) \/ RequestDies(d) \/ Backfilled(d)
    PROVE  AuditInv'
<1>1. UNCHANGED <<task, workers>> /\ ~Deleted(d) /\ ~Erases(d) /\ ~erase_dies(d)
  BY RequestsFrame, NoDeletes DEF Reliable
<1>2. /\ docs \in [Docs -> DocRows] /\ upload \in [Docs -> UploadStates]
      /\ jobs \in [Jobs -> JobRows]
  BY DEF TypeOK, QueueTypeOK
<1>3. ASSUME Backfilled(d)
      PROVE  /\ UNCHANGED <<docs, store, audit, upload>>
             /\ \E j \in Jobs : JobStage[j] # "SCAN" /\ AddJob(j)
  <2>1. PICK s \in BackfillStages, mode \in Backfills : backfill(d, s, mode)
    BY <1>3 DEF Backfilled
  <2>2. s # "SCAN" /\ mode # "reset"
    BY DEF Reliable
  <2> QED
    BY <1>2, <2>1, <2>2 DEF backfill, JobsOf, apiVars
<1>4. CASE receive_put(d)
  <2>1. /\ UNCHANGED <<docs, audit, jobs>> /\ store' = store \cup {<<"quarantine", d>>}
        /\ upload' = [upload EXCEPT ![d] = "stored"]
    BY <1>4 DEF receive_put, UploadStep, queueVars
  <2>2. BytesThere'
    BY <1>1, <1>2, <2>1 DEF AuditInv, BytesThere, ScanOpen, Promoting, DocOf
  <2>3. UploadQueued'
    BY <1>2, <2>1 DEF AuditInv, UploadQueued, NeverQueued
  <2>4. StatusAccounted'
    BY <1>1, <2>1, AccountStays DEF AuditInv
  <2> QED
    BY <1>1, <2>1, <2>2, <2>3, <2>4 DEF AuditInv, WellAttended, Attended, WorksOn, TextAfterScan,
       ScansInTime, ScanOver, ScanOpen, ScanJobsOpen, ScanNeverFails, ScanSucceeds, DocOf
<1>5. CASE receive_create(d)
  <2>1. /\ UNCHANGED <<store, audit, jobs>> /\ upload[d] = "stored"
        /\ upload' = [upload EXCEPT ![d] = "created"]
        /\ docs'[d].status = "QUARANTINED" /\ docs[d].status = "ABSENT"
        /\ \A e \in Docs \ {d} : docs'[e] = docs[e]
    BY <1>2, <1>5 DEF receive_create, UploadStep, queueVars, DocRows, UploadInv, CreatedByUpload
  <2>2. \A e \in Docs : ScanOpen(e) => ScanOpen(e)'
    BY <2>1 DEF ScanOpen
  <2>3. TextAfterScan'
    <3> SUFFICES ASSUME NEW v \in Workers, WorkerStage[v] \in TextStageNames,
                        task[v].pc \in TextOpen
                 PROVE  ~ScanOpen(DocOf(v))'
      BY <1>1 DEF TextAfterScan
    <3>1. PICK e \in Docs : e = DocOf(v) /\ e = DocOf(v)'
      <4>1. workers[v].pc = "processing"
        BY DEF TypeOK, TaskFits, TextOpen
      <4> QED
        BY <1>1, <4>1, HasDocument DEF DocOf
    <3>2. docs[e].status # "ABSENT" /\ ~ScanOpen(e)
      BY <3>1 DEF AuditInv, TextAfterScan, UploadInv, TextPastUpload
    <3> QED
      BY <2>1, <3>1, <3>2 DEF ScanOpen
  <2>4. ScansInTime'
    <3> SUFFICES ASSUME NEW v \in Workers, workers[v].pc # "idle", WorkerStage[v] = "SCAN"
                 PROVE  ScanOver(v)' \/ ScanOpen(DocOf(v))'
      BY <1>1 DEF ScansInTime
    <3>1. PICK e \in Docs : e = DocOf(v) /\ e = DocOf(v)'
      BY <1>1, HasDocument DEF DocOf
    <3> QED
      BY <1>1, <2>2, <3>1 DEF AuditInv, ScansInTime, ScanOver, ScanOpen
  <2>5. ScanJobsOpen'
    <3> SUFFICES ASSUME NEW j \in Jobs, JobStage[j] = "SCAN", jobs[j].status = "PENDING"
                 PROVE  ScanOpen(JobDoc[j])'
      BY <2>1 DEF ScanJobsOpen
    <3>1. PICK e \in Docs : e = JobDoc[j]
      BY CorpusAssumption
    <3> QED
      BY <2>2, <3>1 DEF AuditInv, ScanJobsOpen, ScanOpen
  <2>6. BytesThere'
    BY <1>1, <1>2, <2>1 DEF AuditInv, BytesThere, ScanOpen, Promoting, DocOf
  <2>7. StatusAccounted'
    <3> SUFFICES ASSUME NEW e \in Docs, docs'[e].status # "ABSENT", ~ScanOpen(e)',
                        NEW event, event = StatusEvent(docs'[e].status)
                 PROVE  Accounted(e, event)'
      BY DEF StatusAccounted, StatusEvent, Accounted, Owes
    <3>1. docs'[e].status = docs[e].status
      BY <2>1 DEF ScanOpen
    <3>2. Accounted(e, event)
      BY <3>1 DEF AuditInv, StatusAccounted, ScanOpen
    <3> QED
      BY <1>1, <2>1, <3>2 DEF Accounted, Owes, DocOf
  <2>8. UploadQueued'
    BY <1>2, <2>1 DEF AuditInv, UploadQueued, NeverQueued
  <2> QED
    BY <1>1, <2>1, <2>3, <2>4, <2>5, <2>6, <2>7, <2>8 DEF AuditInv, WellAttended, Attended,
       WorksOn, ScanNeverFails, ScanSucceeds
<1>6. ASSUME UNCHANGED <<docs, store, jobs>>, audit \subseteq audit',
             \A e \in Docs : /\ upload'[e] = "stored" => upload[e] = "stored"
                             /\ upload'[e] \in {"queued", "done"} =>
                                   upload[e] \in {"queued", "done"}
      PROVE  AuditInv'
  <2>1. StatusAccounted'
    BY <1>1, <1>6, AccountStays DEF AuditInv
  <2>2. BytesThere' /\ UploadQueued'
    BY <1>1, <1>6 DEF AuditInv, BytesThere, UploadQueued, NeverQueued, ScanOpen, Promoting, DocOf
  <2> QED
    BY <1>1, <1>6, <2>1, <2>2 DEF AuditInv, WellAttended, Attended, WorksOn, TextAfterScan,
       ScansInTime, ScanOver, ScanOpen, ScanJobsOpen, ScanNeverFails, ScanSucceeds, DocOf
<1>7. CASE receive_audit(d)
  <2>1. UNCHANGED <<docs, store, jobs>> /\ audit \subseteq audit'
    BY <1>7 DEF receive_audit, log_event, queueVars
  <2>2. \A e \in Docs :
           /\ upload'[e] = "stored" => upload[e] = "stored"
           /\ upload'[e] \in {"queued", "done"} => upload[e] \in {"queued", "done"}
    BY <1>2, <1>7 DEF receive_audit, UploadStep
  <2> QED
    BY <1>6, <2>1, <2>2
<1>8. CASE receive_dies(d)
  <2>1. UNCHANGED <<docs, store, jobs, audit>>
    BY <1>8 DEF receive_dies, corpusVars, queueVars
  <2>2. \A e \in Docs :
           /\ upload'[e] = "stored" => upload[e] = "stored"
           /\ upload'[e] \in {"queued", "done"} => upload[e] \in {"queued", "done"}
    BY <1>2, <1>8 DEF receive_dies
  <2> QED
    BY <1>6, <2>1, <2>2
<1>9. ASSUME NEW j \in Jobs, AddJob(j), UNCHANGED <<docs, store, audit>>,
             JobStage[j] = "SCAN" => ScanOpen(JobDoc[j]),
             \A e \in Docs : /\ upload'[e] = "stored" => upload[e] = "stored"
                             /\ upload'[e] \in {"queued", "done"} =>
                                   \/ upload[e] \in {"queued", "done"}
                                   \/ /\ docs[e].status # "ABSENT"
                                      /\ JobStage[j] = "SCAN" /\ JobDoc[j] = e
      PROVE  AuditInv'
  <2>1. /\ jobs'[j].status = "PENDING" /\ \A i \in Jobs \ {j} : jobs'[i] = jobs[i]
    BY <1>2, <1>9, NewRows DEF AddJob
  <2>2. StatusAccounted'
    BY <1>1, <1>9, AccountStays DEF AuditInv
  <2>3. BytesThere'
    BY <1>1, <1>9 DEF AuditInv, BytesThere, ScanOpen, Promoting, DocOf
  <2>4. UploadQueued'
    BY <1>9, <2>1 DEF AuditInv, UploadQueued, NeverQueued
  <2>5. WellAttended'
    BY <1>1, <2>1 DEF AuditInv, WellAttended, Attended, WorksOn
  <2>6. ScanJobsOpen' /\ ScanNeverFails'
    BY <1>1, <1>9, <2>1 DEF AuditInv, ScanJobsOpen, ScanNeverFails, ScanSucceeds, ScanOpen
  <2> QED
    BY <1>1, <1>9, <2>2, <2>3, <2>4, <2>5, <2>6 DEF AuditInv, TextAfterScan, ScansInTime,
       ScanOver, ScanOpen, DocOf
<1>10. CASE receive_enqueue(d)
  <2>1. PICK j \in Jobs : JobDoc[j] = d /\ JobStage[j] = "SCAN" /\ AddJob(j)
    BY <1>10 DEF receive_enqueue, JobsOf
  <2>2. /\ UNCHANGED <<docs, store, audit>> /\ docs[d].status = "QUARANTINED"
        /\ upload' = [upload EXCEPT ![d] = "queued"]
    BY <1>10 DEF receive_enqueue, UploadStep, corpusVars, UploadInv, CreatedByUpload
  <2> QED
    BY <1>2, <1>9, <2>1, <2>2 DEF ScanOpen
<1>11. CASE Backfilled(d)
  BY <1>3, <1>9, <1>11
<1> QED
  BY <1>1, <1>4, <1>5, <1>7, <1>8, <1>10, <1>11 DEF Receives, RequestDies

\* The inductive step.
LEMMA AuditStep ==
    ASSUME Reliable
    PROVE  /\ QueueTypeOK /\ TypeOK /\ TypeOK' /\ KeptInv /\ HeldInv /\ UploadInv /\ ScanSolo
           /\ StrandInv /\ StrandInv' /\ AuditInv /\ [Next]_vars
           => AuditInv'
<1> SUFFICES ASSUME QueueTypeOK, TypeOK, TypeOK', KeptInv, HeldInv, UploadInv, ScanSolo,
                    StrandInv, StrandInv', AuditInv, [Next]_vars
             PROVE  AuditInv'
  OBVIOUS
<1>1. CASE UNCHANGED vars
  <2>1. StatusAccounted'
    BY <1>1, AccountStays DEF vars, AuditInv
  <2> QED
    BY <1>1, <2>1 DEF vars, AuditInv, WellAttended, Attended, WorksOn, TextAfterScan,
       ScansInTime, ScanOver, ScanOpen, ScanJobsOpen, ScanNeverFails, ScanSucceeds, BytesThere,
       Promoting, DocOf, UploadQueued, NeverQueued
<1>2. ASSUME NEW j \in Jobs PROVE ~LeaseRunsOut(j)
  BY DEF LeaseRunsOut, ExpireLease, Reliable, AuditInv, WellAttended
<1>3. ASSUME NEW w \in Workers,
             \/ Claims(w) \/ Renews(w) \/ Reaps(w) \/ Writes(w) \/ CompletionFails(w)
             \/ WorkerDies(w) \/ Handles(w) \/ Aborts(w)
      PROVE  AuditInv'
  <2>1. CASE Handles(w) /\ (ScanNext(w) \/ TextNext(w))
    BY <2>1, HandlerAudits DEF Handles
  <2>2. CASE ~(ScanNext(w) \/ TextNext(w))
    BY <1>3, <2>2, QueueAudits DEF Handles
  <2> QED
    BY <1>3, <2>1, <2>2, QueueAudits
<1>4. ASSUME NEW d \in Docs,
             Receives(d) \/ Deleted(d) \/ Erases(d) \/ RequestDies(d) \/ Backfilled(d)
      PROVE  AuditInv'
  BY <1>4, RequestAudits
<1> QED
  BY <1>1, <1>2, <1>3, <1>4 DEF Next

\* Nothing has been uploaded to begin with.
LEMMA AuditInit == Init => AuditInv
<1> SUFFICES ASSUME Init PROVE AuditInv
  OBVIOUS
<1>1. /\ \A d \in Docs : docs[d].status = "ABSENT" /\ upload[d] = "none"
      /\ \A w \in Workers : /\ task[w].pc = "start" /\ workers[w].pc = "idle"
                            /\ workers[w].outcome = "ok"
      /\ \A j \in Jobs : jobs[j].status = "ABSENT"
  BY NewRows DEF Init, CorpusInit, NoDoc, TaskInit, NoTask, QueueInit, IdleWorker, ApiInit
<1> QED
  BY <1>1 DEF AuditInv, WellAttended, TextAfterScan, ScansInTime, ScanJobsOpen, ScanNeverFails,
     ScanSucceeds, BytesThere, StatusAccounted, UploadQueued, ScanOpen, TextOpen

\* While no SCAN job is lost or fed but by uploads and nobody meets a database fault,
\* every document nobody works on has been decided and has got as far as its status says
\* by a step the audit log records: however many workers a stage has, whatever text stages
\* fail on, upload requests die of, and jobs of text stages are back-filled.
THEOREM AuditTrailHolds ==
    ASSUME LeaseLoss = {}, Deletes = {}, "reset" \notin Backfills,
           "SCAN" \notin BackfillStages \cup StorageFaults,
           (Crashes \cup DatabaseFaults) \cap Stages = {}
    PROVE  Spec => []AuditTrail
<1>1. Reliable
  BY DEF Reliable
<1>2. /\ QueueTypeOK /\ TypeOK /\ TypeOK' /\ KeptInv /\ HeldInv /\ UploadInv /\ ScanSolo
      /\ StrandInv /\ StrandInv' /\ AuditInv /\ [Next]_vars
      => AuditInv'
  BY <1>1, AuditStep
<1>3. QueueTypeOK /\ HeldInv /\ StrandInv /\ AuditInv => AuditTrail
  <2> SUFFICES ASSUME QueueTypeOK, HeldInv, StrandInv, AuditInv, NEW d \in Docs,
                      upload[d] \in {"queued", "done"}, Quiet(d)
               PROVE  ~ScanOpen(d) /\ <<d, StatusEvent(docs[d].status)>> \in audit
    BY DEF AuditTrail, ScanOpen
  <2>1. PICK j \in Jobs : JobStage[j] = "SCAN" /\ JobDoc[j] = d /\ jobs[j].status # "ABSENT"
    BY DEF AuditInv, UploadQueued, NeverQueued
  <2>2. jobs[j].status = "COMPLETED"
    BY <2>1 DEF AuditInv, ScanNeverFails, Quiet, JobsOf, Done
  <2>3. ~ScanOpen(d)
    BY <2>1, <2>2 DEF StrandInv, CompletedDecided
  <2>4. Accounted(d, StatusEvent(docs[d].status))
    BY <2>3 DEF AuditInv, UploadQueued, StatusAccounted
  <2>5. ASSUME NEW w \in Workers, Owes(w, StatusEvent(docs[d].status)), DocOf(w) = d
        PROVE  FALSE
    BY <2>5, BusyOnIt DEF Owes
  <2> QED
    BY <2>3, <2>4, <2>5 DEF Accounted
<1>4. Spec => []HeldInv
  BY PipelineImplementsQueue, JobsHeld, PTL
<1>5. Spec => []KeptInv
  BY KeptHolds
<1>6. Spec => [](ScanSolo /\ UploadInv)
  BY ScannedAlone
<1>7. Spec => []StrandInv
  BY StrandHolds
<1> QED
  BY <1>2, <1>3, <1>4, <1>5, <1>6, <1>7, AuditInit, PipelineTypeCorrect, PTL DEF Spec
=============================================================================
