--------------------------- MODULE IngestionProofs --------------------------
(***************************************************************************)
(* The pipeline uses the queue as JobQueue describes it: every step of the *)
(* composed system is a step of the queue or leaves it alone.  So what is  *)
(* proved of the queue holds of the queue inside the pipeline, whatever    *)
(* the handlers, the requests and the faults do.  Then the types of the    *)
(* rest of the state, and who a step concerns.                             *)
(***************************************************************************)
EXTENDS Ingestion, JobQueueProofs

\* A handler changes the queue only by returning and by queueing a stage.
LEMMA HandlerStep ==
    ASSUME NEW w \in Workers, Handles(w) \/ Aborts(w)
    PROVE  [QueueNext]_queueVars
<1>1. ASSUME returns(w) PROVE QueueNext
  BY <1>1 DEF returns, QueueNext
<1>2. ASSUME NEW s, NEW pc, enqueues(w, s, pc) PROVE QueueNext
  BY <1>2 DEF enqueues, QueueNext
<1>3. ASSUME scan_enqueue(w) PROVE QueueNext
  BY <1>2, <1>3 DEF scan_enqueue
<1>4. ASSUME NEW s, stage_enqueue(w, s) PROVE QueueNext
  BY <1>2, <1>4 DEF stage_enqueue
<1>5. ASSUME ScanNext(w), ~scan_enqueue(w) PROVE UNCHANGED queueVars
  BY <1>5 DEF ScanNext, scan_load, scan_read, scan_read_fails, scan_reject, scan_reject_audit,
     scan_reject_delete, scan_dedup, scan_tier_audit, scan_duplicate, scan_dup_delete,
     scan_dup_audit, scan_promote, scan_promote_fails, scan_clear, scan_validated,
     scan_race_lost, scan_race_escalate, scan_race_tier_audit, scan_race_audit,
     scan_promoted_audit, loads, commits, audits
<1>6. ASSUME NEW s,
             \/ stage_load(w, s) \/ stage_read(w, s) \/ stage_read_fails(w, s)
             \/ stage_work(w, s) \/ stage_work_fails(w, s) \/ stage_put(w, s)
             \/ stage_put_fails(w, s) \/ stage_commit(w, s) \/ stage_audit(w, s)
             \/ stage_fail(w, s) \/ stage_fail_audit(w, s)
      PROVE  UNCHANGED queueVars
  BY <1>6 DEF stage_load, stage_read, stage_read_fails, stage_work, stage_work_fails,
     stage_put, stage_put_fails, stage_commit, stage_audit, stage_fail, stage_fail_audit,
     loads, commits, audits
<1>7. ASSUME \/ extract_no_raw(w) \/ chunk_persist(w) \/ embed_work(w) \/ embed_store(w)
             \/ embed_unsupported(w) \/ embed_skip(w) \/ embed_skip_audit(w)
      PROVE  UNCHANGED queueVars
  BY <1>7 DEF extract_no_raw, chunk_persist, embed_work, embed_store, embed_unsupported,
     embed_skip, embed_skip_audit, commits, audits
<1>8. ASSUME TextNext(w) PROVE [QueueNext]_queueVars
  <2>1. ASSUME NEW s, Common(w, s) PROVE [QueueNext]_queueVars
    BY <1>4, <1>6, <2>1 DEF Common
  <2> QED
    BY <1>7, <1>8, <2>1 DEF TextNext, extract_process, normalize_process, chunk_process,
       embed_process
<1>9. ASSUME aborts(w) PROVE UNCHANGED queueVars
  BY <1>9 DEF aborts
<1> QED
  BY <1>1, <1>3, <1>5, <1>8, <1>9 DEF Handles, Aborts

\* A request changes the queue only by inserting a job or cancelling PENDING ones.
LEMMA RequestStep ==
    ASSUME NEW d \in Docs,
           Receives(d) \/ Deleted(d) \/ Erases(d) \/ RequestDies(d) \/ Backfilled(d)
    PROVE  [QueueNext]_queueVars
<1>1. ASSUME receive_enqueue(d) PROVE QueueNext
  BY <1>1 DEF receive_enqueue, JobsOf, QueueNext
<1>2. ASSUME Receives(d), ~receive_enqueue(d) PROVE UNCHANGED queueVars
  BY <1>2 DEF Receives, receive_put, receive_create, receive_audit
<1>3. ASSUME erase_claim(d) PROVE QueueNext
  <2>1. JobsOf(d) \in SUBSET Jobs
    BY DEF JobsOf
  <2> QED
    BY <1>3, <2>1 DEF erase_claim, QueueNext
<1>4. ASSUME Erases(d), ~erase_claim(d) PROVE UNCHANGED queueVars
  BY <1>4 DEF Erases, erase_busy, erase_unrecorded, erase_chunks, erase_chunks_raises,
     erase_purge, erase_duplicates, erase_object, erase_object_unseen, erase_object_fails
<1>5. ASSUME Backfilled(d) PROVE QueueNext
  BY <1>5 DEF Backfilled, backfill, JobsOf, QueueNext
<1>6. ASSUME Deleted(d) \/ RequestDies(d) PROVE UNCHANGED queueVars
  BY <1>6 DEF Deleted, delete_document, RequestDies, receive_dies, erase_dies
<1> QED
  BY <1>1, <1>2, <1>3, <1>4, <1>5, <1>6

\* Every step of the pipeline is a step of the queue or leaves the queue alone.
LEMMA StepOfQueue == [Next]_vars => [QueueNext]_queueVars
<1>1. ASSUME NEW w \in Workers,
             \/ Claims(w) \/ Renews(w) \/ Reaps(w) \/ Writes(w) \/ CompletionFails(w)
             \/ WorkerDies(w)
      PROVE  QueueNext
  BY <1>1 DEF Claims, Renews, Reaps, Writes, CompletionFails, WorkerDies, WriteOutcome, QueueNext
<1>2. ASSUME NEW j \in Jobs, LeaseRunsOut(j) PROVE QueueNext
  BY <1>2 DEF LeaseRunsOut, QueueNext
<1>3. CASE UNCHANGED vars
  BY <1>3 DEF vars, queueVars
<1> QED
  BY <1>1, <1>2, <1>3, HandlerStep, RequestStep DEF Next

\* The pipeline implements the queue: under the identity mapping on jobs and
\* workers, every behaviour of Ingestion is one of JobQueue.
THEOREM PipelineImplementsQueue == Spec => QueueSpec
<1>1. Init => QueueInit
  BY DEF Init
<1>2. [Next]_vars => [QueueNext]_queueVars
  BY StepOfQueue
<1> QED
  BY <1>1, <1>2, PTL DEF Spec, QueueSpec

\* However the pipeline's handlers fail, crash and stall, a job is re-queued at
\* most 2 * MAX_JOB_RETRIES times.
THEOREM PipelineRetryCeiling == Spec => []RetryCeiling
  BY PipelineImplementsQueue, RetryCeilingHolds

\* In the whole pipeline no row is ever stuck RUNNING without an owner or a
\* lease the reaper can see.
THEOREM PipelineOwnership == Spec => []OwnershipMatchesStatus
  BY PipelineImplementsQueue, OwnershipHolds

\* While renewals keep up, no document is processed by two workers on one job.
THEOREM PipelineSingleExecution ==
    ASSUME LeaseLoss = {}
    PROVE  Spec => []SingleExecution
  BY PipelineImplementsQueue, SingleExecutionHolds

\* While renewals keep up, no job of the pipeline is retried more than
\* MAX_JOB_RETRIES times, whatever its handlers and their storage do.
THEOREM PipelineRetryBudget ==
    ASSUME LeaseLoss = {}
    PROVE  Spec => []RetryBudget
  BY PipelineImplementsQueue, RetryBudgetHolds

(***************************************************************************)
(* Types of the corpus, the handlers' memory and the requests.             *)
(***************************************************************************)
TextStageNames == {"EXTRACT", "NORMALIZE", "CHUNK", "EMBED"}

\* Where the two kinds of handlers may stand once they have loaded the document.
ScanPcs ==
    {"dedup", "reject", "reject_audit", "reject_delete", "tier_audit", "duplicate",
     "dup_delete", "dup_audit", "promote", "clear", "validated", "race_lost",
     "race_escalate", "race_tier_audit", "race_audit", "promoted_audit", "enqueue_extract"}
TextPcs ==
    {"work", "put", "commit", "audit", "enqueue", "fail", "fail_audit", "skip", "skip_audit"}
Loaded == {"read"} \cup ScanPcs \cup TextPcs
TaskPcs == {"start"} \cup Outcomes \cup Loaded

TaskStates ==
    [pc: TaskPcs, doc: DocRows \cup {None}, canonical: Docs \cup {None}, chunks: Nat]

UploadStates == {"none", "stored", "created", "queued", "done", "dead"}

ErasePcs == {"idle", "claim", "purge", "duplicates", "chunks"} \cup DOMAIN AfterBucket
EraseStates == [pc: ErasePcs, doc: DocRows \cup {None}, recorded: BOOLEAN]

\* A handler is one of its worker's stage, and holds a copy of the row once it
\* has loaded it.
TaskFits(w) ==
    /\ workers[w].pc # "processing" => task[w].pc = "start"
    /\ workers[w].pc # "idle" => JobStage[workers[w].job] = WorkerStage[w]
    /\ task[w].pc \in Loaded => task[w].doc \in DocRows
    /\ task[w].pc \in ScanPcs => WorkerStage[w] = "SCAN"
    /\ task[w].pc \in TextPcs => WorkerStage[w] \in TextStageNames

TypeOK ==
    /\ docs \in [Docs -> DocRows]
    /\ chunks \in [Docs -> ChunkRows]
    /\ task \in [Workers -> TaskStates]
    /\ upload \in [Docs -> UploadStates]
    /\ erase \in [Docs -> EraseStates]
    /\ \A w \in Workers : TaskFits(w)
    /\ \A d \in Docs : erase[d].pc # "idle" => erase[d].doc \in DocRows

\* What the writes make of a row, a handler's memory and a request.
LEMMA DocEdits ==
    ASSUME NEW row \in DocRows
    PROVE  /\ row.status \in DocumentStatus /\ row.sha \in Contents \cup {None}
           /\ row.tier \in Tiers /\ row.raw \in Contents \cup {None}
           /\ row.quarantine \in BOOLEAN /\ row.purged \in BOOLEAN
           /\ \A s \in DocumentStatus : [row EXCEPT !.status = s] \in DocRows
           /\ \A s \in DocumentStatus :
                 /\ [row EXCEPT !.status = s, !.quarantine = FALSE] \in DocRows
                 /\ [row EXCEPT !.status = s, !.quarantine = TRUE] \in DocRows
                 /\ [row EXCEPT !.status = s, !.quarantine = FALSE, !.raw = None] \in DocRows
                 /\ [row EXCEPT !.status = s, !.raw = row.sha, !.quarantine = FALSE] \in DocRows
           /\ \A c \in Contents : [row EXCEPT !.sha = c] \in DocRows
           /\ \A t \in Tiers : [row EXCEPT !.tier = t] \in DocRows
           /\ \A t \in Tiers, p \in BOOLEAN : [row EXCEPT !.tier = t, !.purged = p] \in DocRows
           /\ Tombstone(row) \in DocRows
           /\ TombstonedDuplicate(row) \in DocRows
BY DEF DocRows, Tombstone, TombstonedDuplicate

\* A handler that goes on to pc keeps its copy of the row.
LEMMA Goes ==
    ASSUME TypeOK, NEW w \in Workers, NEW pc \in TaskPcs, Goto(w, pc)
    PROVE  /\ task' \in [Workers -> TaskStates]
           /\ task'[w].pc = pc /\ task'[w].doc = task[w].doc
           /\ task'[w].canonical = task[w].canonical /\ task'[w].chunks = task[w].chunks
           /\ \A v \in Workers \ {w} : task'[v] = task[v]
<1>1. task \in [Workers -> TaskStates] /\ task' = [task EXCEPT ![w] = [task[w] EXCEPT !.pc = pc]]
  BY DEF TypeOK, Goto
<1>2. task[w] \in TaskStates
  BY <1>1
<1> DEFINE u == [task[w] EXCEPT !.pc = pc]
<1>3. /\ u \in TaskStates /\ u.pc = pc /\ u.doc = task[w].doc
      /\ u.canonical = task[w].canonical /\ u.chunks = task[w].chunks
  BY <1>2 DEF TaskStates
<1> HIDE DEF u
<1>4. task' = [task EXCEPT ![w] = u]
  BY <1>1 DEF u
<1> QED
  BY <1>1, <1>3, <1>4

\* The steps of a handler that only write its memory, as far as types go.
LEMMA TaskFitsStep ==
    ASSUME TypeOK, NEW w \in Workers, workers[w].pc = "processing", workers' = workers,
           task' \in [Workers -> TaskStates],
           \A v \in Workers \ {w} : task'[v] = task[v],
           task'[w].pc \in Loaded => task'[w].doc \in DocRows,
           task'[w].pc \in ScanPcs => WorkerStage[w] = "SCAN",
           task'[w].pc \in TextPcs => WorkerStage[w] \in TextStageNames
    PROVE  \A v \in Workers : TaskFits(v)'
<1> SUFFICES ASSUME NEW v \in Workers PROVE TaskFits(v)'
  OBVIOUS
<1>1. TaskFits(v)
  BY DEF TypeOK
<1>2. CASE v = w
  BY <1>1, <1>2 DEF TaskFits
<1>3. CASE v # w
  BY <1>1, <1>3 DEF TaskFits
<1> QED
  BY <1>2, <1>3

\* A worker that is not idle has a job, and so a document.
LEMMA HasDocument ==
    ASSUME QueueTypeOK, NEW w \in Workers, workers[w].pc # "idle"
    PROVE  workers[w].job \in Jobs /\ DocOf(w) \in Docs
<1>1. workers[w] \in WorkerStates /\ workers[w].job # None
  BY DEF QueueTypeOK
<1>2. workers[w].job \in Jobs
  BY <1>1, WorkerEdits
<1> QED
  BY <1>2, CorpusAssumption DEF DocOf

\* A handler that has something to do takes a copy of the row as it is now.
LEMMA Copies ==
    ASSUME TypeOK, NEW w \in Workers, DocOf(w) \in Docs,
           task' = [task EXCEPT ![w] = [NoTask EXCEPT !.pc = "read", !.doc = docs[DocOf(w)]]]
    PROVE  /\ task' \in [Workers -> TaskStates]
           /\ \A v \in Workers \ {w} : task'[v] = task[v]
           /\ task'[w].pc = "read" /\ task'[w].doc = docs[DocOf(w)]
<1> DEFINE u == [NoTask EXCEPT !.pc = "read", !.doc = docs[DocOf(w)]]
<1>1. docs[DocOf(w)] \in DocRows /\ task \in [Workers -> TaskStates]
  BY DEF TypeOK
<1>2. u \in TaskStates /\ u.pc = "read" /\ u.doc = docs[DocOf(w)]
  BY <1>1 DEF NoTask, TaskStates, TaskPcs, Loaded
<1>3. task' = [task EXCEPT ![w] = u]
  OBVIOUS
<1> HIDE DEF u
<1> QED
  BY <1>1, <1>2, <1>3

\* update_document writes the copy but for the classification and the tombstone.
LEMMA UpdatesTo ==
    ASSUME TypeOK, NEW d \in Docs, NEW dto \in DocRows, update_document(d, dto)
    PROVE  /\ docs' \in [Docs -> DocRows]
           /\ \A e \in Docs \ {d} : docs'[e] = docs[e]
           /\ docs'[d].status = dto.status /\ docs'[d].sha = dto.sha
           /\ docs'[d].raw = dto.raw /\ docs'[d].quarantine = dto.quarantine
           /\ docs'[d].tier = docs[d].tier /\ docs'[d].purged = docs[d].purged
<1> DEFINE row == [dto EXCEPT !.tier = docs[d].tier, !.purged = docs[d].purged]
<1>1. docs \in [Docs -> DocRows] /\ docs[d].tier \in Tiers /\ docs[d].purged \in BOOLEAN
  BY DocEdits DEF TypeOK
<1>2. /\ row \in DocRows /\ row.status = dto.status /\ row.sha = dto.sha /\ row.raw = dto.raw
      /\ row.quarantine = dto.quarantine /\ row.tier = docs[d].tier
      /\ row.purged = docs[d].purged
  BY <1>1 DEF DocRows
<1> HIDE DEF row
<1>3. docs' = [docs EXCEPT ![d] = row]
  BY DEF update_document, row
<1> QED
  BY <1>1, <1>2, <1>3

\* commits writes the handler's copy back or, if the unique index refuses it,
\* nothing.
LEMMA CommitsTo ==
    ASSUME TypeOK, NEW w \in Workers, DocOf(w) \in Docs, NEW dto \in DocRows,
           NEW pc \in TaskPcs, commits(w, dto, pc)
    PROVE  /\ docs' \in [Docs -> DocRows]
           /\ \A d \in Docs \ {DocOf(w)} : docs'[d] = docs[d]
           /\ \/ /\ IntegrityError(DocOf(w), dto)
                 /\ Goto(w, "transient")
                 /\ docs' = docs
              \/ /\ ~IntegrityError(DocOf(w), dto)
                 /\ Goto(w, pc)
                 /\ docs'[DocOf(w)].status = dto.status
                 /\ docs'[DocOf(w)].sha = dto.sha
                 /\ docs'[DocOf(w)].raw = dto.raw
                 /\ docs'[DocOf(w)].quarantine = dto.quarantine
                 /\ docs'[DocOf(w)].tier = docs[DocOf(w)].tier
                 /\ docs'[DocOf(w)].purged = docs[DocOf(w)].purged
           /\ UNCHANGED <<store, chunks, audit, queueVars>>
  BY UpdatesTo DEF commits, TypeOK

\* The classification of the canonical document is raised, or left as it is.
LEMMA EscalatesTo ==
    ASSUME TypeOK, NEW w \in Workers, NEW e \in Docs, NEW a \in TaskPcs, NEW pc \in TaskPcs,
           task[w].doc \in DocRows, escalates(w, e, a, pc)
    PROVE  /\ task' \in [Workers -> TaskStates]
           /\ \A v \in Workers \ {w} : task'[v] = task[v]
           /\ task'[w].doc = task[w].doc /\ task'[w].canonical = e
           /\ docs' \in [Docs -> DocRows]
           /\ \A d \in Docs \ {e} : docs'[d] = docs[d]
           /\ docs'[e].status = docs[e].status /\ docs'[e].sha = docs[e].sha
           /\ docs'[e].raw = docs[e].raw /\ docs'[e].purged = docs[e].purged
           /\ docs'[e].quarantine = docs[e].quarantine
           /\ \/ Escalates(task[w].doc.tier, e) /\ task'[w].pc = a
                 /\ docs'[e].tier = task[w].doc.tier
              \/ ~Escalates(task[w].doc.tier, e) /\ task'[w].pc = pc /\ docs' = docs
<1>1. /\ task \in [Workers -> TaskStates] /\ task[w] \in TaskStates
      /\ docs \in [Docs -> DocRows] /\ docs[e] \in DocRows /\ task[w].doc.tier \in Tiers
  BY DocEdits DEF TypeOK
<1>2. ASSUME NEW p \in TaskPcs
      PROVE  LET u == [[task[w] EXCEPT !.pc = p] EXCEPT !.canonical = e]
             IN  u \in TaskStates /\ u.pc = p /\ u.doc = task[w].doc /\ u.canonical = e
  BY <1>1 DEF TaskStates
<1>3. ASSUME NEW p \in TaskPcs, task' = [task EXCEPT ![w].pc = p, ![w].canonical = e]
      PROVE  /\ task' \in [Workers -> TaskStates]
             /\ \A v \in Workers \ {w} : task'[v] = task[v]
             /\ task'[w].pc = p /\ task'[w].doc = task[w].doc /\ task'[w].canonical = e
  <2> DEFINE u == [[task[w] EXCEPT !.pc = p] EXCEPT !.canonical = e]
  <2>1. task' = [task EXCEPT ![w] = u]
    BY <1>1, <1>3 DEF TaskStates
  <2>2. u \in TaskStates /\ u.pc = p /\ u.doc = task[w].doc /\ u.canonical = e
    BY <1>2
  <2> HIDE DEF u
  <2> QED
    BY <1>1, <2>1, <2>2
<1>4. ASSUME docs' = [docs EXCEPT ![e].tier = task[w].doc.tier]
      PROVE  /\ docs' \in [Docs -> DocRows]
             /\ \A d \in Docs \ {e} : docs'[d] = docs[d]
             /\ docs'[e].status = docs[e].status /\ docs'[e].sha = docs[e].sha
             /\ docs'[e].raw = docs[e].raw /\ docs'[e].purged = docs[e].purged
             /\ docs'[e].quarantine = docs[e].quarantine /\ docs'[e].tier = task[w].doc.tier
  <2> DEFINE row == [docs[e] EXCEPT !.tier = task[w].doc.tier]
  <2>1. /\ row \in DocRows /\ row.status = docs[e].status /\ row.sha = docs[e].sha
        /\ row.raw = docs[e].raw /\ row.purged = docs[e].purged
        /\ row.quarantine = docs[e].quarantine /\ row.tier = task[w].doc.tier
    BY <1>1 DEF DocRows
  <2>2. docs' = [docs EXCEPT ![e] = row]
    BY <1>4
  <2> HIDE DEF row
  <2> QED
    BY <1>1, <2>1, <2>2
<1> QED
  BY <1>1, <1>3, <1>4 DEF escalates

\* A handler's step keeps the types if what it writes has its type.
LEMMA HandlerTypes ==
    ASSUME TypeOK, NEW w \in Workers, workers[w].pc = "processing",
           docs' \in [Docs -> DocRows], chunks' \in [Docs -> ChunkRows],
           UNCHANGED <<workers, apiVars>>,
           task' \in [Workers -> TaskStates],
           \A v \in Workers \ {w} : task'[v] = task[v],
           task'[w].pc \in Loaded => task'[w].doc \in DocRows,
           task'[w].pc \in ScanPcs => WorkerStage[w] = "SCAN",
           task'[w].pc \in TextPcs => WorkerStage[w] \in TextStageNames
    PROVE  TypeOK'
<1>1. \A v \in Workers : TaskFits(v)'
  BY TaskFitsStep
<1> QED
  BY <1>1 DEF TypeOK, apiVars

\* Going on to pc keeps the types, if pc is one of this kind of handler.
LEMMA GoesTypes ==
    ASSUME TypeOK, NEW w \in Workers, workers[w].pc = "processing",
           docs' \in [Docs -> DocRows], chunks' \in [Docs -> ChunkRows],
           UNCHANGED <<workers, apiVars>>,
           NEW pc \in TaskPcs, Goto(w, pc),
           pc \in Loaded => task[w].doc \in DocRows,
           pc \in ScanPcs => WorkerStage[w] = "SCAN",
           pc \in TextPcs => WorkerStage[w] \in TextStageNames
    PROVE  TypeOK'
  BY Goes, HandlerTypes

\* The handlers write the documents, the passages and their memory as typed.
LEMMA ScanTypes ==
    ASSUME QueueTypeOK, TypeOK, NEW w \in Workers, ScanNext(w), UNCHANGED apiVars
    PROVE  TypeOK'
<1>1. workers[w].pc = "processing"
  BY DEF ScanNext, scan_load, scan_read, scan_read_fails, scan_reject, scan_reject_audit,
     scan_reject_delete, scan_dedup, scan_tier_audit, scan_duplicate, scan_dup_delete,
     scan_dup_audit, scan_promote, scan_promote_fails, scan_clear, scan_validated,
     scan_race_lost, scan_race_escalate, scan_race_tier_audit, scan_race_audit,
     scan_promoted_audit, scan_enqueue, loads, At
<1>2. DocOf(w) \in Docs
  BY <1>1, HasDocument
<1>3. /\ docs \in [Docs -> DocRows] /\ chunks \in [Docs -> ChunkRows]
      /\ task \in [Workers -> TaskStates] /\ TaskFits(w)
  BY DEF TypeOK
<1>4. task[w].pc \in {"read"} \cup ScanPcs => task[w].doc \in DocRows
  BY <1>3 DEF TaskFits, Loaded
<1>5. task[w].pc \in ScanPcs => WorkerStage[w] = "SCAN"
  BY <1>3 DEF TaskFits
<1>6. ASSUME NEW dto \in DocRows, NEW pc \in Outcomes \cup ScanPcs, WorkerStage[w] = "SCAN",
             task[w].doc \in DocRows, commits(w, dto, pc)
      PROVE  TypeOK'
  <2>1. pc \in TaskPcs /\ "transient" \in TaskPcs
    BY DEF TaskPcs, Loaded, Outcomes
  <2>2. /\ docs' \in [Docs -> DocRows] /\ UNCHANGED <<store, chunks, audit, queueVars>>
        /\ Goto(w, "transient") \/ Goto(w, pc)
    BY <1>2, <1>6, <2>1, CommitsTo
  <2>3. CASE Goto(w, "transient")
    BY <1>1, <1>3, <1>6, <2>1, <2>2, <2>3, GoesTypes DEF queueVars, Loaded, ScanPcs, TextPcs
  <2>4. CASE Goto(w, pc)
    BY <1>1, <1>3, <1>6, <2>1, <2>2, <2>4, GoesTypes DEF queueVars, Outcomes, ScanPcs, TextPcs
  <2> QED
    BY <2>2, <2>3, <2>4
<1>7. ASSUME NEW pc \in Outcomes \cup ScanPcs, WorkerStage[w] = "SCAN",
             task[w].doc \in DocRows, Goto(w, pc), UNCHANGED <<docs, chunks, workers>>
      PROVE  TypeOK'
  <2>1. pc \in TaskPcs
    BY <1>7 DEF TaskPcs, Loaded
  <2> QED
    BY <1>1, <1>3, <1>7, <2>1, GoesTypes DEF Outcomes, ScanPcs, TextPcs
<1>8. CASE scan_load(w)
  <2>1. UNCHANGED <<corpusVars, queueVars>>
    BY <1>8 DEF scan_load, loads
  <2>2. CASE Goto(w, "ok")
    BY <1>1, <1>3, <2>1, <2>2, GoesTypes
       DEF corpusVars, queueVars, Outcomes, TaskPcs, Loaded, ScanPcs, TextPcs
  <2>3. CASE task' = [task EXCEPT ![w] = [NoTask EXCEPT !.pc = "read", !.doc = docs[DocOf(w)]]]
    BY <1>1, <1>2, <1>3, <2>1, <2>3, Copies, HandlerTypes
       DEF corpusVars, queueVars, Loaded, ScanPcs, TextPcs
  <2> QED
    BY <1>8, <2>2, <2>3 DEF scan_load, loads
<1>9. CASE scan_read(w)
  <2> DEFINE u == IF ContentOf[DocOf(w)] \in Valid
                  THEN [task[w] EXCEPT !.pc = "dedup", !.doc.sha = ContentOf[DocOf(w)]]
                  ELSE [task[w] EXCEPT !.pc = "reject"]
  <2>1. task[w].doc \in DocRows /\ WorkerStage[w] = "SCAN" /\ ContentOf[DocOf(w)] \in Contents
    BY <1>2, <1>4, <1>9, CorpusAssumption DEF scan_read, At
  <2>2. [task[w].doc EXCEPT !.sha = ContentOf[DocOf(w)]] \in DocRows
    BY <2>1, DocEdits
  <2>3. u \in TaskStates /\ u.pc \in {"dedup", "reject"} /\ u.doc \in DocRows
    BY <1>3, <2>1, <2>2 DEF TaskStates, TaskPcs, Loaded, ScanPcs
  <2> HIDE DEF u
  <2>4. task' = [task EXCEPT ![w] = u]
    BY <1>9 DEF scan_read, u
  <2> QED
    BY <1>1, <1>3, <1>9, <2>1, <2>3, <2>4, HandlerTypes
       DEF scan_read, corpusVars, queueVars, TextPcs
<1>10. CASE \/ scan_read_fails(w) \/ scan_reject(w) \/ scan_duplicate(w)
            \/ scan_promote_fails(w) \/ scan_race_lost(w)
  <2>1. task[w].doc \in DocRows /\ WorkerStage[w] = "SCAN"
    BY <1>4, <1>5, <1>10 DEF scan_read_fails, scan_reject, scan_duplicate, scan_promote_fails,
       scan_race_lost, At, ScanPcs
  <2>2. /\ [task[w].doc EXCEPT !.status = "VALIDATION_FAILED"] \in DocRows
        /\ [task[w].doc EXCEPT !.status = "REJECTED", !.quarantine = FALSE] \in DocRows
        /\ [task[w].doc EXCEPT !.status = "DUPLICATE", !.quarantine = FALSE] \in DocRows
        /\ [task[w].doc EXCEPT !.status = "DUPLICATE", !.quarantine = FALSE, !.raw = None]
              \in DocRows
    BY <2>1 DEF DocRows, DocumentStatus, Inactive
  <2> QED
    BY <1>6, <1>10, <2>1, <2>2 DEF scan_read_fails, scan_reject, scan_duplicate,
       scan_promote_fails, scan_race_lost, Outcomes, ScanPcs
<1>11. CASE \/ scan_reject_audit(w) \/ scan_reject_delete(w) \/ scan_tier_audit(w)
            \/ scan_dup_delete(w) \/ scan_dup_audit(w) \/ scan_promote(w) \/ scan_clear(w)
            \/ scan_race_tier_audit(w) \/ scan_race_audit(w) \/ scan_promoted_audit(w)
            \/ scan_enqueue(w)
  <2>1. task[w].doc \in DocRows /\ WorkerStage[w] = "SCAN"
    BY <1>4, <1>5, <1>11 DEF scan_reject_audit, scan_reject_delete, scan_tier_audit,
       scan_dup_delete, scan_dup_audit, scan_promote, scan_clear, scan_race_tier_audit,
       scan_race_audit, scan_promoted_audit, scan_enqueue, At, ScanPcs
  <2> QED
    BY <1>7, <1>11, <2>1 DEF scan_reject_audit, scan_reject_delete, scan_tier_audit,
       scan_dup_delete, scan_dup_audit, scan_promote, scan_clear, scan_race_tier_audit,
       scan_race_audit, scan_promoted_audit, scan_enqueue, audits, enqueues, AddJob, corpusVars,
       queueVars, Outcomes, ScanPcs
<1>12. CASE scan_dedup(w) \/ scan_race_escalate(w)
  <2>1. task[w].doc \in DocRows /\ WorkerStage[w] = "SCAN" /\ UNCHANGED <<chunks, workers>>
    BY <1>4, <1>5, <1>12 DEF scan_dedup, scan_race_escalate, At, ScanPcs, queueVars
  <2>2. ASSUME Goto(w, "promote") \/ Goto(w, "race_audit"), UNCHANGED docs PROVE TypeOK'
    BY <1>7, <2>1, <2>2 DEF ScanPcs
  <2>3. ASSUME NEW e \in Docs, NEW a \in ScanPcs, NEW pc \in ScanPcs, escalates(w, e, a, pc)
        PROVE  TypeOK'
    <3>1. a \in TaskPcs /\ pc \in TaskPcs
      BY DEF TaskPcs, Loaded
    <3>2. /\ task' \in [Workers -> TaskStates] /\ \A v \in Workers \ {w} : task'[v] = task[v]
          /\ task'[w].doc = task[w].doc /\ docs' \in [Docs -> DocRows]
          /\ task'[w].pc \in {a, pc}
      BY <2>1, <2>3, <3>1, EscalatesTo
    <3> QED
      BY <1>1, <1>3, <2>1, <3>2, HandlerTypes DEF ScanPcs, TextPcs
  <2> QED
    BY <1>12, <2>2, <2>3 DEF scan_dedup, scan_race_escalate, get_by_checksum, ScanPcs
<1>13. CASE scan_validated(w)
  <2>1. task[w].doc \in DocRows /\ WorkerStage[w] = "SCAN" /\ UNCHANGED <<chunks, workers>>
    BY <1>4, <1>5, <1>13 DEF scan_validated, At, ScanPcs, queueVars
  <2>2. CASE Goto(w, "race_lost") /\ UNCHANGED docs
    BY <1>7, <2>1, <2>2 DEF ScanPcs
  <2>3. CASE Goto(w, "promoted_audit") /\ update_document(DocOf(w), Promoted(w))
    <3>1. Promoted(w) \in DocRows
      BY <2>1 DEF Promoted, DocRows, DocumentStatus
    <3>2. docs' \in [Docs -> DocRows]
      BY <1>2, <2>3, <3>1, UpdatesTo
    <3> QED
      BY <1>1, <1>3, <2>1, <2>3, <3>2, GoesTypes DEF TaskPcs, Loaded, ScanPcs, TextPcs
  <2> QED
    BY <1>13, <2>2, <2>3 DEF scan_validated
<1> QED
  BY <1>8, <1>9, <1>10, <1>11, <1>12, <1>13 DEF ScanNext

\* The same for the four text stages.
LEMMA TextTypes ==
    ASSUME QueueTypeOK, TypeOK, NEW w \in Workers, TextNext(w), UNCHANGED apiVars
    PROVE  TypeOK'
<1>1. PICK s \in TextStageNames :
         \/ Common(w, s)
         \/ s = "EXTRACT" /\ extract_no_raw(w)
         \/ s = "CHUNK" /\ chunk_persist(w)
         \/ /\ s = "EMBED"
            /\ \/ embed_work(w) \/ embed_store(w) \/ embed_unsupported(w) \/ embed_skip(w)
               \/ embed_skip_audit(w)
  BY DEF TextNext, extract_process, normalize_process, chunk_process, embed_process, TextStageNames
<1>2. workers[w].pc = "processing" /\ WorkerStage[w] = s
  BY <1>1 DEF Common, stage_load, stage_read, stage_read_fails, stage_work, stage_work_fails,
     stage_put, stage_put_fails, stage_commit, stage_audit, stage_enqueue, stage_fail,
     stage_fail_audit, extract_no_raw, chunk_persist, embed_work, embed_store,
     embed_unsupported, embed_skip, embed_skip_audit, loads, InStage, At
<1>3. DocOf(w) \in Docs
  BY <1>2, HasDocument
<1>4. /\ docs \in [Docs -> DocRows] /\ chunks \in [Docs -> ChunkRows]
      /\ task \in [Workers -> TaskStates] /\ TaskFits(w)
  BY DEF TypeOK
<1>5. task[w].pc \in {"read"} \cup TextPcs => task[w].doc \in DocRows
  BY <1>4 DEF TaskFits, Loaded
<1>6. ASSUME NEW pc \in Outcomes \cup TextPcs, task[w].doc \in DocRows, Goto(w, pc),
             docs' \in [Docs -> DocRows], chunks' \in [Docs -> ChunkRows], UNCHANGED workers
      PROVE  TypeOK'
  <2>1. pc \in TaskPcs
    BY <1>6 DEF TaskPcs, Loaded
  <2> QED
    BY <1>1, <1>2, <1>6, <2>1, GoesTypes DEF Outcomes, ScanPcs, TextPcs
<1>7. ASSUME NEW dto \in DocRows, NEW pc \in Outcomes \cup TextPcs, task[w].doc \in DocRows,
             commits(w, dto, pc)
      PROVE  TypeOK'
  <2>1. pc \in TaskPcs
    BY <1>7 DEF TaskPcs, Loaded
  <2>2. /\ docs' \in [Docs -> DocRows] /\ UNCHANGED <<store, chunks, audit, queueVars>>
        /\ Goto(w, "transient") \/ Goto(w, pc)
    BY <1>3, <1>7, <2>1, CommitsTo
  <2> QED
    BY <1>4, <1>6, <1>7, <2>2 DEF queueVars, Outcomes
<1>8. CASE stage_load(w, s)
  <2>1. UNCHANGED <<corpusVars, queueVars>>
    BY <1>8 DEF stage_load, loads
  <2>2. CASE Goto(w, "ok")
    BY <1>2, <1>4, <2>1, <2>2, GoesTypes
       DEF corpusVars, queueVars, Outcomes, TaskPcs, Loaded, ScanPcs, TextPcs
  <2>3. CASE task' = [task EXCEPT ![w] = [NoTask EXCEPT !.pc = "read", !.doc = docs[DocOf(w)]]]
    BY <1>2, <1>3, <1>4, <2>1, <2>3, Copies, HandlerTypes
       DEF corpusVars, queueVars, Loaded, ScanPcs, TextPcs
  <2> QED
    BY <1>8, <2>2, <2>3 DEF stage_load, loads
<1>9. CASE \/ stage_read(w, s) \/ stage_read_fails(w, s) \/ stage_work(w, s)
           \/ stage_work_fails(w, s) \/ stage_put(w, s) \/ stage_put_fails(w, s)
           \/ stage_audit(w, s) \/ stage_enqueue(w, s) \/ stage_fail_audit(w, s)
           \/ extract_no_raw(w) \/ embed_unsupported(w) \/ embed_skip_audit(w)
  <2>1. task[w].doc \in DocRows
    BY <1>5, <1>9 DEF stage_read, stage_read_fails, stage_work, stage_work_fails, stage_put,
       stage_put_fails, stage_audit, stage_enqueue, stage_fail_audit, extract_no_raw,
       embed_unsupported, embed_skip_audit, InStage, At, TextPcs
  <2>2. UNCHANGED <<docs, chunks, workers>>
    BY <1>9 DEF stage_read, stage_read_fails, stage_work, stage_work_fails, stage_put,
       stage_put_fails, stage_audit, stage_enqueue, stage_fail_audit, extract_no_raw,
       embed_unsupported, embed_skip_audit, audits, enqueues, AddJob, corpusVars, queueVars
  <2>3. \E pc \in Outcomes \cup TextPcs : Goto(w, pc)
    BY <1>9 DEF stage_read, stage_read_fails, stage_work, stage_work_fails, stage_put,
       stage_put_fails, stage_audit, stage_enqueue, stage_fail_audit, extract_no_raw,
       embed_unsupported, embed_skip_audit, audits, enqueues, Outcomes, TextPcs
  <2> QED
    BY <1>4, <1>6, <2>1, <2>2, <2>3
<1>10. CASE stage_commit(w, s) \/ stage_fail(w, s) \/ embed_skip(w)
  <2>1. task[w].doc \in DocRows
    BY <1>5, <1>10 DEF stage_commit, stage_fail, embed_skip, InStage, At, TextPcs
  <2>2. /\ DoneStatus[s] \in DocumentStatus /\ FailStatus[s] \in DocumentStatus
        /\ "SKIPPED_UNSUPPORTED_LANGUAGE" \in DocumentStatus
    BY DEF TextStageNames, DoneStatus, FailStatus, DocumentStatus
  <2>3. \A x \in DocumentStatus : [task[w].doc EXCEPT !.status = x] \in DocRows
    BY <2>1, DocEdits
  <2> QED
    BY <1>7, <1>10, <2>1, <2>2, <2>3 DEF stage_commit, stage_fail, embed_skip, TextPcs
<1>11. CASE chunk_persist(w)
  <2>1. task[w].doc \in DocRows
    BY <1>5, <1>11 DEF chunk_persist, InStage, At, TextPcs
  <2>2. chunks' \in [Docs -> ChunkRows]
    BY <1>3, <1>4, <1>11 DEF chunk_persist, ChunkRows
  <2> QED
    BY <1>4, <1>6, <1>11, <2>1, <2>2 DEF chunk_persist, TextPcs, queueVars
<1>12. CASE embed_store(w)
  <2>1. task[w].doc \in DocRows
    BY <1>5, <1>12 DEF embed_store, InStage, At, TextPcs
  <2>2. chunks' \in [Docs -> ChunkRows]
    BY <1>3, <1>4, <1>12 DEF embed_store, ChunkRows
  <2> QED
    BY <1>4, <1>6, <1>12, <2>1, <2>2 DEF embed_store, TextPcs, Outcomes, queueVars
<1>13. CASE embed_work(w)
  <2> DEFINE n == chunks[DocOf(w)].insertion
             u == [[task[w] EXCEPT !.pc = "put"] EXCEPT !.chunks = n]
  <2>1. task[w].doc \in DocRows /\ n \in Nat /\ task[w] \in TaskStates
    BY <1>3, <1>4, <1>5, <1>13 DEF embed_work, InStage, At, TextPcs, ChunkRows
  <2>2. task' = [task EXCEPT ![w] = u]
    BY <1>4, <1>13, <2>1 DEF embed_work, TaskStates
  <2>3. u \in TaskStates /\ u.pc = "put" /\ u.doc = task[w].doc
    BY <2>1 DEF TaskStates, TaskPcs, Loaded, TextPcs
  <2> HIDE DEF u
  <2> QED
    BY <1>1, <1>2, <1>4, <1>13, <2>1, <2>2, <2>3, HandlerTypes
       DEF embed_work, corpusVars, queueVars, ScanPcs
<1> QED
  BY <1>1, <1>8, <1>9, <1>10, <1>11, <1>12, <1>13 DEF Common

\* The edits of a delete request's memory.
LEMMA EraseEdits ==
    /\ NoErase \in EraseStates /\ NoErase.pc = "idle" /\ NoErase.recorded = FALSE
    /\ \A r \in EraseStates, pc \in ErasePcs :
          LET u == [r EXCEPT !.pc = pc]
          IN  u \in EraseStates /\ u.pc = pc /\ u.doc = r.doc /\ u.recorded = r.recorded
<1>1. NoErase \in EraseStates /\ NoErase.pc = "idle" /\ NoErase.recorded = FALSE
  BY DEF NoErase, EraseStates, ErasePcs
<1>2. ASSUME NEW r \in EraseStates, NEW pc \in ErasePcs
      PROVE  LET u == [r EXCEPT !.pc = pc]
             IN  u \in EraseStates /\ u.pc = pc /\ u.doc = r.doc /\ u.recorded = r.recorded
  BY DEF EraseStates
<1> QED
  BY <1>1, <1>2

\* A delete request goes on with the copy it has, or ends.
LEMMA EraseGoes ==
    ASSUME TypeOK, NEW d \in Docs,
           \/ \E from, to \in ErasePcs : from # "idle" /\ EraseStep(d, from, to)
           \/ erase' = [erase EXCEPT ![d] = NoErase]
    PROVE  /\ erase' \in [Docs -> EraseStates]
           /\ \A e \in Docs \ {d} : erase'[e] = erase[e]
           /\ erase'[d].pc # "idle" => erase'[d].doc = erase[d].doc /\ erase[d].doc \in DocRows
           /\ erase'[d].recorded \in {FALSE, erase[d].recorded}
<1>1. erase \in [Docs -> EraseStates] /\ erase[d] \in EraseStates
  BY DEF TypeOK
<1>2. CASE erase' = [erase EXCEPT ![d] = NoErase]
  BY <1>1, <1>2, EraseEdits
<1>3. ASSUME NEW from \in ErasePcs, NEW to \in ErasePcs, from # "idle", EraseStep(d, from, to)
      PROVE  /\ erase' \in [Docs -> EraseStates] /\ \A e \in Docs \ {d} : erase'[e] = erase[e]
             /\ erase'[d].doc = erase[d].doc /\ erase'[d].recorded = erase[d].recorded
             /\ erase[d].doc \in DocRows
  <2> DEFINE u == [erase[d] EXCEPT !.pc = to]
  <2>1. u \in EraseStates /\ u.doc = erase[d].doc /\ u.recorded = erase[d].recorded
    BY <1>1 DEF EraseStates
  <2>2. erase' = [erase EXCEPT ![d] = u]
    BY <1>3 DEF EraseStep
  <2>3. erase[d].doc \in DocRows
    BY <1>3 DEF EraseStep, TypeOK
  <2> HIDE DEF u
  <2> QED
    BY <1>1, <2>1, <2>2, <2>3
<1> QED
  BY <1>2, <1>3

\* A request touches no worker.
LEMMA RequestsFrame ==
    ASSUME NEW d \in Docs,
           Receives(d) \/ Deleted(d) \/ Erases(d) \/ RequestDies(d) \/ Backfilled(d)
    PROVE  UNCHANGED <<task, workers>>
  BY DEF Receives, receive_put, receive_create, receive_enqueue, receive_audit, Deleted,
     delete_document, Erases, erase_busy, erase_claim, erase_unrecorded, erase_chunks,
     erase_chunks_raises, erase_purge, erase_duplicates, erase_object, erase_object_unseen,
     erase_object_fails, RequestDies, receive_dies, erase_dies, Backfilled, backfill, AddJob,
     CancelPending, queueVars

\* The requests and the back-fill write the documents and their own state as typed.
LEMMA RequestTypes ==
    ASSUME TypeOK, NEW d \in Docs,
           Receives(d) \/ Deleted(d) \/ Erases(d) \/ RequestDies(d) \/ Backfilled(d)
    PROVE  TypeOK'
<1>1. /\ docs \in [Docs -> DocRows] /\ docs[d] \in DocRows /\ chunks \in [Docs -> ChunkRows]
      /\ chunks[d] \in ChunkRows /\ upload \in [Docs -> UploadStates]
      /\ erase \in [Docs -> EraseStates] /\ erase[d] \in EraseStates
  BY DEF TypeOK
<1>2. UNCHANGED <<task, workers>>
  BY RequestsFrame
<1>3. ASSUME docs' \in [Docs -> DocRows], chunks' \in [Docs -> ChunkRows],
             upload' \in [Docs -> UploadStates], erase' \in [Docs -> EraseStates],
             \A e \in Docs : erase'[e].pc # "idle" => erase'[e].doc \in DocRows
      PROVE  TypeOK'
  BY <1>2, <1>3 DEF TypeOK, TaskFits
<1>4. CASE Receives(d) \/ (RequestDies(d) /\ receive_dies(d))
  <2>1. upload' \in [Docs -> UploadStates] /\ UNCHANGED <<chunks, erase>>
    BY <1>1, <1>4 DEF Receives, receive_put, receive_create, receive_enqueue, receive_audit,
       receive_dies, UploadStep, UploadStates, corpusVars
  <2>2. docs' \in [Docs -> DocRows]
    <3>1. CASE receive_create(d)
      BY <1>1, <3>1 DEF receive_create, DocRows, DocumentStatus
    <3> QED
      BY <1>1, <1>4, <3>1 DEF Receives, receive_put, receive_enqueue, receive_audit,
         receive_dies, corpusVars
  <2> QED
    BY <1>1, <1>3, <2>1, <2>2 DEF TypeOK
<1>5. CASE Deleted(d)
  <2> DEFINE u == [NoErase EXCEPT !.pc = "claim", !.doc = docs[d]]
  <2>1. u \in EraseStates /\ u.doc = docs[d]
    BY <1>1 DEF NoErase, EraseStates, ErasePcs
  <2> HIDE DEF u
  <2>2. erase' = [erase EXCEPT ![d] = u] /\ UNCHANGED <<corpusVars, upload>>
    BY <1>5 DEF Deleted, delete_document, u
  <2> QED
    BY <1>1, <1>3, <2>1, <2>2 DEF TypeOK, corpusVars
<1>6. CASE Erases(d) \/ (RequestDies(d) /\ erase_dies(d))
  <2>1. UNCHANGED upload
    BY <1>6 DEF Erases, erase_busy, erase_claim, erase_unrecorded, erase_chunks,
       erase_chunks_raises, erase_purge, erase_duplicates, erase_object, erase_object_unseen,
       erase_object_fails, erase_dies
  <2>2. docs' \in [Docs -> DocRows]
    <3>1. CASE erase_purge(d)
      BY <1>1, <3>1, DocEdits DEF erase_purge
    <3>2. CASE erase_duplicates(d)
      <4>1. \A e \in Docs : docs[e] \in DocRows /\ TombstonedDuplicate(docs[e]) \in DocRows
        BY <1>1, DocEdits
      <4> QED
        BY <1>1, <3>2, <4>1 DEF erase_duplicates, purge_duplicates_of
    <3> QED
      BY <1>1, <1>6, <3>1, <3>2 DEF Erases, erase_busy, erase_claim, erase_unrecorded,
         erase_chunks, erase_chunks_raises, erase_object, erase_object_unseen,
         erase_object_fails, erase_dies, corpusVars
  <2>3. chunks' \in [Docs -> ChunkRows]
    <3>1. CASE erase_chunks(d)
      BY <1>1, <3>1 DEF erase_chunks, ErasedChunks, ChunkRows
    <3> QED
      BY <1>1, <1>6, <3>1 DEF Erases, erase_busy, erase_claim, erase_unrecorded,
         erase_chunks_raises, erase_purge, erase_duplicates, erase_object, erase_object_unseen,
         erase_object_fails, erase_dies, corpusVars
  <2>4. /\ erase' \in [Docs -> EraseStates]
        /\ \A e \in Docs : erase'[e].pc # "idle" => erase'[e].doc \in DocRows
    <3>1. CASE erase_claim(d)
      <4> DEFINE u == [[erase[d] EXCEPT !.pc = "raw"] EXCEPT !.recorded = TRUE]
      <4>1. u \in EraseStates /\ u.doc = erase[d].doc
        BY <1>1 DEF EraseStates, ErasePcs, AfterBucket
      <4>2. erase' = [erase EXCEPT ![d] = u]
        BY <1>1, <3>1 DEF erase_claim, EraseStates
      <4>3. erase[d].doc \in DocRows
        BY <3>1 DEF erase_claim, TypeOK
      <4> HIDE DEF u
      <4> QED
        BY <1>1, <4>1, <4>2, <4>3 DEF TypeOK
    <3>2. ASSUME ~erase_claim(d)
          PROVE  \/ \E from, to \in ErasePcs : from # "idle" /\ EraseStep(d, from, to)
                 \/ erase' = [erase EXCEPT ![d] = NoErase]
      <4>1. ASSUME NEW b \in DOMAIN AfterBucket
            PROVE  b \in ErasePcs /\ b # "idle" /\ AfterBucket[b] \in ErasePcs
        BY DEF AfterBucket, ErasePcs
      <4>2. {"claim", "raw", "chunks", "purge", "duplicates"} \subseteq ErasePcs
        BY DEF AfterBucket, ErasePcs
      <4> QED
        BY <1>6, <3>2, <4>1, <4>2 DEF Erases, erase_busy, erase_unrecorded, erase_chunks,
           erase_chunks_raises, erase_purge, erase_duplicates, erase_object,
           erase_object_unseen, erase_object_fails, erase_dies
    <3> QED
      BY <3>1, <3>2, EraseGoes DEF TypeOK
  <2> QED
    BY <1>1, <1>3, <2>1, <2>2, <2>3, <2>4
<1>7. CASE Backfilled(d)
  <2>1. PICK s \in BackfillStages, mode \in Backfills : backfill(d, s, mode)
    BY <1>7 DEF Backfilled
  <2>2. UNCHANGED <<chunks, upload, erase>>
    BY <2>1 DEF backfill, apiVars
  <2>3. STAGE_ENTRY_STATUS[s] \in DocumentStatus
    BY ApiAssumption DEF STAGE_ENTRY_STATUS, DocumentStatus
  <2>4. Reset(docs[d], s) \in DocRows
    BY <1>1, <2>3, DocEdits DEF Reset
  <2>5. docs' \in [Docs -> DocRows]
    BY <1>1, <2>1, <2>4 DEF backfill
  <2> QED
    BY <1>1, <1>3, <2>2, <2>5 DEF TypeOK
<1> QED
  BY <1>4, <1>5, <1>6, <1>7 DEF RequestDies

\* The queue's own steps leave the corpus and the requests alone.
LEMMA QueueStepTypes ==
    ASSUME QueueTypeOK, TypeOK, NEW w \in Workers,
           \/ Claims(w) \/ Renews(w) \/ Reaps(w) \/ Writes(w) \/ CompletionFails(w)
           \/ WorkerDies(w) \/ (Handles(w) /\ returns(w)) \/ Aborts(w)
           \/ \E j \in Jobs : LeaseRunsOut(j)
    PROVE  TypeOK'
<1>1. UNCHANGED <<docs, chunks, upload, erase>>
  BY DEF Claims, Renews, Reaps, Writes, CompletionFails, WorkerDies, Handles, Aborts, returns,
     aborts, LeaseRunsOut, corpusVars, apiVars
<1>2. ASSUME task' \in [Workers -> TaskStates], \A v \in Workers : TaskFits(v)' PROVE TypeOK'
  BY <1>1, <1>2 DEF TypeOK
<1>3. task \in [Workers -> TaskStates] /\ \A v \in Workers : TaskFits(v)
  BY DEF TypeOK
<1>4. NoTask \in TaskStates /\ NoTask.pc = "start"
  BY DEF NoTask, TaskStates, TaskPcs
<1>5. /\ "start" \notin Loaded /\ "start" \notin ScanPcs /\ "start" \notin TextPcs
      /\ ScanPcs \subseteq Loaded /\ TextPcs \subseteq Loaded
  BY DEF Loaded, ScanPcs, TextPcs
<1> USE QueueAssumption DEF QueueTypeOK
<1>6. CASE Claims(w)
  <2>1. PICK j \in Jobs : pick_job(w, j)
    BY <1>6 DEF Claims
  <2>2. /\ JobStage[j] = WorkerStage[w] /\ workers[w].pc = "idle" /\ UNCHANGED task
        /\ workers' = [workers EXCEPT ![w] = Claiming(j, jobs[j].retry_count)]
    BY <1>6, <2>1 DEF Claims, pick_job
  <2>3. Claiming(j, jobs[j].retry_count).job = j
    BY DEF Claiming
  <2> QED
    BY <1>2, <1>3, <2>2, <2>3 DEF TaskFits
<1>7. CASE UNCHANGED <<task, workers>>
  BY <1>2, <1>3, <1>7 DEF TaskFits
<1>8. CASE Writes(w)
  <2>1. UNCHANGED task /\ workers' = [workers EXCEPT ![w] = IdleWorker]
        /\ workers[w].pc # "processing"
    BY <1>8 DEF Writes, WriteOutcome, mark_job_completed, handle_job_retry_or_fail,
       mark_job_failed
  <2> QED
    BY <1>2, <1>3, <2>1, WorkerEdits DEF TaskFits
<1>9. CASE CompletionFails(w)
  <2>1. /\ UNCHANGED task /\ workers' = [workers EXCEPT ![w] = Ended(workers[w], "transient")]
        /\ workers[w].pc = "finishing"
    BY <1>9 DEF CompletionFails, complete_raises
  <2>2. "transient" \in Outcomes /\ workers[w] \in WorkerStates
    BY DEF Outcomes
  <2>3. /\ Ended(workers[w], "transient").pc = "finishing"
        /\ Ended(workers[w], "transient").job = workers[w].job
    BY <2>2, WorkerEdits
  <2> QED
    BY <1>2, <1>3, <2>1, <2>3 DEF TaskFits
<1>10. CASE WorkerDies(w)
  <2>1. /\ task' = [task EXCEPT ![w] = NoTask]
        /\ workers' = [workers EXCEPT ![w] = IdleWorker]
    BY <1>10 DEF WorkerDies, Crash
  <2> QED
    BY <1>2, <1>3, <1>4, <1>5, <2>1, WorkerEdits DEF TaskFits
<1>11. CASE returns(w)
  <2>1. PICK o \in Outcomes : /\ workers' = [workers EXCEPT ![w] = Ended(workers[w], o)]
                              /\ workers[w].pc = "processing"
                              /\ task' = [task EXCEPT ![w] = NoTask]
    BY <1>11 DEF returns, process_job_ends
  <2>2. workers[w] \in WorkerStates
    OBVIOUS
  <2>3. Ended(workers[w], o).pc = "finishing" /\ Ended(workers[w], o).job = workers[w].job
    BY <2>2, WorkerEdits
  <2> QED
    BY <1>2, <1>3, <1>4, <1>5, <2>1, <2>3 DEF TaskFits
<1>12. CASE Aborts(w)
  <2>1. /\ Goto(w, "transient") /\ UNCHANGED <<docs, chunks, workers, apiVars>>
        /\ workers[w].pc = "processing"
    BY <1>12 DEF Aborts, aborts, corpusVars, queueVars
  <2>2. "transient" \in TaskPcs /\ "transient" \notin Loaded \cup ScanPcs \cup TextPcs
    BY DEF TaskPcs, Outcomes, Loaded, ScanPcs, TextPcs
  <2> QED
    BY <2>1, <2>2, GoesTypes DEF TypeOK
<1> QED
  BY <1>6, <1>7, <1>8, <1>9, <1>10, <1>11, <1>12 DEF Renews, renew_once, Reaps,
     reap_stuck_jobs, LeaseRunsOut, ExpireLease

\* One step per kind of process.
LEMMA TypeStep == QueueTypeOK /\ TypeOK /\ [Next]_vars => TypeOK'
<1> SUFFICES ASSUME QueueTypeOK, TypeOK, [Next]_vars PROVE TypeOK'
  OBVIOUS
<1>1. ASSUME NEW w \in Workers,
             \/ Claims(w) \/ Renews(w) \/ Reaps(w) \/ Writes(w) \/ CompletionFails(w)
             \/ WorkerDies(w) \/ Handles(w) \/ Aborts(w)
      PROVE  TypeOK'
  BY <1>1, ScanTypes, TextTypes, QueueStepTypes DEF Handles
<1>2. ASSUME NEW d \in Docs,
             Receives(d) \/ Deleted(d) \/ Erases(d) \/ RequestDies(d) \/ Backfilled(d)
      PROVE  TypeOK'
  BY <1>2, RequestTypes
<1>3. ASSUME NEW j \in Jobs, LeaseRunsOut(j) PROVE TypeOK'
  BY <1>3 DEF LeaseRunsOut, ExpireLease, TypeOK, TaskFits, corpusVars, apiVars
<1>4. CASE UNCHANGED vars
  BY <1>4 DEF vars, TypeOK, TaskFits
<1> QED
  BY <1>1, <1>2, <1>3, <1>4 DEF Next

\* Every row, object of memory and request keeps its type; a handler is always one
\* of its worker's stage, on a job of that stage, and past its first step it holds
\* a copy of a documents row.
THEOREM PipelineTypeCorrect == Spec => [](QueueTypeOK /\ TypeOK)
<1>1. Init => TypeOK
  <2> SUFFICES ASSUME Init PROVE TypeOK
    OBVIOUS
  <2>1. docs \in [Docs -> DocRows] /\ chunks \in [Docs -> ChunkRows]
    BY CorpusAssumption
       DEF Init, CorpusInit, NoDoc, NoChunks, DocRows, ChunkRows, DocumentStatus, Inactive
  <2>2. NoTask \in TaskStates /\ NoTask.pc = "start"
    BY DEF NoTask, TaskStates, TaskPcs
  <2>3. task = [w \in Workers |-> NoTask] /\ workers = [w \in Workers |-> IdleWorker]
    BY DEF Init, TaskInit, QueueInit
  <2>4. \A w \in Workers : TaskFits(w)
    BY <2>2, <2>3, WorkerEdits DEF TaskFits, Loaded, ScanPcs, TextPcs
  <2>5. upload \in [Docs -> UploadStates]
    BY DEF Init, ApiInit, UploadStates
  <2>6. erase = [d \in Docs |-> NoErase]
    BY DEF Init, ApiInit
  <2> QED
    BY <2>1, <2>2, <2>3, <2>4, <2>5, <2>6, EraseEdits DEF TypeOK
<1>2. QueueTypeOK /\ TypeOK /\ [Next]_vars => TypeOK'
  BY TypeStep
<1> QED
  BY <1>1, <1>2, PipelineImplementsQueue, QueueTypeCorrect, PTL DEF Spec

(***************************************************************************)
(* Who a step concerns.                                                    *)
(***************************************************************************)

\* What a handler that still has something to do sees of itself is not changed.
Undisturbed(v) ==
    task'[v].pc \in Loaded =>
        task'[v] = task[v] /\ workers'[v] = workers[v] /\ workers[v].pc = "processing"

\* A worker's step on the queue changes no other worker.
LEMMA OthersKeep ==
    ASSUME QueueTypeOK, TypeOK, NEW w \in Workers,
           \/ Claims(w) \/ Renews(w) \/ Reaps(w) \/ Writes(w) \/ CompletionFails(w)
           \/ WorkerDies(w) \/ (Handles(w) /\ returns(w)) \/ Aborts(w)
    PROVE  \A v \in Workers \ {w} : workers'[v] = workers[v] /\ task'[v] = task[v]
<1>1. task \in [Workers -> TaskStates] /\ workers \in [Workers -> WorkerStates]
  BY DEF TypeOK, QueueTypeOK
<1> QED
  BY <1>1 DEF Claims, pick_job, Renews, renew_once, Reaps, reap_stuck_jobs, Writes, WriteOutcome,
     mark_job_completed, handle_job_retry_or_fail, mark_job_failed, CompletionFails,
     complete_raises, WorkerDies, Crash, returns, process_job_ends, Aborts, aborts, Goto,
     queueVars

\* The queue's own steps touch no document, and no handler that goes on working.
LEMMA QueueSteps ==
    ASSUME QueueTypeOK, TypeOK, NEW w \in Workers,
           \/ Claims(w) \/ Renews(w) \/ Reaps(w) \/ Writes(w) \/ CompletionFails(w)
           \/ WorkerDies(w) \/ (Handles(w) /\ returns(w)) \/ Aborts(w)
    PROVE  UNCHANGED <<corpusVars, apiVars>> /\ \A v \in Workers : Undisturbed(v)
<1>1. UNCHANGED <<corpusVars, apiVars>>
  BY DEF Claims, Renews, Reaps, Writes, CompletionFails, WorkerDies, Handles, Aborts, returns,
     aborts
<1>2. task \in [Workers -> TaskStates] /\ workers \in [Workers -> WorkerStates]
  BY DEF TypeOK, QueueTypeOK
<1>3. \A v \in Workers : task[v].pc \in Loaded => workers[v].pc = "processing"
  BY DEF TypeOK, TaskFits, Loaded, ScanPcs, TextPcs
<1>4. \A v \in Workers \ {w} : workers'[v] = workers[v] /\ task'[v] = task[v]
  BY OthersKeep
<1>5. Undisturbed(w)
  <2>1. CASE WorkerDies(w) \/ returns(w)
    BY <1>2, <2>1 DEF WorkerDies, returns, NoTask, Undisturbed, Loaded, ScanPcs, TextPcs
  <2>2. CASE Aborts(w)
    <3>1. Goto(w, "transient") /\ "transient" \in TaskPcs
      BY <2>2 DEF Aborts, aborts, TaskPcs, Outcomes
    <3> QED
      BY <3>1, Goes DEF Undisturbed, Loaded, ScanPcs, TextPcs
  <2>3. CASE Claims(w) \/ Writes(w) \/ CompletionFails(w)
    <3>1. UNCHANGED task /\ workers[w].pc # "processing"
      BY <2>3 DEF Claims, pick_job, Writes, WriteOutcome, mark_job_completed,
         handle_job_retry_or_fail, mark_job_failed, CompletionFails, complete_raises
    <3> QED
      BY <1>3, <3>1 DEF Undisturbed
  <2>4. CASE UNCHANGED <<task, workers>>
    BY <1>3, <2>4 DEF Undisturbed
  <2> QED
    BY <2>1, <2>2, <2>3, <2>4 DEF Renews, renew_once, Reaps, reap_stuck_jobs
<1>6. ASSUME NEW v \in Workers \ {w} PROVE Undisturbed(v)
  BY <1>3, <1>4 DEF Undisturbed
<1> QED
  BY <1>1, <1>5, <1>6

\* A handler's step is its worker's own.
LEMMA HandlerFrame ==
    ASSUME QueueTypeOK, TypeOK, NEW w \in Workers, ScanNext(w) \/ TextNext(w)
    PROVE  /\ workers' = workers /\ workers[w].pc = "processing"
           /\ \A v \in Workers \ {w} : task'[v] = task[v]
<1>1. CASE ScanNext(w)
  BY <1>1 DEF TypeOK, ScanNext, scan_load, scan_read, scan_read_fails, scan_reject,
     scan_reject_audit, scan_reject_delete, scan_dedup, scan_tier_audit, scan_duplicate,
     scan_dup_delete, scan_dup_audit, scan_promote, scan_promote_fails, scan_clear,
     scan_validated, scan_race_lost, scan_race_escalate, scan_race_tier_audit, scan_race_audit,
     scan_promoted_audit, scan_enqueue, loads, commits, audits, enqueues, escalates, AddJob, At,
     Goto, queueVars
<1>2. ASSUME NEW s, Common(w, s)
      PROVE  /\ workers' = workers /\ workers[w].pc = "processing"
             /\ \A v \in Workers \ {w} : task'[v] = task[v]
  BY <1>2 DEF TypeOK, Common, stage_load, stage_read, stage_read_fails, stage_work,
     stage_work_fails, stage_put, stage_put_fails, stage_commit, stage_audit, stage_enqueue,
     stage_fail, stage_fail_audit, loads, commits, audits, enqueues, AddJob, InStage, At, Goto,
     queueVars
<1>3. CASE TextNext(w)
  BY <1>2, <1>3 DEF TypeOK, TextNext, extract_process, normalize_process, chunk_process,
     embed_process, extract_no_raw, chunk_persist, embed_work, embed_store, embed_unsupported,
     embed_skip, embed_skip_audit, commits, audits, InStage, At, Goto, queueVars
<1> QED
  BY <1>1, <1>3

(***************************************************************************)
(* What a status promises is there (ArtifactsPresent), for any crashes,    *)
(* faults, stalls and workers, as long as nobody deletes or resets.        *)
(***************************************************************************)

\* What ArtifactsPresent says of one document.
Present(d) ==
    /\ docs[d].raw # None => <<"raw", docs[d].raw>> \in store
    /\ docs[d].status = "VALIDATED" => docs[d].raw # None
    /\ docs[d].status = "EXTRACTED" => <<"extracted", d>> \in store
    /\ docs[d].status = "AWAITING_CLASSIFICATION" => <<"normalized", d>> \in store
    /\ docs[d].status = "CHUNKED" => chunks[d].present

\* What the handler of w has already put in place.
TaskKeeps(w) ==
    /\ task[w].pc \in Loaded /\ task[w].doc.raw # None => <<"raw", task[w].doc.raw>> \in store
    /\ task[w].pc \in {"dedup", "promote", "clear", "validated"} => task[w].doc.sha # None
    /\ task[w].pc \in {"clear", "validated"} => <<"raw", task[w].doc.sha>> \in store
    /\ task[w].pc = "commit" =>
          /\ WorkerStage[w] = "EXTRACT" => <<"extracted", DocOf(w)>> \in store
          /\ WorkerStage[w] = "NORMALIZE" => <<"normalized", DocOf(w)>> \in store
          /\ WorkerStage[w] = "CHUNK" => chunks[DocOf(w)].present

\* Besides, no delete request ever starts.
KeptInv ==
    /\ \A d \in Docs : Present(d)
    /\ \A w \in Workers : TaskKeeps(w)
    /\ \A d \in Docs : erase[d].pc = "idle"

\* Only quarantined bytes are ever dropped.
Grows ==
    /\ \A c : <<"raw", c>> \in store => <<"raw", c>> \in store'
    /\ \A d \in Docs : /\ <<"extracted", d>> \in store => <<"extracted", d>> \in store'
                       /\ <<"normalized", d>> \in store => <<"normalized", d>> \in store'
                       /\ chunks[d].present => chunks'[d].present

\* No handler takes an artifact or a passage away.
LEMMA HandlerGrows ==
    ASSUME QueueTypeOK, TypeOK, NEW w \in Workers, ScanNext(w) \/ TextNext(w)
    PROVE  Grows
<1>1. DocOf(w) \in Docs
  BY HandlerFrame, HasDocument
<1>2. chunks \in [Docs -> ChunkRows]
  BY DEF TypeOK
<1>3. CASE UNCHANGED <<store, chunks>>
  BY <1>3 DEF Grows
<1>4. ASSUME NEW o, UNCHANGED chunks, delete_object(<<"quarantine", o>>) PROVE Grows
  BY <1>4 DEF delete_object, Grows
<1>5. CASE scan_promote(w)
  BY <1>5 DEF scan_promote, Copied, Grows
<1>6. ASSUME NEW s, stage_put(w, s) PROVE Grows
  BY <1>6 DEF stage_put, Grows
<1>7. CASE chunk_persist(w)
  BY <1>1, <1>2, <1>7 DEF chunk_persist, ChunkRows, Grows
<1>8. CASE embed_store(w)
  <2>1. CASE chunks' = [chunks EXCEPT ![DocOf(w)].vectors = TRUE]
    BY <1>1, <1>2, <1>8, <2>1 DEF embed_store, ChunkRows, Grows
  <2> QED
    BY <1>3, <1>8, <2>1 DEF embed_store
<1>9. CASE ScanNext(w)
  BY <1>3, <1>4, <1>5, <1>9 DEF ScanNext, scan_load, scan_read, scan_read_fails, scan_reject,
     scan_reject_audit, scan_reject_delete, scan_dedup, scan_tier_audit, scan_duplicate,
     scan_dup_delete, scan_dup_audit, scan_promote_fails, scan_clear, scan_validated,
     scan_race_lost, scan_race_escalate, scan_race_tier_audit, scan_race_audit,
     scan_promoted_audit, scan_enqueue, loads, commits, audits, enqueues, corpusVars
<1>10. ASSUME NEW s, Common(w, s) PROVE Grows
  BY <1>3, <1>6, <1>10 DEF Common, stage_load, stage_read, stage_read_fails, stage_work,
     stage_work_fails, stage_put_fails, stage_commit, stage_audit, stage_enqueue, stage_fail,
     stage_fail_audit, loads, commits, audits, enqueues, corpusVars
<1>11. CASE TextNext(w)
  BY <1>3, <1>7, <1>8, <1>10, <1>11 DEF TextNext, extract_process, normalize_process,
     chunk_process, embed_process, extract_no_raw, embed_work, embed_unsupported, embed_skip,
     embed_skip_audit, commits, audits, corpusVars
<1> QED
  BY <1>9, <1>11

\* Nothing is taken away from a handler that is left alone.
LEMMA StillKeeps ==
    ASSUME QueueTypeOK, TypeOK, Grows, NEW v \in Workers, TaskKeeps(v), Undisturbed(v),
           TypeOK'
    PROVE  TaskKeeps(v)'
<1>1. CASE task'[v].pc \notin Loaded
  BY <1>1 DEF TaskKeeps, Loaded, ScanPcs, TextPcs
<1>2. CASE task'[v].pc \in Loaded
  <2>1. task'[v] = task[v] /\ DocOf(v)' = DocOf(v) /\ DocOf(v) \in Docs
    BY <1>2, HasDocument DEF Undisturbed, DocOf
  <2> QED
    BY <2>1 DEF TaskKeeps, Grows
<1> QED
  BY <1>1, <1>2

\* A document whose row is left alone keeps its promises.
LEMMA StillPresent ==
    ASSUME Grows, NEW d \in Docs, Present(d),
           docs'[d].status = docs[d].status, docs'[d].raw = docs[d].raw
    PROVE  Present(d)'
  BY DEF Present, Grows

\* A handler's step leaves to be seen what it does to its document and its memory.
LEMMA HandlerKeeps ==
    ASSUME QueueTypeOK, TypeOK, TypeOK', KeptInv, NEW w \in Workers, ScanNext(w) \/ TextNext(w),
           UNCHANGED apiVars,
           \A d \in Docs \ {DocOf(w)} :
              docs'[d].status = docs[d].status /\ docs'[d].raw = docs[d].raw,
           Present(DocOf(w))', TaskKeeps(w)'
    PROVE  KeptInv'
<1>1. /\ Grows /\ workers' = workers /\ workers[w].pc = "processing"
      /\ \A v \in Workers \ {w} : task'[v] = task[v]
  BY HandlerGrows, HandlerFrame
<1>2. ASSUME NEW d \in Docs PROVE Present(d)'
  BY <1>1, <1>2, StillPresent DEF KeptInv, DocOf
<1>3. ASSUME NEW v \in Workers \ {w} PROVE TaskKeeps(v)'
  <2>1. Undisturbed(v)
    BY <1>1 DEF Undisturbed, TypeOK, TaskFits, Loaded, ScanPcs, TextPcs
  <2> QED
    BY <1>1, <2>1, StillKeeps DEF KeptInv
<1> QED
  BY <1>2, <1>3 DEF KeptInv, apiVars

\* A step that changes neither status nor raw_path of any document, and goes on
\* to a place that promises nothing new.
LEMMA GoesKeeps ==
    ASSUME QueueTypeOK, TypeOK, TypeOK', KeptInv, NEW w \in Workers, ScanNext(w) \/ TextNext(w),
           UNCHANGED apiVars,
           \A d \in Docs : docs'[d].status = docs[d].status /\ docs'[d].raw = docs[d].raw,
           task[w].pc \in Loaded \/ task'[w].pc \notin Loaded,
           task'[w].doc = task[w].doc,
           \/ task'[w].pc \notin {"dedup", "promote", "clear", "validated", "commit"}
           \/ task'[w].pc = "promote" /\ task[w].pc = "dedup"
           \/ task'[w].pc = "validated" /\ task[w].pc = "clear"
    PROVE  KeptInv'
<1>1. /\ Grows /\ workers' = workers /\ workers[w].pc = "processing" /\ DocOf(w) \in Docs
  BY HandlerGrows, HandlerFrame, HasDocument
<1>2. Present(DocOf(w))'
  BY <1>1, StillPresent DEF KeptInv, DocOf
<1>3. TaskKeeps(w)'
  <2>1. TaskKeeps(w)
    BY DEF KeptInv
  <2> QED
    BY <1>1, <2>1 DEF TaskKeeps, Grows, Loaded, ScanPcs, TextPcs
<1> QED
  BY <1>2, <1>3, HandlerKeeps

\* Writing the copy back promises only what the handler has seen to.
LEMMA CommitKeeps ==
    ASSUME QueueTypeOK, TypeOK, TypeOK', KeptInv, NEW w \in Workers, ScanNext(w) \/ TextNext(w),
           UNCHANGED apiVars, task[w].pc \in Loaded,
           NEW dto \in DocRows, NEW pc \in TaskPcs, commits(w, dto, pc),
           pc \notin {"dedup", "promote", "clear", "validated", "commit"},
           dto.raw \in {None, task[w].doc.raw},
           dto.status # "VALIDATED",
           dto.status = "EXTRACTED" => <<"extracted", DocOf(w)>> \in store,
           dto.status = "AWAITING_CLASSIFICATION" => <<"normalized", DocOf(w)>> \in store,
           dto.status = "CHUNKED" => chunks[DocOf(w)].present
    PROVE  KeptInv'
<1>1. /\ Grows /\ workers' = workers /\ workers[w].pc = "processing" /\ DocOf(w) \in Docs
      /\ TaskKeeps(w)
  BY HandlerGrows, HandlerFrame, HasDocument DEF KeptInv
<1>2. /\ \A d \in Docs \ {DocOf(w)} : docs'[d] = docs[d]
      /\ \/ Goto(w, "transient") /\ docs' = docs
         \/ Goto(w, pc) /\ docs'[DocOf(w)].status = dto.status /\ docs'[DocOf(w)].raw = dto.raw
  BY <1>1, CommitsTo
<1>3. CASE Goto(w, "transient") /\ docs' = docs
  <2>1. "transient" \in TaskPcs
    BY DEF TaskPcs, Outcomes
  <2> QED
    BY <1>3, <2>1, Goes, GoesKeeps
<1>4. CASE Goto(w, pc) /\ docs'[DocOf(w)].status = dto.status /\ docs'[DocOf(w)].raw = dto.raw
  <2>1. task'[w].pc = pc /\ task'[w].doc = task[w].doc
    BY <1>4, Goes
  <2>2. Present(DocOf(w))'
    BY <1>1, <1>4 DEF Present, TaskKeeps, Grows, DocOf
  <2>3. TaskKeeps(w)'
    BY <1>1, <2>1 DEF TaskKeeps, Grows
  <2> QED
    BY <1>2, <2>2, <2>3, HandlerKeeps
<1> QED
  BY <1>2, <1>3, <1>4

\* Promotion copies the bytes before it promises them.
LEMMA ScanKeeps ==
    ASSUME QueueTypeOK, TypeOK, TypeOK', KeptInv, NEW w \in Workers, ScanNext(w),
           UNCHANGED apiVars
    PROVE  KeptInv'
<1>1. /\ Grows /\ workers' = workers /\ workers[w].pc = "processing" /\ DocOf(w) \in Docs
      /\ TaskKeeps(w) /\ Present(DocOf(w))
  BY HandlerGrows, HandlerFrame, HasDocument DEF KeptInv
<1>2. /\ docs \in [Docs -> DocRows] /\ task \in [Workers -> TaskStates]
      /\ task[w].pc \in Loaded => task[w].doc \in DocRows
  BY DEF TypeOK, TaskFits
<1>3. {"read"} \cup ScanPcs \subseteq Loaded /\ Outcomes \cup ScanPcs \subseteq TaskPcs
  BY DEF Loaded, TaskPcs
<1>4. ASSUME UNCHANGED docs, NEW pc \in Outcomes \cup ScanPcs, Goto(w, pc),
             \/ pc \in Outcomes
             \/ /\ task[w].pc \in ScanPcs \cup {"read"}
                /\ \/ pc \notin {"dedup", "promote", "clear", "validated"}
                   \/ pc = "promote" /\ task[w].pc = "dedup"
                   \/ pc = "validated" /\ task[w].pc = "clear"
      PROVE  KeptInv'
  <2>1. task'[w].pc = pc /\ task'[w].doc = task[w].doc /\ pc # "commit"
    BY <1>3, <1>4, Goes DEF Outcomes, ScanPcs
  <2>2. pc \in Outcomes => pc \notin Loaded /\ pc \notin {"dedup", "promote", "clear", "validated"}
    BY DEF Outcomes, Loaded, ScanPcs, TextPcs
  <2> QED
    BY <1>3, <1>4, <2>1, <2>2, GoesKeeps
<1>5. CASE scan_load(w)
  <2>1. CASE Goto(w, "ok")
    BY <1>4, <1>5, <2>1 DEF scan_load, loads, corpusVars, Outcomes
  <2>2. CASE task' = [task EXCEPT ![w] = [NoTask EXCEPT !.pc = "read", !.doc = docs[DocOf(w)]]]
    <3>1. task'[w].pc = "read" /\ task'[w].doc = docs[DocOf(w)] /\ docs' = docs
      BY <1>1, <1>5, <2>2, Copies DEF scan_load, loads, corpusVars
    <3>2. Present(DocOf(w))'
      BY <1>1, <3>1, StillPresent DEF DocOf
    <3>3. TaskKeeps(w)'
      BY <1>1, <3>1 DEF TaskKeeps, Present, Grows
    <3> QED
      BY <3>1, <3>2, <3>3, HandlerKeeps
  <2> QED
    BY <1>5, <2>1, <2>2 DEF scan_load, loads
<1>6. CASE scan_read(w)
  <2>1. task[w].doc \in DocRows /\ task[w] \in TaskStates /\ ContentOf[DocOf(w)] \in Contents
        /\ task[w].pc \in Loaded
    BY <1>1, <1>2, <1>3, <1>6, CorpusAssumption DEF scan_read, At
  <2>2. /\ docs' = docs /\ task'[w].doc.raw = task[w].doc.raw
        /\ \/ task'[w].pc = "dedup" /\ task'[w].doc.sha = ContentOf[DocOf(w)]
           \/ task'[w].pc = "reject"
    BY <1>2, <1>6, <2>1 DEF scan_read, TaskStates, DocRows, corpusVars
  <2>3. Present(DocOf(w))'
    BY <1>1, <2>2, StillPresent DEF DocOf
  <2>4. TaskKeeps(w)'
    BY <1>1, <2>1, <2>2, CorpusAssumption DEF TaskKeeps, Grows
  <2> QED
    BY <2>2, <2>3, <2>4, HandlerKeeps
<1>7. CASE \/ scan_read_fails(w) \/ scan_reject(w) \/ scan_duplicate(w)
           \/ scan_promote_fails(w) \/ scan_race_lost(w)
  <2>1. task[w].doc \in DocRows /\ task[w].pc \in Loaded
    BY <1>2, <1>3, <1>7 DEF scan_read_fails, scan_reject, scan_duplicate, scan_promote_fails,
       scan_race_lost, At, ScanPcs
  <2>2. PICK dto \in DocRows, pc \in {"transient", "reject_audit", "dup_delete", "race_escalate"} :
          /\ commits(w, dto, pc)
          /\ dto.status \in {"VALIDATION_FAILED", "REJECTED", "DUPLICATE"}
          /\ dto.raw \in {None, task[w].doc.raw}
    <3> DEFINE a == [task[w].doc EXCEPT !.status = "VALIDATION_FAILED"]
               b == [task[w].doc EXCEPT !.status = "REJECTED", !.quarantine = FALSE]
               c == [task[w].doc EXCEPT !.status = "DUPLICATE", !.quarantine = FALSE]
               e == [task[w].doc EXCEPT !.status = "DUPLICATE", !.quarantine = FALSE, !.raw = None]
    <3>1. /\ a \in DocRows /\ a.status = "VALIDATION_FAILED" /\ a.raw = task[w].doc.raw
          /\ b \in DocRows /\ b.status = "REJECTED" /\ b.raw = task[w].doc.raw
          /\ c \in DocRows /\ c.status = "DUPLICATE" /\ c.raw = task[w].doc.raw
          /\ e \in DocRows /\ e.status = "DUPLICATE" /\ e.raw = None
      BY <2>1 DEF DocRows, DocumentStatus, Inactive
    <3>2. \/ commits(w, a, "transient") \/ commits(w, b, "reject_audit")
          \/ commits(w, c, "dup_delete") \/ commits(w, e, "race_escalate")
      BY <1>7 DEF scan_read_fails, scan_reject, scan_duplicate, scan_promote_fails,
         scan_race_lost
    <3> HIDE DEF a, b, c, e
    <3> QED
      BY <3>1, <3>2
  <2>3. pc \in TaskPcs
    BY DEF TaskPcs, Outcomes, Loaded, ScanPcs
  <2> QED
    BY <2>1, <2>2, <2>3, CommitKeeps
<1>8. CASE \/ scan_reject_audit(w) \/ scan_reject_delete(w) \/ scan_tier_audit(w)
           \/ scan_dup_delete(w) \/ scan_dup_audit(w) \/ scan_clear(w)
           \/ scan_race_tier_audit(w) \/ scan_race_audit(w) \/ scan_promoted_audit(w)
           \/ scan_enqueue(w)
  BY <1>4, <1>8 DEF scan_reject_audit, scan_reject_delete, scan_tier_audit, scan_dup_delete,
     scan_dup_audit, scan_clear, scan_race_tier_audit, scan_race_audit, scan_promoted_audit,
     scan_enqueue, audits, enqueues, corpusVars, At, Outcomes, ScanPcs
<1>9. CASE scan_dedup(w) \/ scan_race_escalate(w)
  <2>1. task[w].doc \in DocRows /\ task[w].pc \in Loaded
    BY <1>2, <1>3, <1>9 DEF scan_dedup, scan_race_escalate, At, ScanPcs
  <2>2. CASE UNCHANGED docs /\ ((Goto(w, "promote") /\ scan_dedup(w)) \/ Goto(w, "race_audit"))
    BY <1>4, <1>9, <2>2 DEF scan_dedup, scan_race_escalate, At, ScanPcs
  <2>3. ASSUME NEW e \in Docs, NEW a \in {"tier_audit", "race_tier_audit"},
               NEW pc \in {"duplicate", "race_audit"}, escalates(w, e, a, pc)
        PROVE  KeptInv'
    <3>1. a \in TaskPcs /\ pc \in TaskPcs
      BY DEF TaskPcs, Loaded, ScanPcs
    <3>2. /\ task'[w].doc = task[w].doc /\ task'[w].pc \in {a, pc}
          /\ \A d \in Docs : docs'[d].status = docs[d].status /\ docs'[d].raw = docs[d].raw
      BY <2>1, <2>3, <3>1, EscalatesTo
    <3> QED
      BY <2>1, <3>2, GoesKeeps
  <2> QED
    BY <1>9, <2>2, <2>3 DEF scan_dedup, scan_race_escalate, get_by_checksum
<1>10. CASE scan_promote(w)
  <2>1. task'[w].pc = "clear" /\ task'[w].doc = task[w].doc /\ docs' = docs
    BY <1>3, <1>10, Goes DEF scan_promote, ScanPcs
  <2>2. Present(DocOf(w))'
    BY <1>1, <2>1, StillPresent DEF DocOf
  <2>3. TaskKeeps(w)'
    <3>1. /\ task[w].pc = "promote" /\ "promote" \in Loaded
          /\ store' = store \cup {<<"raw", task[w].doc.sha>>}
      BY <1>3, <1>10 DEF scan_promote, At, Copied, ScanPcs
    <3> QED
      BY <1>1, <2>1, <3>1 DEF TaskKeeps
  <2> QED
    BY <2>1, <2>2, <2>3, HandlerKeeps
<1>11. CASE scan_validated(w)
  <2>1. task[w].doc \in DocRows /\ task[w].pc = "validated" /\ task[w].pc \in Loaded
    BY <1>2, <1>3, <1>11 DEF scan_validated, At, ScanPcs
  <2>2. CASE Goto(w, "race_lost") /\ UNCHANGED docs
    BY <1>4, <2>1, <2>2 DEF ScanPcs
  <2>3. CASE Goto(w, "promoted_audit") /\ update_document(DocOf(w), Promoted(w))
    <3>1. /\ Promoted(w) \in DocRows /\ Promoted(w).raw = task[w].doc.sha
          /\ Promoted(w).status = "VALIDATED"
      BY <2>1 DEF Promoted, DocRows, DocumentStatus
    <3>2. /\ docs'[DocOf(w)].raw = task[w].doc.sha /\ docs'[DocOf(w)].status = "VALIDATED"
          /\ \A d \in Docs \ {DocOf(w)} : docs'[d] = docs[d]
      BY <1>1, <2>3, <3>1, UpdatesTo
    <3>3. task'[w].pc = "promoted_audit" /\ task'[w].doc = task[w].doc
      BY <1>3, <2>3, Goes DEF ScanPcs
    <3>4. Present(DocOf(w))'
      BY <1>1, <2>1, <3>2 DEF Present, TaskKeeps, Grows, DocOf
    <3>5. TaskKeeps(w)'
      BY <1>1, <2>1, <3>3 DEF TaskKeeps, Grows
    <3> QED
      BY <3>2, <3>4, <3>5, HandlerKeeps
  <2> QED
    BY <1>11, <2>2, <2>3 DEF scan_validated
<1> QED
  BY <1>5, <1>6, <1>7, <1>8, <1>9, <1>10, <1>11 DEF ScanNext

\* The same for the four text stages.
LEMMA TextKeeps ==
    ASSUME QueueTypeOK, TypeOK, TypeOK', KeptInv, NEW w \in Workers, TextNext(w),
           UNCHANGED apiVars
    PROVE  KeptInv'
<1>1. /\ Grows /\ workers' = workers /\ workers[w].pc = "processing" /\ DocOf(w) \in Docs
      /\ TaskKeeps(w) /\ Present(DocOf(w))
  BY HandlerGrows, HandlerFrame, HasDocument DEF KeptInv
<1>2. /\ docs \in [Docs -> DocRows] /\ task \in [Workers -> TaskStates]
      /\ task[w].pc \in Loaded => task[w].doc \in DocRows
  BY DEF TypeOK, TaskFits
<1>3. {"read"} \cup TextPcs \subseteq Loaded /\ Outcomes \cup TextPcs \subseteq TaskPcs
  BY DEF Loaded, TaskPcs
<1>4. PICK s \in TextStageNames :
         \/ Common(w, s)
         \/ s = "EXTRACT" /\ extract_no_raw(w)
         \/ s = "CHUNK" /\ chunk_persist(w)
         \/ /\ s = "EMBED"
            /\ \/ embed_work(w) \/ embed_store(w) \/ embed_unsupported(w) \/ embed_skip(w)
               \/ embed_skip_audit(w)
  BY DEF TextNext, extract_process, normalize_process, chunk_process, embed_process, TextStageNames
<1>5. CASE stage_load(w, s)
  <2>1. docs' = docs
    BY <1>5 DEF stage_load, loads, corpusVars
  <2>2. Present(DocOf(w))'
    BY <1>1, <2>1, StillPresent DEF DocOf
  <2>3. CASE Goto(w, "ok")
    <3>1. task'[w].pc = "ok" /\ task'[w].pc \notin Loaded /\ task'[w].doc = task[w].doc
      BY <1>3, <2>3, Goes DEF Outcomes, Loaded, ScanPcs, TextPcs
    <3> QED
      BY <2>1, <3>1, GoesKeeps
  <2>4. CASE task' = [task EXCEPT ![w] = [NoTask EXCEPT !.pc = "read", !.doc = docs[DocOf(w)]]]
    <3>1. task'[w].pc = "read" /\ task'[w].doc = docs[DocOf(w)]
      BY <1>1, <2>4, Copies
    <3>2. TaskKeeps(w)'
      BY <1>1, <3>1 DEF TaskKeeps, Present, Grows
    <3> QED
      BY <2>1, <2>2, <3>2, HandlerKeeps
  <2> QED
    BY <1>5, <2>3, <2>4 DEF stage_load, loads
<1>6. CASE \/ stage_read(w, s) \/ stage_read_fails(w, s) \/ stage_work(w, s)
           \/ stage_work_fails(w, s) \/ stage_put_fails(w, s)
           \/ stage_audit(w, s) \/ stage_enqueue(w, s) \/ stage_fail_audit(w, s)
           \/ extract_no_raw(w) \/ embed_unsupported(w) \/ embed_skip_audit(w)
  <2>1. docs' = docs
    BY <1>6 DEF stage_read, stage_read_fails, stage_work, stage_work_fails,
       stage_put_fails, stage_audit, stage_enqueue, stage_fail_audit, extract_no_raw,
       embed_unsupported, embed_skip_audit, audits, enqueues, corpusVars
  <2>2. /\ task[w].pc \in {"read"} \cup TextPcs
        /\ \E pc \in Outcomes \cup TextPcs : pc # "commit" /\ Goto(w, pc)
    BY <1>6 DEF stage_read, stage_read_fails, stage_work, stage_work_fails,
       stage_put_fails, stage_audit, stage_enqueue, stage_fail_audit, extract_no_raw,
       embed_unsupported, embed_skip_audit, audits, enqueues, InStage, At, Outcomes, TextPcs
  <2>3. /\ task'[w].doc = task[w].doc /\ task[w].pc \in Loaded
        /\ task'[w].pc \in Outcomes \cup TextPcs /\ task'[w].pc # "commit"
    BY <1>3, <2>2, Goes
  <2>4. task'[w].pc \notin {"dedup", "promote", "clear", "validated", "commit"}
    BY <2>3 DEF Outcomes, TextPcs
  <2> QED
    BY <2>1, <2>3, <2>4, GoesKeeps
<1>7. CASE stage_put(w, s) \/ chunk_persist(w)
  <2>1. /\ docs' = docs /\ Goto(w, "commit") /\ task[w].pc \in TextPcs
        /\ "commit" \in TextPcs
    BY <1>7 DEF stage_put, chunk_persist, InStage, At, TextPcs
  <2>2. task'[w].pc = "commit" /\ task'[w].doc = task[w].doc /\ task[w].pc \in Loaded
    BY <1>3, <2>1, Goes
  <2>3. Present(DocOf(w))'
    BY <1>1, <2>1, StillPresent DEF DocOf
  <2>4. /\ WorkerStage[w] = "EXTRACT" => <<"extracted", DocOf(w)>> \in store'
        /\ WorkerStage[w] = "NORMALIZE" => <<"normalized", DocOf(w)>> \in store'
        /\ WorkerStage[w] = "CHUNK" => chunks'[DocOf(w)].present
    <3>1. CASE stage_put(w, s)
      BY <3>1 DEF stage_put, InStage
    <3>2. CASE chunk_persist(w)
      BY <1>1, <3>2 DEF chunk_persist, InStage, TypeOK
    <3> QED
      BY <1>7, <3>1, <3>2
  <2>5. TaskKeeps(w)'
    BY <1>1, <2>2, <2>4 DEF TaskKeeps, Grows, DocOf
  <2> QED
    BY <2>1, <2>3, <2>5, HandlerKeeps
<1>8. CASE embed_work(w) \/ embed_store(w)
  <2>1. /\ docs' = docs /\ task[w].pc \in TextPcs /\ WorkerStage[w] = "EMBED"
        /\ task'[w].pc \in {"put", "commit", "transient"} /\ task'[w].doc = task[w].doc
    BY <1>2, <1>8 DEF embed_work, embed_store, Goto, InStage, At, TextPcs, TaskStates, corpusVars
  <2>2. Present(DocOf(w))'
    BY <1>1, <2>1, StillPresent DEF DocOf
  <2>3. TaskKeeps(w)'
    BY <1>1, <1>3, <2>1 DEF TaskKeeps, Grows
  <2> QED
    BY <2>1, <2>2, <2>3, HandlerKeeps
<1>9. CASE stage_commit(w, s) \/ stage_fail(w, s) \/ embed_skip(w)
  <2>1. task[w].doc \in DocRows /\ task[w].pc \in Loaded
    BY <1>2, <1>3, <1>9 DEF stage_commit, stage_fail, embed_skip, InStage, At, TextPcs
  <2>2. PICK x \in DocumentStatus, pc \in {"enqueue", "audit", "fail_audit", "skip_audit"} :
          /\ commits(w, [task[w].doc EXCEPT !.status = x], pc)
          /\ x # "VALIDATED"
          /\ x \in {"EXTRACTED", "AWAITING_CLASSIFICATION", "CHUNKED"} =>
                x = DoneStatus[WorkerStage[w]] /\ task[w].pc = "commit" /\ WorkerStage[w] = s
    BY <1>9 DEF stage_commit, stage_fail, embed_skip, DoneStatus, FailStatus, TextStageNames,
       DocumentStatus, InStage, At
  <2> DEFINE dto == [task[w].doc EXCEPT !.status = x]
  <2>3. dto \in DocRows /\ dto.status = x /\ dto.raw = task[w].doc.raw
    BY <2>1 DEF DocRows
  <2>4. pc \in TaskPcs /\ pc \notin {"dedup", "promote", "clear", "validated", "commit"}
    BY DEF TaskPcs, Loaded, TextPcs
  <2>5. /\ x = "EXTRACTED" => <<"extracted", DocOf(w)>> \in store
        /\ x = "AWAITING_CLASSIFICATION" => <<"normalized", DocOf(w)>> \in store
        /\ x = "CHUNKED" => chunks[DocOf(w)].present
    BY <1>1, <2>2 DEF TaskKeeps, DoneStatus, TextStageNames
  <2>6. commits(w, dto, pc)
    BY <2>2
  <2> HIDE DEF dto
  <2> QED
    BY <2>1, <2>2, <2>3, <2>4, <2>5, <2>6, CommitKeeps
<1> QED
  BY <1>4, <1>5, <1>6, <1>7, <1>8, <1>9 DEF Common

\* Where nobody may ask for a delete, no delete goes on.
LEMMA NoDeletes ==
    ASSUME Deletes = {}, KeptInv, NEW d \in Docs
    PROVE  ~Deleted(d) /\ ~Erases(d) /\ ~erase_dies(d)
<1>1. erase[d].pc = "idle"
  BY DEF KeptInv
<1>2. \A b \in DOMAIN AfterBucket : b # "idle"
  BY DEF AfterBucket
<1> QED
  BY <1>1, <1>2 DEF Deleted, delete_document, Erases, erase_busy, erase_claim,
     erase_unrecorded, erase_chunks, erase_chunks_raises, erase_purge, erase_duplicates,
     erase_object, erase_object_unseen, erase_object_fails, EraseStep, erase_dies

\* A request that only receives or back-fills takes nothing away.
LEMMA RequestKeeps ==
    ASSUME Deletes = {}, "reset" \notin Backfills, QueueTypeOK, TypeOK, TypeOK', KeptInv,
           NEW d \in Docs,
           Receives(d) \/ Deleted(d) \/ Erases(d) \/ RequestDies(d) \/ Backfilled(d)
    PROVE  KeptInv'
<1>1. ~Deleted(d) /\ ~Erases(d) /\ ~erase_dies(d)
  BY NoDeletes
<1>2. /\ UNCHANGED <<task, workers, chunks, erase>>
      /\ \A e \in Docs \ {d} : docs'[e] = docs[e]
      /\ store' = store \/ store' = store \cup {<<"quarantine", d>>}
  BY <1>1, RequestsFrame DEF Receives, receive_put, receive_create, receive_enqueue,
     receive_audit, RequestDies, receive_dies, Backfilled, backfill, corpusVars, apiVars, TypeOK
<1>3. Grows
  BY <1>2 DEF Grows
<1>4. Present(d)'
  <2>1. CASE receive_create(d)
    <3>1. docs[d] \in DocRows /\ docs \in [Docs -> DocRows]
      BY DEF TypeOK
    <3>2. docs'[d].status = "QUARANTINED" /\ docs'[d].raw = docs[d].raw
      BY <2>1, <3>1 DEF receive_create, DocRows
    <3> QED
      BY <1>3, <3>2 DEF Present, KeptInv, Grows
  <2>2. CASE docs'[d] = docs[d]
    BY <1>3, <2>2, StillPresent DEF KeptInv
  <2>3. ASSUME Backfilled(d) PROVE docs'[d] = docs[d]
    BY <2>3 DEF Backfilled, backfill, TypeOK
  <2> QED
    BY <1>1, <2>1, <2>2, <2>3 DEF Receives, receive_put, receive_enqueue, receive_audit,
       RequestDies, receive_dies, corpusVars
<1>5. ASSUME NEW e \in Docs \ {d} PROVE Present(e)'
  BY <1>2, <1>3, StillPresent DEF KeptInv
<1>6. ASSUME NEW v \in Workers PROVE TaskKeeps(v)'
  <2>1. Undisturbed(v)
    BY <1>2 DEF Undisturbed, TypeOK, TaskFits, Loaded, ScanPcs, TextPcs
  <2> QED
    BY <1>3, <2>1, StillKeeps DEF KeptInv
<1> QED
  BY <1>2, <1>4, <1>5, <1>6 DEF KeptInv

\* The inductive step.
LEMMA KeptStep ==
    ASSUME Deletes = {}, "reset" \notin Backfills
    PROVE  QueueTypeOK /\ TypeOK /\ TypeOK' /\ KeptInv /\ [Next]_vars => KeptInv'
<1> SUFFICES ASSUME QueueTypeOK, TypeOK, TypeOK', KeptInv, [Next]_vars PROVE KeptInv'
  OBVIOUS
<1>1. ASSUME UNCHANGED <<corpusVars, apiVars>>, \A v \in Workers : Undisturbed(v)
      PROVE  KeptInv'
  <2>1. UNCHANGED <<docs, store, chunks, erase>>
    BY <1>1 DEF corpusVars, apiVars
  <2>2. Grows
    BY <2>1 DEF Grows
  <2>3. \A d \in Docs : Present(d)'
    BY <2>1, <2>2, StillPresent DEF KeptInv
  <2>4. \A v \in Workers : TaskKeeps(v)'
    BY <1>1, <2>2, StillKeeps DEF KeptInv
  <2> QED
    BY <2>1, <2>3, <2>4 DEF KeptInv
<1>2. ASSUME UNCHANGED <<task, workers>> PROVE \A v \in Workers : Undisturbed(v)
  BY <1>2 DEF Undisturbed, TypeOK, TaskFits, Loaded, ScanPcs, TextPcs
<1>3. ASSUME NEW w \in Workers,
             \/ Claims(w) \/ Renews(w) \/ Reaps(w) \/ Writes(w) \/ CompletionFails(w)
             \/ WorkerDies(w) \/ Handles(w) \/ Aborts(w)
      PROVE  KeptInv'
  <2>1. CASE Handles(w) /\ ~returns(w)
    BY <2>1, ScanKeeps, TextKeeps DEF Handles
  <2> QED
    BY <1>1, <1>3, <2>1, QueueSteps
<1>4. ASSUME NEW d \in Docs,
             Receives(d) \/ Deleted(d) \/ Erases(d) \/ RequestDies(d) \/ Backfilled(d)
      PROVE  KeptInv'
  BY <1>4, RequestKeeps
<1>5. ASSUME NEW j \in Jobs, LeaseRunsOut(j) PROVE KeptInv'
  BY <1>1, <1>2, <1>5 DEF LeaseRunsOut, ExpireLease
<1>6. CASE UNCHANGED vars
  BY <1>1, <1>2, <1>6 DEF vars, corpusVars, apiVars
<1> QED
  BY <1>3, <1>4, <1>5, <1>6 DEF Next

\* What the handlers have put in place stays in place.
LEMMA KeptHolds ==
    ASSUME Deletes = {}, "reset" \notin Backfills
    PROVE  Spec => []KeptInv
<1>1. Init => KeptInv
  <2> SUFFICES ASSUME Init PROVE KeptInv
    OBVIOUS
  <2>1. ASSUME NEW d \in Docs PROVE Present(d)
    BY DEF Init, CorpusInit, NoDoc, Present
  <2>2. ASSUME NEW w \in Workers PROVE TaskKeeps(w)
    BY DEF Init, TaskInit, NoTask, TaskKeeps, Loaded, ScanPcs, TextPcs
  <2> QED
    BY <2>1, <2>2 DEF Init, ApiInit, NoErase, KeptInv
<1>2. QueueTypeOK /\ TypeOK /\ TypeOK' /\ KeptInv /\ [Next]_vars => KeptInv'
  BY KeptStep
<1> QED
  BY <1>1, <1>2, PipelineTypeCorrect, PTL DEF Spec

\* Without deletes and resets, a document's status is never ahead of its artifacts:
\* no crash, storage or database fault, lost lease or late second worker leaves a
\* document in the entry status of a stage whose input is missing.
THEOREM ArtifactsPresentHolds ==
    ASSUME Deletes = {}, "reset" \notin Backfills
    PROVE  Spec => []ArtifactsPresent
<1>1. KeptInv => ArtifactsPresent
  BY DEF KeptInv, Present, ArtifactsPresent
<1> QED
  BY <1>1, KeptHolds, PTL

(***************************************************************************)
(* Where a document's status may be changed from.                          *)
(***************************************************************************)

\* A SCAN handler that has written the document's fate, and the text handlers
\* that have not.
ScanClosing ==
    {"reject_audit", "reject_delete", "dup_delete", "dup_audit", "race_escalate",
     "race_tier_audit", "race_audit", "promoted_audit", "enqueue_extract", "ok"}
TextOpen == {"read", "work", "put", "commit", "fail", "skip"}

\* The scan of the document has not been decided.
ScanOpen(d) == docs[d].status \in {"QUARANTINED", "VALIDATION_FAILED"}

\* A SCAN step decides the document's fate, once, or leaves its status alone.
LEMMA ScanMoves ==
    ASSUME QueueTypeOK, TypeOK, NEW w \in Workers, ScanNext(w)
    PROVE  /\ WorkerStage[w] = "SCAN" /\ DocOf(w) \in Docs
           /\ \A e \in Docs \ {DocOf(w)} : docs'[e].status = docs[e].status
           /\ task[w].pc \in ScanClosing => task'[w].pc \in ScanClosing
           /\ \/ /\ docs'[DocOf(w)].status = docs[DocOf(w)].status
                 /\ task'[w].pc \in ScanClosing =>
                       task[w].pc \in ScanClosing \/ ~ScanOpen(DocOf(w))
              \/ /\ docs'[DocOf(w)].status = "VALIDATION_FAILED"
                 /\ task[w].pc \notin ScanClosing /\ task'[w].pc \notin ScanClosing
              \/ /\ docs'[DocOf(w)].status \in {"VALIDATED", "REJECTED", "DUPLICATE"}
                 /\ task[w].pc \notin ScanClosing /\ task'[w].pc \in ScanClosing
<1>1. /\ workers' = workers /\ workers[w].pc = "processing" /\ DocOf(w) \in Docs
  BY HandlerFrame, HasDocument
<1>2. /\ docs \in [Docs -> DocRows] /\ task \in [Workers -> TaskStates] /\ TaskFits(w)
      /\ task[w].pc \in Loaded => task[w].doc \in DocRows
  BY DEF TypeOK, TaskFits
<1>3. {"read"} \cup ScanPcs \subseteq Loaded /\ Outcomes \cup ScanPcs \subseteq TaskPcs
  BY DEF Loaded, TaskPcs
<1>4. WorkerStage[w] = "SCAN"
  BY <1>2 DEF ScanNext, scan_load, scan_read, scan_read_fails, scan_reject, scan_reject_audit,
     scan_reject_delete, scan_dedup, scan_tier_audit, scan_duplicate, scan_dup_delete,
     scan_dup_audit, scan_promote, scan_promote_fails, scan_clear, scan_validated,
     scan_race_lost, scan_race_escalate, scan_race_tier_audit, scan_race_audit,
     scan_promoted_audit, scan_enqueue, loads, At, TaskFits, ScanPcs
<1>5. CASE \/ scan_read_fails(w) \/ scan_reject(w) \/ scan_duplicate(w)
           \/ scan_promote_fails(w) \/ scan_race_lost(w)
  <2>1. /\ task[w].doc \in DocRows
        /\ task[w].pc \in {"read", "reject", "duplicate", "promote", "race_lost"}
    BY <1>2, <1>3, <1>5 DEF scan_read_fails, scan_reject, scan_duplicate, scan_promote_fails,
       scan_race_lost, At, ScanPcs
  <2>2. PICK dto \in DocRows, pc \in {"transient", "reject_audit", "dup_delete", "race_escalate"} :
          /\ commits(w, dto, pc)
          /\ \/ dto.status = "VALIDATION_FAILED" /\ pc = "transient"
             \/ dto.status \in {"REJECTED", "DUPLICATE"} /\ pc # "transient"
    <3> DEFINE a == [task[w].doc EXCEPT !.status = "VALIDATION_FAILED"]
               b == [task[w].doc EXCEPT !.status = "REJECTED", !.quarantine = FALSE]
               c == [task[w].doc EXCEPT !.status = "DUPLICATE", !.quarantine = FALSE]
               e == [task[w].doc EXCEPT !.status = "DUPLICATE", !.quarantine = FALSE, !.raw = None]
    <3>1. /\ a \in DocRows /\ a.status = "VALIDATION_FAILED"
          /\ b \in DocRows /\ b.status = "REJECTED"
          /\ c \in DocRows /\ c.status = "DUPLICATE"
          /\ e \in DocRows /\ e.status = "DUPLICATE"
      BY <2>1 DEF DocRows, DocumentStatus, Inactive
    <3>2. \/ commits(w, a, "transient") \/ commits(w, b, "reject_audit")
          \/ commits(w, c, "dup_delete") \/ commits(w, e, "race_escalate")
      BY <1>5 DEF scan_read_fails, scan_reject, scan_duplicate, scan_promote_fails,
         scan_race_lost
    <3> HIDE DEF a, b, c, e
    <3> QED
      BY <3>1, <3>2
  <2>3. pc \in TaskPcs
    BY DEF TaskPcs, Outcomes, Loaded, ScanPcs
  <2>4. /\ \A e \in Docs \ {DocOf(w)} : docs'[e] = docs[e]
        /\ \/ docs' = docs /\ Goto(w, "transient")
           \/ Goto(w, pc) /\ docs'[DocOf(w)].status = dto.status
    BY <1>1, <2>2, <2>3, CommitsTo
  <2>5. task[w].pc \notin ScanClosing
    BY <2>1 DEF ScanClosing
  <2>6. /\ Goto(w, pc) => task'[w].pc = pc
        /\ Goto(w, "transient") => task'[w].pc = "transient"
    BY <2>3, Goes DEF TaskPcs, Outcomes
  <2> QED
    BY <1>1, <1>4, <2>2, <2>4, <2>5, <2>6 DEF ScanClosing
<1>6. CASE \/ scan_reject_audit(w) \/ scan_reject_delete(w)
           \/ scan_dup_delete(w) \/ scan_dup_audit(w)
           \/ scan_race_tier_audit(w) \/ scan_race_audit(w) \/ scan_promoted_audit(w)
           \/ scan_enqueue(w)
  <2>1. /\ docs' = docs /\ task[w].pc \in ScanClosing
        /\ \E pc \in ScanClosing : Goto(w, pc)
    BY <1>6 DEF scan_reject_audit, scan_reject_delete, scan_dup_delete,
     scan_dup_audit, scan_race_tier_audit, scan_race_audit, scan_promoted_audit,
     scan_enqueue, audits, enqueues, corpusVars, At, ScanClosing
  <2>2. ScanClosing \subseteq TaskPcs
    BY DEF ScanClosing, TaskPcs, Outcomes, Loaded, ScanPcs
  <2> QED
    BY <1>1, <1>4, <2>1, <2>2, Goes
<1>7. CASE scan_load(w)
  <2>1. \/ ~ScanOpen(DocOf(w))
        \/ task' = [task EXCEPT ![w] = [NoTask EXCEPT !.pc = "read", !.doc = docs[DocOf(w)]]]
    BY <1>7 DEF scan_load, loads, ScanIsDone, ScanOpen
  <2>2. ~ScanOpen(DocOf(w)) \/ task'[w].pc = "read"
    BY <1>1, <2>1, Copies
  <2> QED
    BY <1>1, <1>4, <1>7, <2>2 DEF scan_load, loads, corpusVars, At, ScanClosing
<1>10. CASE scan_read(w) \/ scan_tier_audit(w) \/ scan_promote(w) \/ scan_clear(w)
  <2>1. docs' = docs /\ task'[w].pc \in {"dedup", "reject", "duplicate", "clear", "validated"}
    <3>1. CASE scan_read(w)
      <4>1. \/ task' = [task EXCEPT ![w] = [@ EXCEPT !.pc = "dedup",
                                                    !.doc.sha = ContentOf[DocOf(w)]]]
            \/ task' = [task EXCEPT ![w] = [@ EXCEPT !.pc = "reject"]]
        BY <3>1 DEF scan_read
      <4> QED
        BY <1>2, <3>1, <4>1 DEF scan_read, corpusVars, TaskStates
    <3>2. CASE scan_tier_audit(w) \/ scan_promote(w) \/ scan_clear(w)
      BY <1>2, <3>2 DEF scan_tier_audit, scan_promote, scan_clear, audits, Goto, TaskStates
    <3> QED
      BY <1>10, <3>1, <3>2
  <2> QED
    BY <1>1, <1>4, <1>10, <2>1 DEF scan_read, scan_tier_audit, scan_promote, scan_clear, At,
       ScanClosing
<1>8. CASE scan_dedup(w) \/ scan_race_escalate(w)
  <2>1. task[w].doc \in DocRows
    BY <1>2, <1>3, <1>8 DEF scan_dedup, scan_race_escalate, At, ScanPcs
  <2>2. ASSUME NEW e \in Docs, NEW a \in {"tier_audit", "race_tier_audit"},
               NEW pc \in {"duplicate", "race_audit"}, escalates(w, e, a, pc)
        PROVE  /\ task'[w].pc \in {a, pc}
               /\ \A d \in Docs : docs'[d].status = docs[d].status
    <3>1. a \in TaskPcs /\ pc \in TaskPcs
      BY DEF TaskPcs, Loaded, ScanPcs
    <3> QED
      BY <2>1, <2>2, <3>1, EscalatesTo
  <2>3. "race_audit" \in TaskPcs
    BY DEF TaskPcs, Loaded, ScanPcs
  <2>4. CASE scan_dedup(w)
    <3>1. Goto(w, "promote") => task'[w].pc = "promote"
      BY Goes DEF TaskPcs, Loaded, ScanPcs
    <3> QED
      BY <1>1, <1>4, <2>2, <2>4, <3>1 DEF scan_dedup, get_by_checksum, At, ScanClosing
  <2>5. CASE scan_race_escalate(w)
    BY <1>1, <1>4, <2>2, <2>3, <2>5, Goes DEF scan_race_escalate, get_by_checksum, At, ScanClosing
  <2> QED
    BY <1>8, <2>4, <2>5
<1>9. CASE scan_validated(w)
  <2>1. task[w].doc \in DocRows /\ task[w].pc = "validated"
    BY <1>2, <1>3, <1>9 DEF scan_validated, At, ScanPcs
  <2>2. Promoted(w) \in DocRows /\ Promoted(w).status = "VALIDATED"
    BY <2>1 DEF Promoted, DocRows, DocumentStatus
  <2>3. CASE Goto(w, "promoted_audit") /\ update_document(DocOf(w), Promoted(w))
    <3>1. /\ docs'[DocOf(w)].status = "VALIDATED"
          /\ \A e \in Docs \ {DocOf(w)} : docs'[e] = docs[e]
      BY <1>1, <2>2, <2>3, UpdatesTo
    <3>2. task'[w].pc = "promoted_audit"
      BY <1>3, <2>3, Goes DEF ScanPcs
    <3> QED
      BY <1>1, <1>4, <2>1, <3>1, <3>2 DEF ScanClosing
  <2>4. Goto(w, "race_lost") => task'[w].pc = "race_lost"
    BY Goes DEF TaskPcs, Loaded, ScanPcs
  <2> QED
    BY <1>1, <1>4, <1>9, <2>1, <2>3, <2>4 DEF scan_validated, ScanClosing
<1> QED
  BY <1>5, <1>6, <1>7, <1>8, <1>9, <1>10 DEF ScanNext

\* A text stage moves the document on from its entry status, once.
LEMMA TextMoves ==
    ASSUME QueueTypeOK, TypeOK, NEW w \in Workers, TextNext(w)
    PROVE  /\ WorkerStage[w] \in TextStageNames /\ DocOf(w) \in Docs
           /\ \A e \in Docs \ {DocOf(w)} : docs'[e] = docs[e]
           /\ \/ /\ docs'[DocOf(w)] = docs[DocOf(w)]
                 /\ task'[w].pc \in TextOpen =>
                       \/ task[w].pc \in TextOpen /\ task'[w].doc = task[w].doc
                       \/ /\ docs[DocOf(w)].status = EntryStatus[WorkerStage[w]]
                          /\ task'[w].doc = docs[DocOf(w)]
              \/ /\ task[w].pc \in TextOpen /\ task'[w].pc \notin TextOpen
                 /\ \/ task[w].pc = "commit" /\ docs'[DocOf(w)].status = DoneStatus[WorkerStage[w]]
                    \/ docs'[DocOf(w)].status = FailStatus[WorkerStage[w]]
                    \/ docs'[DocOf(w)].status = "SKIPPED_UNSUPPORTED_LANGUAGE"
                 /\ docs'[DocOf(w)].sha = task[w].doc.sha
                 /\ docs'[DocOf(w)].tier = docs[DocOf(w)].tier
<1>1. /\ workers' = workers /\ workers[w].pc = "processing" /\ DocOf(w) \in Docs
  BY HandlerFrame, HasDocument
<1>2. /\ docs \in [Docs -> DocRows] /\ task \in [Workers -> TaskStates] /\ TaskFits(w)
      /\ task[w].pc \in Loaded => task[w].doc \in DocRows
  BY DEF TypeOK, TaskFits
<1>3. {"read"} \cup TextPcs \subseteq Loaded /\ Outcomes \cup TextPcs \subseteq TaskPcs
  BY DEF Loaded, TaskPcs
<1>4. PICK s \in TextStageNames :
         \/ Common(w, s)
         \/ s = "EXTRACT" /\ extract_no_raw(w)
         \/ s = "CHUNK" /\ chunk_persist(w)
         \/ /\ s = "EMBED"
            /\ \/ embed_work(w) \/ embed_store(w) \/ embed_unsupported(w) \/ embed_skip(w)
               \/ embed_skip_audit(w)
  BY DEF TextNext, extract_process, normalize_process, chunk_process, embed_process, TextStageNames
<1>5. WorkerStage[w] = s
  BY <1>4 DEF Common, stage_load, stage_read, stage_read_fails, stage_work, stage_work_fails,
     stage_put, stage_put_fails, stage_commit, stage_audit, stage_enqueue, stage_fail,
     stage_fail_audit, extract_no_raw, chunk_persist, embed_work, embed_store,
     embed_unsupported, embed_skip, embed_skip_audit, InStage
<1>6. CASE stage_load(w, s)
  <2>1. docs' = docs
    BY <1>6 DEF stage_load, loads, corpusVars
  <2>2. CASE Goto(w, "ok")
    <3>1. task'[w].pc = "ok"
      BY <1>3, <2>2, Goes DEF Outcomes
    <3> QED
      BY <1>1, <1>5, <2>1, <3>1 DEF TextOpen
  <2>3. CASE /\ IsFor(s, DocOf(w))
             /\ task' = [task EXCEPT ![w] = [NoTask EXCEPT !.pc = "read", !.doc = docs[DocOf(w)]]]
    <3>1. task'[w].pc = "read" /\ task'[w].doc = docs[DocOf(w)]
      BY <1>1, <2>3, Copies
    <3> QED
      BY <1>1, <1>5, <2>1, <2>3, <3>1 DEF IsFor
  <2> QED
    BY <1>6, <2>2, <2>3 DEF stage_load, loads
<1>7. CASE \/ stage_read(w, s) \/ stage_read_fails(w, s) \/ stage_work(w, s)
           \/ stage_work_fails(w, s) \/ stage_put(w, s) \/ stage_put_fails(w, s)
           \/ stage_audit(w, s) \/ stage_enqueue(w, s) \/ stage_fail_audit(w, s)
           \/ extract_no_raw(w) \/ embed_unsupported(w) \/ embed_skip_audit(w)
           \/ chunk_persist(w) \/ embed_store(w)
  <2>1. docs' = docs
    BY <1>7 DEF stage_read, stage_read_fails, stage_work, stage_work_fails, stage_put,
       chunk_persist, embed_store, stage_put_fails, stage_audit, stage_enqueue, stage_fail_audit,
       extract_no_raw,
       embed_unsupported, embed_skip_audit, audits, enqueues, corpusVars
  <2>2. \E pc \in Outcomes \cup TextPcs : /\ Goto(w, pc)
                                          /\ pc \in TextOpen => task[w].pc \in TextOpen
    BY <1>7 DEF stage_read, stage_read_fails, stage_work, stage_work_fails, stage_put,
       chunk_persist, embed_store, stage_put_fails, stage_audit, stage_enqueue, stage_fail_audit,
       extract_no_raw,
       embed_unsupported, embed_skip_audit, audits, enqueues, InStage, At, Outcomes, TextPcs,
       TextOpen
  <2>3. task'[w].doc = task[w].doc /\ (task'[w].pc \in TextOpen => task[w].pc \in TextOpen)
    BY <1>3, <2>2, Goes
  <2> QED
    BY <1>1, <1>5, <2>1, <2>3
<1>8. CASE embed_work(w)
  BY <1>1, <1>2, <1>5, <1>8 DEF embed_work, InStage, At, TaskStates, corpusVars, TextOpen
<1>9. CASE stage_commit(w, s) \/ stage_fail(w, s) \/ embed_skip(w)
  <2>1. /\ task[w].doc \in DocRows /\ task[w].pc \in TextOpen
    BY <1>2, <1>3, <1>9 DEF stage_commit, stage_fail, embed_skip, InStage, At, TextPcs, TextOpen
  <2>2. PICK x \in DocumentStatus, pc \in {"enqueue", "audit", "fail_audit", "skip_audit"} :
          /\ commits(w, [task[w].doc EXCEPT !.status = x], pc)
          /\ \/ task[w].pc = "commit" /\ x = DoneStatus[s]
             \/ x = FailStatus[s]
             \/ x = "SKIPPED_UNSUPPORTED_LANGUAGE"
    BY <1>9 DEF stage_commit, stage_fail, embed_skip, DoneStatus, FailStatus, TextStageNames,
       DocumentStatus, InStage, At
  <2> DEFINE dto == [task[w].doc EXCEPT !.status = x]
  <2>3. dto \in DocRows /\ dto.status = x /\ dto.sha = task[w].doc.sha
    BY <2>1 DEF DocRows
  <2>4. /\ pc \in TaskPcs /\ pc \notin TextOpen
        /\ "transient" \in TaskPcs /\ "transient" \notin TextOpen
    BY DEF TaskPcs, Loaded, TextPcs, TextOpen, Outcomes
  <2>5. commits(w, dto, pc)
    BY <2>2
  <2> HIDE DEF dto
  <2>6. /\ \A e \in Docs \ {DocOf(w)} : docs'[e] = docs[e]
        /\ \/ docs' = docs /\ Goto(w, "transient")
           \/ /\ Goto(w, pc) /\ docs'[DocOf(w)].status = x /\ docs'[DocOf(w)].sha = task[w].doc.sha
              /\ docs'[DocOf(w)].tier = docs[DocOf(w)].tier
    BY <1>1, <2>3, <2>4, <2>5, CommitsTo
  <2>7. task'[w].pc \notin TextOpen
    BY <2>4, <2>6, Goes
  <2> QED
    BY <1>1, <1>5, <2>1, <2>2, <2>6, <2>7
<1> QED
  BY <1>4, <1>6, <1>7, <1>8, <1>9 DEF Common

(***************************************************************************)
(* A document is in the hands of one stage at a time.                      *)
(***************************************************************************)

\* The worker has written the fate of the document it scans.
ScanOver(w) ==
    \/ workers[w].pc = "processing" /\ task[w].pc \in ScanClosing
    \/ workers[w].pc = "finishing" /\ workers[w].outcome = "ok"

\* A SCAN worker that has not is on a document whose fate is open.
ScansInTime ==
    \A w \in Workers :
        workers[w].pc # "idle" /\ WorkerStage[w] = "SCAN" => ScanOver(w) \/ ScanOpen(DocOf(w))

\* A text stage works only on documents in its entry status, until it writes.
InEntryStatus ==
    \A w \in Workers :
        WorkerStage[w] \in TextStageNames /\ task[w].pc \in TextOpen =>
            docs[DocOf(w)].status = EntryStatus[WorkerStage[w]]

\* The SCAN job of a document whose fate is written will not be taken up again.
ScannedOnce ==
    \A j \in Jobs :
        JobStage[j] = "SCAN" /\ jobs[j].status \in {"PENDING", "RUNNING"} =>
            ScanOpen(JobDoc[j]) \/ \E w \in Workers : WorksOn(w, j) /\ ScanOver(w)

\* A document has one SCAN job, once its upload has queued it.
OneScanJob ==
    /\ \A i, j \in Jobs :
          /\ JobStage[i] = "SCAN" /\ JobStage[j] = "SCAN" /\ JobDoc[i] = JobDoc[j]
          /\ jobs[i].status # "ABSENT" /\ jobs[j].status # "ABSENT"
          => i = j
    /\ \A j \in Jobs :
          JobStage[j] = "SCAN" /\ upload[JobDoc[j]] \in {"none", "stored", "created"}
             => jobs[j].status = "ABSENT"

\* The row is created by the upload, and nothing happens to it until its job is queued.
CreatedByUpload ==
    \A d \in Docs : /\ upload[d] \in {"none", "stored"} => docs[d].status = "ABSENT"
                    /\ upload[d] = "created" => docs[d].status = "QUARANTINED"

StageInv == ScansInTime /\ InEntryStatus /\ ScannedOnce /\ OneScanJob /\ CreatedByUpload

\* No two workers of a stage are on one document.
Solo ==
    \A v, w \in Workers :
        /\ workers[v].pc # "idle" /\ workers[w].pc # "idle"
        /\ WorkerStage[v] = WorkerStage[w] /\ DocOf(v) = DocOf(w)
        => v = w

\* Nobody is still on a job that a worker could claim.
FreeToClaim ==
    \A v, w \in Workers, j \in Jobs :
        /\ workers[w].pc = "idle" /\ JobStage[j] = WorkerStage[w]
        /\ jobs[j].status = "PENDING"
        => ~WorksOn(v, j)

\* The queue of SCAN jobs is the API's and the workers' own.
LEMMA ScanJobsKept ==
    ASSUME QueueTypeOK, TypeOK, NEW w \in Workers, ScanNext(w) \/ TextNext(w)
    PROVE  \A j \in Jobs : JobStage[j] = "SCAN" => jobs'[j] = jobs[j]
<1>1. ASSUME NEW s \in TextStageNames, NEW pc, enqueues(w, s, pc)
      PROVE  \A j \in Jobs : JobStage[j] = "SCAN" => jobs'[j] = jobs[j]
  BY <1>1 DEF enqueues, AddJob, TextStageNames, QueueTypeOK
<1>2. CASE scan_enqueue(w)
  BY <1>1, <1>2 DEF scan_enqueue, TextStageNames
<1>3. ASSUME NEW s \in TextStageNames, stage_enqueue(w, s)
      PROVE  \A j \in Jobs : JobStage[j] = "SCAN" => jobs'[j] = jobs[j]
  <2>1. NextStage[s] \in TextStageNames
    BY <1>3 DEF stage_enqueue, NextStage, TextStageNames
  <2> QED
    BY <1>1, <1>3, <2>1 DEF stage_enqueue
<1>4. CASE ScanNext(w) /\ ~scan_enqueue(w)
  BY <1>4 DEF ScanNext, scan_load, scan_read, scan_read_fails, scan_reject, scan_reject_audit,
     scan_reject_delete, scan_dedup, scan_tier_audit, scan_duplicate, scan_dup_delete,
     scan_dup_audit, scan_promote, scan_promote_fails, scan_clear, scan_validated,
     scan_race_lost, scan_race_escalate, scan_race_tier_audit, scan_race_audit,
     scan_promoted_audit, loads, commits, audits, queueVars
<1>5. ASSUME NEW s \in TextStageNames, Common(w, s), ~stage_enqueue(w, s) PROVE jobs' = jobs
  BY <1>5 DEF Common, stage_load, stage_read, stage_read_fails, stage_work, stage_work_fails,
     stage_put, stage_put_fails, stage_commit, stage_audit, stage_fail, stage_fail_audit,
     loads, commits, audits, queueVars
<1>6. ASSUME NEW s \in TextStageNames, Common(w, s)
      PROVE  \A j \in Jobs : JobStage[j] = "SCAN" => jobs'[j] = jobs[j]
  BY <1>3, <1>5, <1>6
<1>7. CASE TextNext(w)
  BY <1>6, <1>7 DEF TextNext, extract_process, normalize_process, chunk_process, embed_process,
     extract_no_raw, chunk_persist, embed_work, embed_store, embed_unsupported, embed_skip,
     embed_skip_audit, commits, audits, TextStageNames, queueVars
<1> QED
  BY <1>2, <1>4, <1>7

\* Who may change the status of a document that a handler works on.
LEMMA HandlerStage ==
    ASSUME QueueTypeOK, TypeOK, TypeOK', StageInv, Solo, ClaimsDistinct,
           NEW w \in Workers, ScanNext(w) \/ TextNext(w), UNCHANGED apiVars
    PROVE  StageInv'
<1> DEFINE d == DocOf(w)
<1>1. /\ workers' = workers /\ workers[w].pc = "processing" /\ d \in Docs
      /\ \A v \in Workers \ {w} : task'[v] = task[v]
      /\ \A v \in Workers : DocOf(v)' = DocOf(v)
      /\ \A v \in Workers \ {w} : ScanOver(v)' = ScanOver(v)
      /\ workers[w].job \in Jobs /\ jobs[workers[w].job].status # "ABSENT"
      /\ JobStage[workers[w].job] = WorkerStage[w]
  BY HandlerFrame, HasDocument DEF DocOf, ScanOver, ClaimsDistinct, TypeOK, TaskFits
<1>2. \A j \in Jobs : JobStage[j] = "SCAN" => jobs'[j] = jobs[j]
  BY ScanJobsKept
<1>3. \A e \in Docs \ {d} : docs'[e].status = docs[e].status
  BY ScanMoves, TextMoves
<1>4. OneScanJob'
  BY <1>2 DEF StageInv, OneScanJob, apiVars
<1>5. \A v \in Workers : task[v].pc \in TextOpen \cup (ScanClosing \ {"ok"}) =>
                           workers[v].pc = "processing"
  BY DEF TypeOK, TaskFits, TextOpen, ScanClosing
<1>6. CASE ScanNext(w)
  <2>1. /\ WorkerStage[w] = "SCAN"
        /\ task[w].pc \in ScanClosing => task'[w].pc \in ScanClosing
        /\ \/ docs'[d].status = docs[d].status
           \/ docs'[d].status = "VALIDATION_FAILED" /\ task[w].pc \notin ScanClosing
           \/ /\ docs'[d].status \in {"VALIDATED", "REJECTED", "DUPLICATE"}
              /\ task[w].pc \notin ScanClosing /\ task'[w].pc \in ScanClosing
    BY <1>6, ScanMoves
  <2>2. task[w].pc \notin ScanClosing => ScanOpen(d)
    BY <1>1, <2>1 DEF StageInv, ScansInTime, ScanOver
  <2>3. ScanOver(w) => ScanOver(w)'
    BY <1>1, <2>1 DEF ScanOver
  <2>4. ScanOpen(d)' \/ ScanOver(w)' \/ (~ScanOpen(d) /\ docs'[d].status = docs[d].status)
    BY <1>1, <2>1, <2>2 DEF ScanOpen, ScanOver
  <2>5. CreatedByUpload'
    <3>1. upload[d] \notin {"none", "stored", "created"}
      BY <1>1, <2>1 DEF StageInv, OneScanJob, DocOf
    <3> QED
      BY <1>3, <3>1 DEF StageInv, CreatedByUpload, apiVars
  <2>6. ScansInTime'
    <3> SUFFICES ASSUME NEW v \in Workers, workers[v].pc # "idle", WorkerStage[v] = "SCAN"
                 PROVE  ScanOver(v)' \/ ScanOpen(DocOf(v))'
      BY <1>1 DEF ScansInTime
    <3>1. ScanOver(v) \/ ScanOpen(DocOf(v))
      BY DEF StageInv, ScansInTime
    <3>2. CASE v = w
      BY <1>1, <2>2, <2>3, <2>4, <3>1, <3>2 DEF ScanOver, ScanOpen
    <3>3. CASE v # w
      <4>1. DocOf(v) # d
        BY <1>1, <2>1, <3>3 DEF Solo
      <4>2. DocOf(v) \in Docs
        BY HasDocument
      <4> QED
        BY <1>1, <1>3, <3>1, <3>3, <4>1, <4>2 DEF ScanOpen
    <3> QED
      BY <3>2, <3>3
  <2>7. InEntryStatus'
    <3> SUFFICES ASSUME NEW v \in Workers, WorkerStage[v] \in TextStageNames,
                        task'[v].pc \in TextOpen
                 PROVE  docs'[DocOf(v)].status = EntryStatus[WorkerStage[v]]
      BY <1>1 DEF InEntryStatus
    <3>1. v # w /\ task[v].pc \in TextOpen
      BY <1>1, <2>1 DEF TextStageNames
    <3>2. /\ docs[DocOf(v)].status = EntryStatus[WorkerStage[v]] /\ DocOf(v) \in Docs
      BY <1>5, <3>1, HasDocument DEF StageInv, InEntryStatus
    <3>3. ~ScanOpen(DocOf(v))
      BY <3>2 DEF ScanOpen, EntryStatus, TextStageNames
    <3> QED
      BY <1>3, <2>1, <2>2, <3>2, <3>3
  <2>8. ScannedOnce'
    <3> SUFFICES ASSUME NEW j \in Jobs, JobStage[j] = "SCAN",
                        jobs[j].status \in {"PENDING", "RUNNING"}
                 PROVE  ScanOpen(JobDoc[j])' \/ \E v \in Workers : WorksOn(v, j)' /\ ScanOver(v)'
      BY <1>2 DEF ScannedOnce
    <3>1. JobDoc[j] \in Docs
      BY CorpusAssumption
    <3>2. CASE \E v \in Workers : WorksOn(v, j) /\ ScanOver(v)
      BY <1>1, <2>3, <3>2 DEF WorksOn
    <3>3. CASE ScanOpen(JobDoc[j])
      <4>1. CASE JobDoc[j] # d
        BY <1>3, <3>1, <3>3, <4>1 DEF ScanOpen
      <4>2. CASE JobDoc[j] = d
        <5>1. j = workers[w].job
          BY <1>1, <2>1, <4>2 DEF StageInv, OneScanJob, DocOf
        <5>2. WorksOn(w, j)'
          BY <1>1, <5>1 DEF WorksOn
        <5> QED
          BY <1>1, <2>4, <3>3, <4>2, <5>2 DEF ScanOpen
      <4> QED
        BY <4>1, <4>2
    <3> QED
      BY <3>2, <3>3 DEF StageInv, ScannedOnce
  <2> QED
    BY <1>4, <2>5, <2>6, <2>7, <2>8 DEF StageInv
<1>7. CASE TextNext(w)
  <2>1. /\ WorkerStage[w] \in TextStageNames
        /\ \/ /\ docs'[d].status = docs[d].status
              /\ task'[w].pc \in TextOpen =>
                    task[w].pc \in TextOpen \/ docs[d].status = EntryStatus[WorkerStage[w]]
           \/ /\ task[w].pc \in TextOpen /\ task'[w].pc \notin TextOpen
              /\ docs'[d].status # "ABSENT"
    BY <1>7, TextMoves DEF DoneStatus, FailStatus, TextStageNames
  <2>2. task[w].pc \in TextOpen => docs[d].status = EntryStatus[WorkerStage[w]]
    BY <2>1 DEF StageInv, InEntryStatus
  <2>3. task[w].pc \in TextOpen =>
           ~ScanOpen(d) /\ docs[d].status \notin {"ABSENT", "QUARANTINED"}
    BY <2>1, <2>2 DEF ScanOpen, EntryStatus, TextStageNames
  <2>4. CreatedByUpload'
    BY <1>3, <2>1, <2>3 DEF StageInv, CreatedByUpload, apiVars
  <2>5. \A v \in Workers : WorkerStage[v] = "SCAN" => ScanOver(v)' = ScanOver(v)
    BY <1>1, <2>1 DEF TextStageNames
  <2>6. \A e \in Docs : ScanOpen(e) => ScanOpen(e)'
    BY <1>3, <2>1, <2>3 DEF ScanOpen
  <2>7. ScansInTime'
    BY <1>1, <2>5, <2>6, HasDocument DEF StageInv, ScansInTime, ScanOpen
  <2>8. ScannedOnce'
    <3> SUFFICES ASSUME NEW j \in Jobs, JobStage[j] = "SCAN",
                        jobs[j].status \in {"PENDING", "RUNNING"}
                 PROVE  ScanOpen(JobDoc[j])' \/ \E v \in Workers : WorksOn(v, j)' /\ ScanOver(v)'
      BY <1>2 DEF ScannedOnce
    <3>1. ASSUME NEW v \in Workers, WorksOn(v, j) PROVE WorkerStage[v] = "SCAN" /\ WorksOn(v, j)'
      BY <1>1, <3>1 DEF WorksOn, TypeOK, TaskFits
    <3>2. JobDoc[j] \in Docs
      BY CorpusAssumption
    <3> QED
      BY <2>5, <2>6, <3>1, <3>2 DEF StageInv, ScannedOnce
  <2>9. InEntryStatus'
    <3> SUFFICES ASSUME NEW v \in Workers, WorkerStage[v] \in TextStageNames,
                        task'[v].pc \in TextOpen
                 PROVE  docs'[DocOf(v)].status = EntryStatus[WorkerStage[v]]
      BY <1>1 DEF InEntryStatus
    <3>1. CASE v = w
      BY <2>1, <2>2, <3>1
    <3>2. CASE v # w
      <4>1. /\ task[v].pc \in TextOpen /\ workers[v].pc # "idle" /\ DocOf(v) \in Docs
            /\ docs[DocOf(v)].status = EntryStatus[WorkerStage[v]]
        BY <1>1, <1>5, <3>2, HasDocument DEF StageInv, InEntryStatus
      <4>2. CASE docs'[d].status = docs[d].status
        BY <1>3, <4>1, <4>2
      <4>3. CASE task[w].pc \in TextOpen
        <5>1. ASSUME DocOf(v) = d PROVE WorkerStage[v] = WorkerStage[w]
          BY <2>1, <2>2, <4>1, <4>3, <5>1 DEF EntryStatus, TextStageNames
        <5>2. DocOf(v) # d
          BY <1>1, <3>2, <4>1, <5>1 DEF Solo
        <5> QED
          BY <1>3, <4>1, <5>2
      <4> QED
        BY <2>1, <4>2, <4>3
    <3> QED
      BY <3>1, <3>2
  <2> QED
    BY <1>4, <2>4, <2>7, <2>8, <2>9 DEF StageInv
<1> QED
  BY <1>6, <1>7

\* The queue's own steps.
LEMMA QueueStage ==
    ASSUME "SCAN" \notin Crashes \cup DatabaseFaults,
           QueueTypeOK, TypeOK, TypeOK', StageInv, FreeToClaim, ClaimsDistinct, NEW w \in Workers,
           \/ Claims(w) \/ Renews(w) \/ Reaps(w) \/ Writes(w) \/ CompletionFails(w)
           \/ WorkerDies(w) \/ (Handles(w) /\ returns(w)) \/ Aborts(w)
    PROVE  StageInv'
<1>1. /\ UNCHANGED <<docs, upload>> /\ \A v \in Workers : Undisturbed(v)
  BY QueueSteps DEF corpusVars, apiVars
<1>2. /\ jobs \in [Jobs -> JobRows] /\ workers \in [Workers -> WorkerStates]
      /\ task \in [Workers -> TaskStates]
      /\ \A v \in Workers : workers[v].pc # "idle" => workers[v].job \in Jobs
  BY HasDocument DEF QueueTypeOK, TypeOK
<1>3. \A e \in Docs : ScanOpen(e)' = ScanOpen(e)
  BY <1>1 DEF ScanOpen
<1>4. CreatedByUpload'
  BY <1>1 DEF StageInv, CreatedByUpload
<1>5. InEntryStatus'
  <2> SUFFICES ASSUME NEW v \in Workers, WorkerStage[v] \in TextStageNames, task'[v].pc \in TextOpen
               PROVE  docs'[DocOf(v)'].status = EntryStatus[WorkerStage[v]]
    BY DEF InEntryStatus
  <2>1. task'[v] = task[v] /\ DocOf(v)' = DocOf(v)
    BY <1>1 DEF Undisturbed, DocOf, TextOpen, Loaded, TextPcs
  <2> QED
    BY <1>1, <2>1 DEF StageInv, InEntryStatus
<1>6. ASSUME \A j \in Jobs : jobs'[j].status # "ABSENT" => jobs[j].status # "ABSENT"
      PROVE  OneScanJob'
  BY <1>1, <1>6 DEF StageInv, OneScanJob
<1>7. ASSUME NEW v \in Workers, NEW j \in Jobs, WorksOn(v, j) PROVE JobStage[j] = WorkerStage[v]
  BY <1>7 DEF WorksOn, TypeOK, TaskFits
<1>8. ASSUME NEW j \in Jobs PROVE JobDoc[j] \in Docs
  BY CorpusAssumption
<1>9. CASE Claims(w)
  <2>1. PICK j \in Jobs : pick_job(w, j)
    BY <1>9 DEF Claims
  <2>2. /\ jobs' = [jobs EXCEPT ![j] = Claimed(jobs[j], w)] /\ jobs[j].status = "PENDING"
        /\ workers' = [workers EXCEPT ![w] = Claiming(j, jobs[j].retry_count)]
        /\ workers[w].pc = "idle" /\ JobStage[j] = WorkerStage[w] /\ task' = task
    BY <1>9, <2>1 DEF Claims, pick_job
  <2>3. /\ \A i \in Jobs \ {j} : jobs'[i] = jobs[i]
        /\ \A v \in Workers \ {w} : workers'[v] = workers[v]
        /\ workers'[w].job = j
    BY <1>2, <2>2 DEF Claiming
  <2>4. OneScanJob'
    BY <1>6, <2>2, <2>3
  <2>5. ASSUME JobStage[j] = "SCAN" PROVE ScanOpen(JobDoc[j])
    BY <2>2, <2>5 DEF StageInv, ScannedOnce, FreeToClaim
  <2>6. ScansInTime'
    <3> SUFFICES ASSUME NEW v \in Workers, workers'[v].pc # "idle", WorkerStage[v] = "SCAN"
                 PROVE  ScanOver(v)' \/ ScanOpen(DocOf(v))'
      BY DEF ScansInTime
    <3>1. CASE v = w
      BY <1>3, <1>8, <2>2, <2>3, <2>5, <3>1 DEF DocOf
    <3>2. CASE v # w
      <4>1. workers[v].pc # "idle" /\ ScanOver(v)' = ScanOver(v) /\ DocOf(v)' = DocOf(v)
        BY <2>2, <2>3, <3>2 DEF ScanOver, DocOf
      <4> QED
        BY <1>3, <4>1, HasDocument DEF StageInv, ScansInTime
    <3> QED
      BY <3>1, <3>2
  <2>7. ScannedOnce'
    <3> SUFFICES ASSUME NEW i \in Jobs, JobStage[i] = "SCAN",
                        jobs'[i].status \in {"PENDING", "RUNNING"}
                 PROVE  ScanOpen(JobDoc[i])' \/ \E v \in Workers : WorksOn(v, i)' /\ ScanOver(v)'
      BY DEF ScannedOnce
    <3>1. CASE i = j
      BY <1>3, <1>8, <2>5, <3>1
    <3>2. CASE i # j
      <4>1. ScanOpen(JobDoc[i]) \/ \E v \in Workers : WorksOn(v, i) /\ ScanOver(v)
        BY <2>3, <3>2 DEF StageInv, ScannedOnce
      <4>2. ASSUME NEW v \in Workers, WorksOn(v, i), ScanOver(v)
            PROVE  WorksOn(v, i)' /\ ScanOver(v)'
        BY <2>2, <2>3, <4>2 DEF WorksOn, ScanOver
      <4> QED
        BY <1>3, <1>8, <4>1, <4>2
    <3> QED
      BY <3>1, <3>2
  <2> QED
    BY <1>4, <1>5, <2>4, <2>6, <2>7 DEF StageInv
<1>10. CASE Renews(w) \/ Reaps(w)
  <2>1. UNCHANGED <<workers, task>>
    BY <1>10 DEF Renews, renew_once, Reaps, reap_stuck_jobs
  <2>2. \A j \in Jobs : /\ jobs'[j].status # "ABSENT" => jobs[j].status # "ABSENT"
                        /\ jobs'[j].status \in {"PENDING", "RUNNING"} =>
                              jobs[j].status \in {"PENDING", "RUNNING"}
    <3>1. CASE Renews(w)
      BY <1>2, <3>1, RowEdits DEF Renews, renew_once
    <3>2. CASE Reaps(w)
      BY <1>2, <3>2, RowEdits DEF Reaps, reap_stuck_jobs, Expired
    <3> QED
      BY <1>10, <3>1, <3>2
  <2>3. ScansInTime' /\ ScannedOnce'
    BY <1>3, <1>8, <2>1, <2>2, HasDocument
       DEF StageInv, ScansInTime, ScannedOnce, ScanOver, WorksOn, DocOf
  <2> QED
    BY <1>4, <1>5, <1>6, <2>2, <2>3 DEF StageInv
<1>11. CASE Writes(w)
  <2> DEFINE j == workers[w].job
  <2>1. /\ workers' = [workers EXCEPT ![w] = IdleWorker] /\ task' = task
        /\ workers[w].pc = "finishing" /\ j \in Jobs /\ jobs[j].status # "ABSENT"
    BY <1>2, <1>11 DEF Writes, WriteOutcome, mark_job_completed, handle_job_retry_or_fail,
       mark_job_failed, ClaimsDistinct
  <2>2. /\ \A v \in Workers \ {w} : workers'[v] = workers[v]
        /\ workers'[w].pc = "idle"
    BY <1>2, <2>1, WorkerEdits
  <2>3. /\ \A i \in Jobs \ {j} : jobs'[i] = jobs[i]
        /\ jobs'[j].status \in {"PENDING", "RUNNING"} => workers[w].outcome = "transient"
    <3>1. CASE mark_job_completed(w)
      BY <1>2, <2>1, <3>1, RowEdits DEF mark_job_completed
    <3>2. CASE handle_job_retry_or_fail(w)
      BY <1>2, <2>1, <3>2, RowEdits DEF handle_job_retry_or_fail
    <3>3. CASE mark_job_failed(w)
      BY <1>2, <2>1, <3>3, RowEdits DEF mark_job_failed
    <3> QED
      BY <1>11, <3>1, <3>2, <3>3 DEF Writes, WriteOutcome
  <2>4. OneScanJob'
    BY <1>6, <2>1, <2>3
  <2>5. ScansInTime'
    <3> SUFFICES ASSUME NEW v \in Workers, workers'[v].pc # "idle", WorkerStage[v] = "SCAN"
                 PROVE  ScanOver(v)' \/ ScanOpen(DocOf(v))'
      BY DEF ScansInTime
    <3>1. v # w /\ workers[v].pc # "idle" /\ ScanOver(v)' = ScanOver(v) /\ DocOf(v)' = DocOf(v)
      BY <2>1, <2>2 DEF ScanOver, DocOf
    <3> QED
      BY <1>3, <3>1, HasDocument DEF StageInv, ScansInTime
  <2>6. ScannedOnce'
    <3> SUFFICES ASSUME NEW i \in Jobs, JobStage[i] = "SCAN",
                        jobs'[i].status \in {"PENDING", "RUNNING"}
                 PROVE  ScanOpen(JobDoc[i])' \/ \E v \in Workers : WorksOn(v, i)' /\ ScanOver(v)'
      BY DEF ScannedOnce
    <3>1. CASE i = j
      <4>1. /\ WorkerStage[w] = "SCAN" /\ ~ScanOver(w) /\ DocOf(w) = JobDoc[i]
        BY <1>7, <2>1, <2>3, <3>1 DEF ScanOver, WorksOn, DocOf
      <4> QED
        BY <1>3, <1>8, <2>1, <4>1 DEF StageInv, ScansInTime
    <3>2. CASE i # j
      <4>1. ScanOpen(JobDoc[i]) \/ \E v \in Workers : WorksOn(v, i) /\ ScanOver(v)
        BY <2>3, <3>2 DEF StageInv, ScannedOnce
      <4>2. ASSUME NEW v \in Workers, WorksOn(v, i), ScanOver(v)
            PROVE  WorksOn(v, i)' /\ ScanOver(v)'
        BY <2>1, <2>2, <3>2, <4>2 DEF WorksOn, ScanOver
      <4> QED
        BY <1>3, <1>8, <4>1, <4>2
    <3> QED
      BY <3>1, <3>2
  <2> QED
    BY <1>4, <1>5, <2>4, <2>5, <2>6 DEF StageInv
<1>12. CASE CompletionFails(w) \/ WorkerDies(w) \/ Aborts(w)
  <2>1. /\ WorkerStage[w] # "SCAN" /\ jobs' = jobs
        /\ \A v \in Workers \ {w} : workers'[v] = workers[v] /\ task'[v] = task[v]
    BY <1>2, <1>12 DEF CompletionFails, complete_raises, WorkerDies, Crash, Aborts, aborts, Goto,
       queueVars
  <2>2. OneScanJob'
    BY <1>6, <2>1
  <2>3. \A v \in Workers : WorkerStage[v] = "SCAN" =>
           /\ workers'[v] = workers[v] /\ ScanOver(v)' = ScanOver(v) /\ DocOf(v)' = DocOf(v)
           /\ \A j \in Jobs : WorksOn(v, j)' = WorksOn(v, j)
    BY <2>1 DEF ScanOver, DocOf, WorksOn
  <2>4. ScansInTime'
    BY <1>3, <2>3, HasDocument DEF StageInv, ScansInTime
  <2>5. ScannedOnce'
    <3> SUFFICES ASSUME NEW i \in Jobs, JobStage[i] = "SCAN",
                        jobs[i].status \in {"PENDING", "RUNNING"}
                 PROVE  ScanOpen(JobDoc[i])' \/ \E v \in Workers : WorksOn(v, i)' /\ ScanOver(v)'
      BY <2>1 DEF ScannedOnce
    <3> QED
      BY <1>3, <1>7, <1>8, <2>3 DEF StageInv, ScannedOnce
  <2> QED
    BY <1>4, <1>5, <2>2, <2>4, <2>5 DEF StageInv
<1>13. CASE returns(w)
  <2>1. /\ workers[w].pc = "processing" /\ task[w].pc \in Outcomes /\ jobs' = jobs
        /\ workers' = [workers EXCEPT ![w] = Ended(workers[w], task[w].pc)]
        /\ task' = [task EXCEPT ![w] = NoTask]
    BY <1>13 DEF returns, process_job_ends
  <2>2. workers[w] \in WorkerStates
    BY <1>2
  <2>3. /\ Ended(workers[w], task[w].pc).pc = "finishing"
        /\ Ended(workers[w], task[w].pc).job = workers[w].job
        /\ Ended(workers[w], task[w].pc).outcome = task[w].pc
    BY <2>1, <2>2 DEF Ended, WorkerStates
  <2>4. /\ \A v \in Workers \ {w} : workers'[v] = workers[v] /\ task'[v] = task[v]
        /\ workers'[w].pc = "finishing" /\ workers'[w].job = workers[w].job
        /\ workers'[w].outcome = task[w].pc
    BY <1>2, <2>1, <2>3
  <2>5. \A v \in Workers : /\ DocOf(v)' = DocOf(v) /\ (ScanOver(v) => ScanOver(v)')
                           /\ (workers'[v].pc = "idle") = (workers[v].pc = "idle")
                           /\ \A j \in Jobs : WorksOn(v, j) => WorksOn(v, j)'
    BY <2>1, <2>4 DEF DocOf, ScanOver, WorksOn, ScanClosing, Outcomes
  <2>6. OneScanJob'
    BY <1>6, <2>1
  <2>7. ScansInTime'
    BY <1>3, <2>5, HasDocument DEF StageInv, ScansInTime
  <2>8. ScannedOnce'
    BY <1>3, <1>8, <2>1, <2>5 DEF StageInv, ScannedOnce
  <2> QED
    BY <1>4, <1>5, <2>6, <2>7, <2>8 DEF StageInv
<1> QED
  BY <1>9, <1>10, <1>11, <1>12, <1>13

\* A delete request changes no status, and of the queue it only cancels what is PENDING.
LEMMA EraseMoves ==
    ASSUME QueueTypeOK, TypeOK, NEW d \in Docs,
           Deleted(d) \/ Erases(d) \/ (RequestDies(d) /\ erase_dies(d))
    PROVE  /\ upload' = upload /\ workers' = workers /\ task' = task
           /\ \A e \in Docs : docs'[e].status = docs[e].status
           /\ \A j \in Jobs : \/ jobs'[j] = jobs[j]
                              \/ jobs[j].status = "PENDING" /\ jobs'[j].status = "FAILED"
<1>1. docs \in [Docs -> DocRows] /\ jobs \in [Jobs -> JobRows] /\ workers' = workers /\ task' = task
  BY RequestsFrame DEF TypeOK, QueueTypeOK
<1>2. upload' = upload
  BY DEF Deleted, delete_document, Erases, erase_busy, erase_claim, erase_unrecorded,
     erase_chunks, erase_chunks_raises, erase_purge, erase_duplicates, erase_object,
     erase_object_unseen, erase_object_fails, RequestDies, erase_dies
<1>3. CASE erase_claim(d)
  BY <1>1, <1>2, <1>3, RowEdits DEF erase_claim, CancelPending
<1>4. CASE erase_purge(d)
  <2>1. Tombstone(docs[d]).status = docs[d].status
    BY <1>1 DEF Tombstone, DocRows
  <2> QED
    BY <1>1, <1>2, <1>4, <2>1 DEF erase_purge, queueVars
<1>5. CASE erase_duplicates(d)
  <2>1. \A e \in Docs : TombstonedDuplicate(docs[e]).status = docs[e].status
    BY <1>1 DEF TombstonedDuplicate, DocRows
  <2> QED
    BY <1>1, <1>2, <1>5, <2>1 DEF erase_duplicates, purge_duplicates_of, queueVars
<1> QED
  BY <1>1, <1>2, <1>3, <1>4, <1>5 DEF Deleted, delete_document, Erases, erase_busy,
     erase_unrecorded, erase_chunks, erase_chunks_raises, erase_object, erase_object_unseen,
     erase_object_fails, RequestDies, erase_dies, corpusVars, queueVars

\* The requests and the back-fill.
LEMMA RequestStage ==
    ASSUME "SCAN" \notin BackfillStages, "reset" \notin Backfills,
           QueueTypeOK, TypeOK, TypeOK', StageInv, NEW d \in Docs,
           Receives(d) \/ Deleted(d) \/ Erases(d) \/ RequestDies(d) \/ Backfilled(d)
    PROVE  StageInv'
<1>1. /\ workers' = workers /\ task' = task
      /\ docs \in [Docs -> DocRows] /\ jobs \in [Jobs -> JobRows]
      /\ upload \in [Docs -> UploadStates]
  BY RequestsFrame DEF TypeOK, QueueTypeOK
<1>2. \A v \in Workers : /\ DocOf(v)' = DocOf(v) /\ ScanOver(v)' = ScanOver(v)
                         /\ \A j \in Jobs : WorksOn(v, j)' = WorksOn(v, j)
                         /\ task[v].pc \in TextOpen => workers[v].pc # "idle"
  BY <1>1 DEF DocOf, ScanOver, WorksOn, TypeOK, TaskFits, TextOpen
<1>3. ASSUME NEW j \in Jobs PROVE JobDoc[j] \in Docs
  BY CorpusAssumption
<1>4. CASE \A e \in Docs : docs'[e].status = docs[e].status
  <2>1. ScansInTime' /\ InEntryStatus'
    BY <1>1, <1>2, <1>4, HasDocument DEF StageInv, ScansInTime, InEntryStatus, ScanOpen
  <2>2. ASSUME \A j \in Jobs : \/ JobStage[j] # "SCAN"
                               \/ jobs'[j] = jobs[j]
                               \/ jobs[j].status = "PENDING" /\ jobs'[j].status = "FAILED",
               \A e \in Docs : \/ upload'[e] = upload[e]
                               \/ upload[e] = "none" /\ upload'[e] = "stored"
                               \/ upload'[e] \in {"queued", "done", "dead"}
        PROVE  StageInv'
    <3>1. CreatedByUpload'
      BY <1>4, <2>2 DEF StageInv, CreatedByUpload
    <3>2. OneScanJob'
      BY <1>3, <2>2 DEF StageInv, OneScanJob
    <3>3. ScannedOnce'
      BY <1>2, <1>3, <1>4, <2>2 DEF StageInv, ScannedOnce, ScanOpen
    <3> QED
      BY <2>1, <3>1, <3>2, <3>3 DEF StageInv
  <2>3. CASE receive_enqueue(d)
    <3>1. PICK j \in JobsOf(d) : JobStage[j] = "SCAN" /\ AddJob(j)
      BY <2>3 DEF receive_enqueue
    <3>2. /\ j \in Jobs /\ JobDoc[j] = d /\ upload[d] = "created" /\ docs[d].status = "QUARANTINED"
          /\ upload' = [upload EXCEPT ![d] = "queued"] /\ jobs' = [jobs EXCEPT ![j] = NewRow]
      BY <2>3, <3>1 DEF receive_enqueue, UploadStep, JobsOf, AddJob, StageInv, CreatedByUpload
    <3>3. \A i \in Jobs : JobStage[i] = "SCAN" /\ JobDoc[i] = d => jobs[i].status = "ABSENT"
      BY <3>2 DEF StageInv, OneScanJob
    <3>4. CreatedByUpload'
      BY <1>1, <1>4, <3>2 DEF StageInv, CreatedByUpload
    <3>5. OneScanJob'
      BY <1>1, <1>3, <3>2, <3>3 DEF StageInv, OneScanJob
    <3>6. ScannedOnce'
      BY <1>1, <1>2, <1>3, <1>4, <3>2 DEF StageInv, ScannedOnce, ScanOpen
    <3> QED
      BY <2>1, <3>4, <3>5, <3>6 DEF StageInv
  <2>4. CASE Deleted(d) \/ Erases(d) \/ (RequestDies(d) /\ erase_dies(d))
    BY <2>2, <2>4, EraseMoves
  <2>5. CASE receive_put(d) \/ receive_audit(d) \/ receive_dies(d)
    BY <1>1, <2>2, <2>5 DEF receive_put, receive_audit, receive_dies, UploadStep, queueVars
  <2>6. CASE Backfilled(d)
    BY <1>1, <2>2, <2>6 DEF Backfilled, backfill, AddJob, apiVars
  <2>7. ASSUME receive_create(d) PROVE FALSE
    BY <1>1, <1>4, <2>7 DEF receive_create, UploadStep, StageInv, CreatedByUpload, DocRows
  <2> QED
    BY <2>3, <2>4, <2>5, <2>6, <2>7 DEF Receives, RequestDies
<1>5. CASE receive_create(d)
  <2>1. /\ upload[d] = "stored" /\ docs[d].status = "ABSENT"
        /\ upload' = [upload EXCEPT ![d] = "created"] /\ jobs' = jobs
        /\ docs'[d].status = "QUARANTINED"
        /\ \A e \in Docs \ {d} : docs'[e] = docs[e]
    BY <1>1, <1>5 DEF receive_create, UploadStep, StageInv, CreatedByUpload, DocRows, queueVars
  <2>2. \A e \in Docs : ScanOpen(e) => ScanOpen(e)'
    BY <2>1 DEF ScanOpen
  <2>3. ScansInTime'
    BY <1>1, <1>2, <2>2, HasDocument DEF StageInv, ScansInTime, ScanOpen
  <2>4. ScannedOnce'
    BY <1>2, <1>3, <2>1, <2>2 DEF StageInv, ScannedOnce
  <2>5. InEntryStatus'
    <3> SUFFICES ASSUME NEW v \in Workers, WorkerStage[v] \in TextStageNames,
                        task[v].pc \in TextOpen
                 PROVE  docs'[DocOf(v)].status = EntryStatus[WorkerStage[v]]
      BY <1>1, <1>2 DEF InEntryStatus
    <3>1. docs[DocOf(v)].status = EntryStatus[WorkerStage[v]] /\ DocOf(v) \in Docs
      BY <1>2, HasDocument DEF StageInv, InEntryStatus
    <3>2. DocOf(v) # d
      BY <2>1, <3>1 DEF EntryStatus, TextStageNames
    <3> QED
      BY <2>1, <3>1, <3>2
  <2>6. CreatedByUpload' /\ OneScanJob'
    BY <1>1, <1>3, <2>1 DEF StageInv, CreatedByUpload, OneScanJob
  <2> QED
    BY <2>3, <2>4, <2>5, <2>6 DEF StageInv
<1>6. ASSUME ~receive_create(d) PROVE \A e \in Docs : docs'[e].status = docs[e].status
  <2>1. CASE Deleted(d) \/ Erases(d) \/ (RequestDies(d) /\ erase_dies(d))
    BY <2>1, EraseMoves
  <2>2. CASE Backfilled(d)
    BY <1>1, <2>2 DEF Backfilled, backfill
  <2> QED
    BY <1>6, <2>1, <2>2 DEF Receives, receive_put, receive_enqueue, receive_audit, RequestDies,
       receive_dies, corpusVars
<1> QED
  BY <1>4, <1>5, <1>6

\* All of it: while no two workers of a stage are on one document, no stage acts on a
\* document that is another's.
LEMMA StageStep ==
    ASSUME "SCAN" \notin Crashes \cup DatabaseFaults \cup BackfillStages, "reset" \notin Backfills
    PROVE  /\ QueueTypeOK /\ TypeOK /\ TypeOK' /\ ClaimsDistinct
           /\ Solo /\ FreeToClaim /\ StageInv /\ [Next]_vars
           => StageInv'
<1> SUFFICES ASSUME QueueTypeOK, TypeOK, TypeOK', ClaimsDistinct, Solo, FreeToClaim, StageInv,
                    [Next]_vars
             PROVE  StageInv'
  OBVIOUS
<1>1. ASSUME NEW w \in Workers,
             \/ Claims(w) \/ Renews(w) \/ Reaps(w) \/ Writes(w) \/ CompletionFails(w)
             \/ WorkerDies(w) \/ Handles(w) \/ Aborts(w)
      PROVE  StageInv'
  BY <1>1, QueueStage, HandlerStage DEF Handles
<1>2. ASSUME NEW d \in Docs,
             Receives(d) \/ Deleted(d) \/ Erases(d) \/ RequestDies(d) \/ Backfilled(d)
      PROVE  StageInv'
  BY <1>2, RequestStage
<1>3. ASSUME UNCHANGED <<workers, task, docs, upload>>,
             \A j \in Jobs : jobs'[j].status = jobs[j].status
      PROVE  StageInv'
  BY <1>3 DEF StageInv, ScansInTime, InEntryStatus, ScannedOnce, OneScanJob, CreatedByUpload,
     ScanOver, ScanOpen, DocOf, WorksOn
<1>4. ASSUME NEW j \in Jobs, LeaseRunsOut(j) PROVE StageInv'
  <2>1. \A i \in Jobs : jobs'[i].status = jobs[i].status
    BY <1>4, RowEdits DEF LeaseRunsOut, ExpireLease, QueueTypeOK
  <2> QED
    BY <1>3, <1>4, <2>1 DEF LeaseRunsOut, ExpireLease, corpusVars, apiVars
<1>5. CASE UNCHANGED vars
  BY <1>3, <1>5 DEF vars
<1> QED
  BY <1>1, <1>2, <1>4, <1>5 DEF Next

(***************************************************************************)
(* A LIVE document has all its vectors (LiveIsComplete).                   *)
(***************************************************************************)

\* The deployment of docker-compose: one process per stage.
OneWorkerPerStage ==
    \A v, w \in Workers : WorkerStage[v] = WorkerStage[w] => v = w

\* Its passages are there with their vectors, or somebody is deleting it.
Complete(d) == DeleteAsked(d) \/ (chunks[d].present /\ chunks[d].vectors)

LiveInv ==
    /\ \A d \in Docs : docs[d].status = "LIVE" => Complete(d)
    /\ \A w \in Workers :
          WorkerStage[w] = "EMBED" /\ task[w].pc = "commit" => Complete(DocOf(w))
    /\ \A d \in Docs : erase[d].recorded => DeleteAsked(d)

\* One process per stage does one thing at a time, and takes up no job it is still on.
LEMMA OneWorkerSuffices ==
    ASSUME OneWorkerPerStage, TypeOK
    PROVE  Solo /\ FreeToClaim
<1>1. Solo
  BY DEF OneWorkerPerStage, Solo
<1>2. FreeToClaim
  BY DEF OneWorkerPerStage, FreeToClaim, WorksOn, TypeOK, TaskFits
<1> QED
  BY <1>1, <1>2

\* No handler undoes an audit entry.
LEMMA AuditGrows ==
    ASSUME NEW w \in Workers, ScanNext(w) \/ TextNext(w)
    PROVE  audit \subseteq audit'
<1>1. ASSUME NEW d, NEW events, NEW pc, audits(w, d, events, pc) PROVE audit \subseteq audit'
  BY <1>1 DEF audits, log_event
<1>2. CASE ScanNext(w)
  BY <1>1, <1>2 DEF ScanNext, scan_load, scan_read, scan_read_fails, scan_reject,
     scan_reject_audit, scan_reject_delete, scan_dedup, scan_tier_audit, scan_duplicate,
     scan_dup_delete, scan_dup_audit, scan_promote, scan_promote_fails, scan_clear,
     scan_validated, scan_race_lost, scan_race_escalate, scan_race_tier_audit, scan_race_audit,
     scan_promoted_audit, scan_enqueue, loads, commits, enqueues, corpusVars
<1>3. ASSUME NEW s, Common(w, s) PROVE audit \subseteq audit'
  BY <1>1, <1>3 DEF Common, stage_load, stage_read, stage_read_fails, stage_work,
     stage_work_fails, stage_put, stage_put_fails, stage_commit, stage_audit, stage_enqueue,
     stage_fail, stage_fail_audit, loads, commits, enqueues, corpusVars
<1>4. CASE TextNext(w)
  BY <1>1, <1>3, <1>4 DEF TextNext, extract_process, normalize_process, chunk_process,
     embed_process, extract_no_raw, chunk_persist, embed_work, embed_store, embed_unsupported,
     embed_skip, embed_skip_audit, commits, corpusVars
<1> QED
  BY <1>2, <1>4

\* Passages lose their vectors only when they are cut anew, and EMBED gets to its
\* commit only with all of them stored.
LEMMA HandlerVectors ==
    ASSUME QueueTypeOK, TypeOK, NEW w \in Workers, ScanNext(w) \/ TextNext(w)
    PROVE  /\ \A d \in Docs : \/ Complete(d) => Complete(d)'
                              \/ d = DocOf(w) /\ WorkerStage[w] = "CHUNK" /\ task[w].pc = "put"
           /\ WorkerStage[w] = "EMBED" /\ task'[w].pc = "commit" => Complete(DocOf(w))'
<1>1. /\ DocOf(w) \in Docs /\ workers' = workers /\ chunks \in [Docs -> ChunkRows]
      /\ task \in [Workers -> TaskStates] /\ DocOf(w)' = DocOf(w)
  BY HandlerFrame, HasDocument DEF TypeOK, DocOf
<1>2. audit \subseteq audit'
  BY AuditGrows
<1>3. {"read"} \cup ScanPcs \cup TextPcs \cup Outcomes \subseteq TaskPcs
  BY DEF TaskPcs, Loaded
<1>4. ASSUME chunks' = chunks PROVE \A d \in Docs : Complete(d) => Complete(d)'
  BY <1>2, <1>4 DEF Complete, DeleteAsked
<1>5. ASSUME NEW pc \in TaskPcs, Goto(w, pc), pc # "commit" PROVE task'[w].pc # "commit"
  BY <1>5, Goes
<1>6. CASE ScanNext(w)
  <2>1. WorkerStage[w] = "SCAN"
    BY <1>6, ScanMoves
  <2>2. chunks' = chunks
    BY <1>6 DEF ScanNext, scan_load, scan_read, scan_read_fails, scan_reject,
     scan_reject_audit, scan_reject_delete, scan_dedup, scan_tier_audit, scan_duplicate,
     scan_dup_delete, scan_dup_audit, scan_promote, scan_promote_fails, scan_clear,
     scan_validated, scan_race_lost, scan_race_escalate, scan_race_tier_audit, scan_race_audit,
     scan_promoted_audit, scan_enqueue, loads, commits, audits, enqueues, corpusVars
  <2> QED
    BY <1>4, <2>1, <2>2
<1>7. CASE chunk_persist(w)
  <2>1. WorkerStage[w] = "CHUNK" /\ task[w].pc = "put"
    BY <1>7 DEF chunk_persist, InStage, At
  <2>2. \A d \in Docs \ {DocOf(w)} : chunks'[d] = chunks[d]
    BY <1>1, <1>7 DEF chunk_persist
  <2> QED
    BY <1>2, <2>1, <2>2 DEF Complete, DeleteAsked
<1>8. CASE embed_store(w)
  <2>1. CASE /\ chunks[DocOf(w)].present /\ chunks' = [chunks EXCEPT ![DocOf(w)].vectors = TRUE]
    <3>1. \A d \in Docs \ {DocOf(w)} : chunks'[d] = chunks[d]
      BY <1>1, <2>1
    <3>2. chunks'[DocOf(w)].present /\ chunks'[DocOf(w)].vectors
      BY <1>1, <2>1 DEF ChunkRows
    <3>3. Complete(DocOf(w))'
      BY <1>1, <3>2 DEF Complete
    <3>4. \A d \in Docs \ {DocOf(w)} : Complete(d) => Complete(d)'
      BY <1>2, <3>1 DEF Complete, DeleteAsked
    <3> QED
      BY <1>1, <3>3, <3>4 DEF Complete, DeleteAsked
  <2>2. CASE chunks' = chunks /\ Goto(w, "transient")
    BY <1>3, <1>4, <1>5, <2>2 DEF Outcomes
  <2> QED
    BY <1>8, <2>1, <2>2 DEF embed_store
<1>9. CASE embed_work(w)
  BY <1>1, <1>4, <1>9 DEF embed_work, TaskStates, corpusVars
<1>10. CASE extract_no_raw(w) \/ embed_unsupported(w) \/ embed_skip(w) \/ embed_skip_audit(w)
  <2>1. chunks' = chunks /\ \E pc \in TextPcs \cup Outcomes : pc # "commit" /\ Goto(w, pc)
    BY <1>10 DEF extract_no_raw, embed_unsupported, embed_skip, embed_skip_audit, commits, audits,
       corpusVars, TextPcs, Outcomes
  <2> QED
    BY <1>3, <1>4, <1>5, <2>1
<1>11. ASSUME NEW s \in TextStageNames, stage_load(w, s)
       PROVE  chunks' = chunks /\ task'[w].pc # "commit"
  <2>1. CASE Goto(w, "ok")
    BY <1>3, <1>5, <1>11, <2>1 DEF stage_load, loads, corpusVars, Outcomes
  <2>2. CASE task' = [task EXCEPT ![w] = [NoTask EXCEPT !.pc = "read", !.doc = docs[DocOf(w)]]]
    BY <1>1, <1>11, <2>2, Copies DEF stage_load, loads, corpusVars
  <2> QED
    BY <1>11, <2>1, <2>2 DEF stage_load, loads
<1>12. ASSUME NEW s \in TextStageNames, Common(w, s), ~stage_load(w, s)
       PROVE  /\ chunks' = chunks
              /\ \/ WorkerStage[w] # "EMBED"
                 \/ \E pc \in TextPcs \cup Outcomes : pc # "commit" /\ Goto(w, pc)
  BY <1>12 DEF Common, stage_read, stage_read_fails, stage_work, stage_work_fails, stage_put,
     stage_put_fails, stage_commit, stage_audit, stage_enqueue, stage_fail, stage_fail_audit,
     commits, audits, enqueues, corpusVars, InStage, TextPcs, Outcomes
<1>13. ASSUME NEW s \in TextStageNames, Common(w, s)
       PROVE  /\ chunks' = chunks
              /\ WorkerStage[w] = "EMBED" => task'[w].pc # "commit"
  BY <1>3, <1>5, <1>11, <1>12, <1>13
<1>14. CASE \E s \in TextStageNames : Common(w, s)
  BY <1>4, <1>13, <1>14
<1> QED
  BY <1>6, <1>7, <1>8, <1>9, <1>10, <1>14 DEF TextNext, extract_process, normalize_process,
     chunk_process, embed_process, TextStageNames

\* The requests take passages away only of a document whose delete is on record.
LEMMA RequestVectors ==
    ASSUME QueueTypeOK, TypeOK, TypeOK', NEW d \in Docs,
           Receives(d) \/ Deleted(d) \/ Erases(d) \/ RequestDies(d) \/ Backfilled(d)
    PROVE  /\ audit \subseteq audit'
           /\ \A e \in Docs \ {d} : chunks'[e] = chunks[e] /\ erase'[e] = erase[e]
           /\ chunks'[d] = chunks[d] \/ erase[d].recorded
           /\ erase'[d].recorded => erase[d].recorded \/ <<d, "DOCUMENT_DELETED">> \in audit'
           /\ \A e \in Docs : docs'[e].status = "LIVE" => docs[e].status = "LIVE"
<1>1. /\ docs \in [Docs -> DocRows] /\ chunks \in [Docs -> ChunkRows]
      /\ erase \in [Docs -> EraseStates] /\ erase[d] \in EraseStates
  BY DEF TypeOK
<1>2. CASE Receives(d) \/ (RequestDies(d) /\ receive_dies(d))
  BY <1>1, <1>2 DEF Receives, receive_put, receive_create, receive_enqueue, receive_audit,
     RequestDies, receive_dies, log_event, corpusVars, DocRows
<1>3. CASE Backfilled(d)
  <2>1. PICK s \in BackfillStages, mode \in Backfills : backfill(d, s, mode)
    BY <1>3 DEF Backfilled
  <2>2. Reset(docs[d], s).status # "LIVE"
    BY <1>1, ApiAssumption DEF Reset, STAGE_ENTRY_STATUS, DocRows
  <2> QED
    BY <1>1, <2>1, <2>2 DEF backfill, apiVars
<1>4. CASE Deleted(d)
  BY <1>1, <1>4, EraseEdits DEF Deleted, delete_document, NoErase, corpusVars
<1>5. CASE Erases(d) \/ (RequestDies(d) /\ erase_dies(d))
  <2>1. \A e \in Docs : docs'[e].status = docs[e].status
    BY <1>5, EraseMoves
  <2>2. /\ audit \subseteq audit'
        /\ \A e \in Docs \ {d} : chunks'[e] = chunks[e] /\ erase'[e] = erase[e]
        /\ chunks'[d] = chunks[d] \/ erase[d].recorded
    BY <1>1, <1>5 DEF Erases, erase_busy, erase_claim, erase_unrecorded, erase_chunks,
       erase_chunks_raises, erase_purge, erase_duplicates, erase_object, erase_object_unseen,
       erase_object_fails, EraseStep, RequestDies, erase_dies, corpusVars
  <2>3. CASE erase_claim(d)
    BY <2>1, <2>2, <2>3 DEF erase_claim
  <2>4. ASSUME ~erase_claim(d)
        PROVE  \/ \E from, to \in ErasePcs : from # "idle" /\ EraseStep(d, from, to)
               \/ erase' = [erase EXCEPT ![d] = NoErase]
    BY <1>5, <2>4 DEF Erases, erase_busy, erase_unrecorded, erase_chunks,
       erase_chunks_raises, erase_purge, erase_duplicates, erase_object, erase_object_unseen,
       erase_object_fails, RequestDies, erase_dies, ErasePcs, AfterBucket
  <2>5. CASE ~erase_claim(d)
    BY <1>1, <2>1, <2>2, <2>4, <2>5, EraseGoes
  <2> QED
    BY <2>3, <2>5
<1> QED
  BY <1>2, <1>3, <1>4, <1>5 DEF RequestDies

\* The inductive step.
LEMMA LiveStep ==
    QueueTypeOK /\ TypeOK /\ TypeOK' /\ InEntryStatus /\ LiveInv /\ [Next]_vars => LiveInv'
<1> SUFFICES ASSUME QueueTypeOK, TypeOK, TypeOK', InEntryStatus, LiveInv, [Next]_vars
             PROVE  LiveInv'
  OBVIOUS
<1>1. ASSUME UNCHANGED <<corpusVars, apiVars>>, \A v \in Workers : Undisturbed(v)
      PROVE  LiveInv'
  <2>1. UNCHANGED <<docs, chunks, audit, erase>>
    BY <1>1 DEF corpusVars, apiVars
  <2>2. \A v \in Workers : task'[v].pc = "commit" => task[v].pc = "commit" /\ DocOf(v)' = DocOf(v)
    BY <1>1 DEF Undisturbed, DocOf, Loaded, TextPcs
  <2> QED
    BY <2>1, <2>2 DEF LiveInv, Complete, DeleteAsked
<1>2. ASSUME UNCHANGED <<task, workers>> PROVE \A v \in Workers : Undisturbed(v)
  BY <1>2 DEF Undisturbed, TypeOK, TaskFits, Loaded, ScanPcs, TextPcs
<1>3. ASSUME NEW w \in Workers, ScanNext(w) \/ TextNext(w), UNCHANGED apiVars PROVE LiveInv'
  <2>1. /\ workers' = workers /\ DocOf(w) \in Docs /\ erase' = erase
        /\ \A v \in Workers \ {w} : task'[v] = task[v]
        /\ \A v \in Workers : DocOf(v)' = DocOf(v)
    BY <1>3, HandlerFrame, HasDocument DEF DocOf, apiVars
  <2>2. /\ \A d \in Docs : \/ Complete(d) => Complete(d)'
                           \/ d = DocOf(w) /\ WorkerStage[w] = "CHUNK" /\ task[w].pc = "put"
        /\ WorkerStage[w] = "EMBED" /\ task'[w].pc = "commit" => Complete(DocOf(w))'
    BY <1>3, HandlerVectors
  <2>3. ASSUME NEW d \in Docs, docs'[d].status = "LIVE"
        PROVE  \/ docs[d].status = "LIVE"
               \/ WorkerStage[w] = "EMBED" /\ task[w].pc = "commit" /\ d = DocOf(w)
    BY <1>3, <2>3, ScanMoves, TextMoves DEF DoneStatus, FailStatus, TextStageNames
  <2>4. WorkerStage[w] = "CHUNK" /\ task[w].pc = "put" =>
           docs[DocOf(w)].status = "AWAITING_CLASSIFICATION"
    BY DEF InEntryStatus, EntryStatus, TextStageNames, TextOpen
  <2>5. ASSUME NEW v \in Workers, WorkerStage[v] = "EMBED", task[v].pc = "commit"
        PROVE  docs[DocOf(v)].status = "CHUNKED" /\ DocOf(v) \in Docs
    BY <2>5, HasDocument DEF InEntryStatus, EntryStatus, TextStageNames, TextOpen, TypeOK, TaskFits
  <2>6. ASSUME NEW d \in Docs, docs'[d].status = "LIVE" PROVE Complete(d)'
    <3>1. Complete(d)
      BY <2>3, <2>6 DEF LiveInv
    <3> QED
      BY <2>2, <2>3, <2>4, <2>6, <3>1
  <2>7. ASSUME NEW v \in Workers, WorkerStage[v] = "EMBED", task'[v].pc = "commit"
        PROVE  Complete(DocOf(v))'
    <3>1. CASE v = w
      BY <2>2, <2>7, <3>1
    <3>2. CASE v # w
      <4>1. Complete(DocOf(v)) /\ docs[DocOf(v)].status = "CHUNKED" /\ DocOf(v) \in Docs
        BY <2>1, <2>5, <2>7, <3>2 DEF LiveInv
      <4>2. ASSUME NEW d \in Docs, d = DocOf(v) PROVE Complete(d)'
        BY <2>2, <2>4, <4>1, <4>2
      <4> QED
        BY <2>1, <4>1, <4>2 DEF Complete, DeleteAsked
    <3> QED
      BY <3>1, <3>2
  <2>8. \A d \in Docs : erase'[d].recorded => DeleteAsked(d)'
    BY <1>3, <2>1, AuditGrows DEF LiveInv, DeleteAsked
  <2> QED
    BY <2>6, <2>7, <2>8 DEF LiveInv
<1>4. ASSUME NEW w \in Workers,
             \/ Claims(w) \/ Renews(w) \/ Reaps(w) \/ Writes(w) \/ CompletionFails(w)
             \/ WorkerDies(w) \/ Handles(w) \/ Aborts(w)
      PROVE  LiveInv'
  <2>1. CASE Handles(w) /\ ~returns(w)
    BY <1>3, <2>1 DEF Handles
  <2> QED
    BY <1>1, <1>4, <2>1, QueueSteps
<1>5. ASSUME NEW d \in Docs,
             Receives(d) \/ Deleted(d) \/ Erases(d) \/ RequestDies(d) \/ Backfilled(d)
      PROVE  LiveInv'
  <2>1. /\ audit \subseteq audit'
        /\ \A e \in Docs \ {d} : chunks'[e] = chunks[e] /\ erase'[e] = erase[e]
        /\ chunks'[d] = chunks[d] \/ erase[d].recorded
        /\ erase'[d].recorded => erase[d].recorded \/ <<d, "DOCUMENT_DELETED">> \in audit'
        /\ \A e \in Docs : docs'[e].status = "LIVE" => docs[e].status = "LIVE"
    BY <1>5, RequestVectors
  <2>2. \A e \in Docs : DeleteAsked(e) => DeleteAsked(e)'
    BY <2>1 DEF DeleteAsked
  <2>3. \A e \in Docs : Complete(e) => Complete(e)'
    BY <2>1, <2>2 DEF LiveInv, Complete
  <2>4. \A e \in Docs : erase'[e].recorded => DeleteAsked(e)'
    BY <2>1, <2>2 DEF LiveInv, DeleteAsked
  <2>5. \A v \in Workers : /\ task'[v] = task[v] /\ DocOf(v)' = DocOf(v)
                           /\ task[v].pc = "commit" => DocOf(v) \in Docs
    BY <1>5, RequestsFrame, HasDocument DEF DocOf, TypeOK, TaskFits
  <2>6. ASSUME NEW v \in Workers, WorkerStage[v] = "EMBED", task[v].pc = "commit"
        PROVE  Complete(DocOf(v))'
    <3>1. Complete(DocOf(v)) /\ DocOf(v) \in Docs
      BY <2>5, <2>6 DEF LiveInv
    <3>2. ASSUME NEW e \in Docs, e = DocOf(v) PROVE Complete(e)'
      BY <2>3, <3>1, <3>2
    <3> QED
      BY <2>5, <3>1, <3>2 DEF Complete, DeleteAsked
  <2> QED
    BY <2>1, <2>3, <2>4, <2>5, <2>6 DEF LiveInv
<1>6. ASSUME NEW j \in Jobs, LeaseRunsOut(j) PROVE LiveInv'
  BY <1>1, <1>2, <1>6 DEF LeaseRunsOut, ExpireLease
<1>7. CASE UNCHANGED vars
  BY <1>1, <1>2, <1>7 DEF vars, corpusVars, apiVars
<1> QED
  BY <1>3, <1>4, <1>5, <1>6, <1>7 DEF Next

\* The stages' division of the work holds initially.
LEMMA StageInit == Init => StageInv
<1> SUFFICES ASSUME Init PROVE StageInv
  OBVIOUS
<1>1. /\ \A w \in Workers : workers[w].pc = "idle" /\ task[w].pc = "start"
      /\ \A j \in Jobs : jobs[j].status = "ABSENT"
      /\ \A d \in Docs : upload[d] = "none" /\ docs[d].status = "ABSENT"
  BY DEF Init, QueueInit, IdleWorker, NoRow, TaskInit, NoTask, ApiInit, CorpusInit, NoDoc
<1> QED
  BY <1>1 DEF StageInv, ScansInTime, InEntryStatus, ScannedOnce, OneScanJob, CreatedByUpload,
     TextOpen

\* With one worker per stage, SCAN workers that neither crash nor meet a database fault,
\* and no back-fill of SCAN, the stages keep out of each other's way, whatever crashes,
\* faults and stalls the other stages and the API have.
THEOREM StagesTakeTurns ==
    ASSUME OneWorkerPerStage, "SCAN" \notin Crashes \cup DatabaseFaults \cup BackfillStages,
           "reset" \notin Backfills
    PROVE  Spec => []StageInv
<1>1. Spec => []ClaimsDistinct
  <2>1. StaleInv => ClaimsDistinct
    BY DEF StaleInv
  <2> QED
    BY <2>1, PipelineImplementsQueue, ClaimsAccounted, PTL
<1>2. /\ QueueTypeOK /\ TypeOK /\ TypeOK' /\ ClaimsDistinct /\ StageInv /\ [Next]_vars
      => StageInv'
  BY OneWorkerSuffices, StageStep
<1> QED
  BY <1>1, <1>2, StageInit, PipelineTypeCorrect, PTL DEF Spec

\* A LIVE document that nobody deletes has passages, and every one of them has its vector.
THEOREM LiveIsCompleteHolds ==
    ASSUME OneWorkerPerStage, "SCAN" \notin Crashes \cup DatabaseFaults \cup BackfillStages,
           "reset" \notin Backfills
    PROVE  Spec => []LiveIsComplete
<1>1. Init => LiveInv
  BY DEF Init, TaskInit, NoTask, ApiInit, NoErase, CorpusInit, NoDoc, LiveInv
<1>2. QueueTypeOK /\ TypeOK /\ TypeOK' /\ StageInv /\ LiveInv /\ [Next]_vars => LiveInv'
  BY LiveStep DEF StageInv
<1>3. LiveInv => LiveIsComplete
  BY DEF LiveInv, LiveIsComplete, Complete
<1> QED
  BY <1>1, <1>2, <1>3, StagesTakeTurns, PipelineTypeCorrect, PTL DEF Spec
=============================================================================
