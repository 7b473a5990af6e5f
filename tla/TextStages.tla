----------------------------- MODULE TextStages -----------------------------
(***************************************************************************)
(* ExtractionJobHandler, NormalizationJobHandler, ChunkingJobHandler and   *)
(* EmbeddingJobHandler.  The four have one shape: check the status the     *)
(* previous stage left, read what it wrote, compute, store the result,     *)
(* write the new status back, and queue the next stage.  What differs is   *)
(* in the tables below and in the actions that name a stage.               *)
(***************************************************************************)
EXTENDS StageTask

EntryStatus ==
    [EXTRACT |-> "VALIDATED", NORMALIZE |-> "EXTRACTED",
     CHUNK |-> "AWAITING_CLASSIFICATION", EMBED |-> "CHUNKED"]

DoneStatus ==
    [EXTRACT |-> "EXTRACTED", NORMALIZE |-> "AWAITING_CLASSIFICATION",
     CHUNK |-> "CHUNKED", EMBED |-> "LIVE"]

\* Also the names of the audit events of a failure.
FailStatus ==
    [EXTRACT |-> "EXTRACTION_FAILED", NORMALIZE |-> "NORMALIZATION_FAILED",
     CHUNK |-> "CHUNKING_FAILED", EMBED |-> "EMBEDDING_FAILED"]

DoneEvent ==
    [EXTRACT |-> "EXTRACTION_COMPLETED", NORMALIZE |-> "NORMALIZATION_COMPLETED",
     CHUNK |-> "CHUNKING_COMPLETED", EMBED |-> "EMBEDDING_COMPLETED"]

NextStage == [EXTRACT |-> "NORMALIZE", NORMALIZE |-> "CHUNK", CHUNK |-> "EMBED"]

InStage(w, s, pc) == WorkerStage[w] = s /\ At(w, pc)

\* Mutant: every stage accepts any document.
IsFor_Anything(s, d) == docs[d].status \in DocumentStatus

\* The idempotency guard at the top of every process().
IsFor(s, d) == docs[d].status = EntryStatus[s]

stage_load(w, s) == WorkerStage[w] = s /\ loads(w, IsFor(s, DocOf(w)))

(***************************************************************************)
(* Reading the input.  A storage failure is transient, except for EMBED,   *)
(* whose language lookup takes an unreadable artifact for an unknown       *)
(* language and skips the document.                                        *)
(***************************************************************************)
Input(w, s) ==
    IF s = "EXTRACT" THEN <<"raw", task[w].doc.raw>>
    ELSE IF s = "NORMALIZE" THEN <<"extracted", DocOf(w)>>
    ELSE <<"normalized", DocOf(w)>>

stage_read(w, s) ==
    /\ InStage(w, s, "read")
    /\ Input(w, s) \in store
    /\ Goto(w, "work")
    /\ UNCHANGED <<corpusVars, queueVars>>

stage_read_fails(w, s) ==
    /\ InStage(w, s, "read")
    /\ ~(s = "EXTRACT" /\ task[w].doc.raw = None)
    /\ s \in StorageFaults \/ Input(w, s) \notin store
    /\ Goto(w, IF s = "EMBED" THEN "skip" ELSE "transient")
    /\ UNCHANGED <<corpusVars, queueVars>>

\* MISSING_RAW_OBJECT
extract_no_raw(w) ==
    /\ InStage(w, "EXTRACT", "read")
    /\ task[w].doc.raw = None
    /\ Goto(w, "fail")
    /\ UNCHANGED <<corpusVars, queueVars>>

(***************************************************************************)
(* Computing.  The document may be unreadable, fail the quality gate, give *)
(* no passages, or not be in a supported language; EMBED first loads the   *)
(* passages it is going to update.                                         *)
(***************************************************************************)
stage_work(w, s) ==
    /\ InStage(w, s, "work")
    /\ s # "EMBED"
    /\ Goto(w, "put")
    /\ UNCHANGED <<corpusVars, queueVars>>

embed_work(w) ==
    /\ InStage(w, "EMBED", "work")
    /\ chunks[DocOf(w)].present
    /\ task' = [task EXCEPT ![w].pc = "put", ![w].chunks = chunks[DocOf(w)].insertion]
    /\ UNCHANGED <<corpusVars, queueVars>>

stage_work_fails(w, s) ==
    /\ InStage(w, s, "work")
    /\ Goto(w, "fail")
    /\ UNCHANGED <<corpusVars, queueVars>>

embed_unsupported(w) ==
    /\ InStage(w, "EMBED", "work")
    /\ Goto(w, "skip")
    /\ UNCHANGED <<corpusVars, queueVars>>

(***************************************************************************)
(* Storing the result.                                                     *)
(***************************************************************************)
stage_put(w, s) ==
    /\ s \in {"EXTRACT", "NORMALIZE"}
    /\ InStage(w, s, "put")
    /\ store' = store \cup {<<IF s = "EXTRACT" THEN "extracted" ELSE "normalized", DocOf(w)>>}
    /\ Goto(w, "commit")
    /\ UNCHANGED <<docs, chunks, audit, queueVars>>

\* _persist: delete the old passages, insert the new ones, one transaction.
chunk_persist(w) ==
    /\ InStage(w, "CHUNK", "put")
    /\ chunks' = [chunks EXCEPT ![DocOf(w)] =
                    [insertion |-> @.insertion + 1, present |-> TRUE, vectors |-> FALSE]]
    /\ Goto(w, "commit")
    /\ UNCHANGED <<docs, store, audit, queueVars>>

\* The vectors go into the very rows that were loaded; if those are gone the
\* UPDATE matches nothing and the flush raises, which is a transient failure.
embed_store(w) ==
    /\ InStage(w, "EMBED", "put")
    /\ LET rows == chunks[DocOf(w)]
       IN  IF rows.present /\ rows.insertion = task[w].chunks
           THEN Goto(w, "commit") /\ chunks' = [chunks EXCEPT ![DocOf(w)].vectors = TRUE]
           ELSE Goto(w, "transient") /\ UNCHANGED chunks
    /\ UNCHANGED <<docs, store, audit, queueVars>>

\* Mutant: a failed put is taken for a successful one.
stage_put_fails_Unnoticed(w, s) ==
    /\ s \in StorageFaults
    /\ InStage(w, s, "put")
    /\ Goto(w, "commit")
    /\ UNCHANGED <<corpusVars, queueVars>>

\* A storage error, or inference failing in EMBED, is transient.
stage_put_fails(w, s) ==
    /\ s \in StorageFaults
    /\ InStage(w, s, "put")
    /\ Goto(w, "transient")
    /\ UNCHANGED <<corpusVars, queueVars>>

(***************************************************************************)
(* Writing the status, the audit entry, and the next job.  CHUNK queues    *)
(* before it audits, the others after.                                     *)
(***************************************************************************)
stage_commit(w, s) ==
    /\ InStage(w, s, "commit")
    /\ commits(w, [task[w].doc EXCEPT !.status = DoneStatus[s]],
               IF s = "CHUNK" THEN "enqueue" ELSE "audit")

stage_audit(w, s) ==
    /\ InStage(w, s, "audit")
    /\ audits(w, DocOf(w), {DoneEvent[s]},
              IF s \in {"EXTRACT", "NORMALIZE"} THEN "enqueue" ELSE "ok")

stage_enqueue(w, s) ==
    /\ s # "EMBED"
    /\ InStage(w, s, "enqueue")
    /\ enqueues(w, NextStage[s], IF s = "CHUNK" THEN "audit" ELSE "ok")

\* _fail: the status, the audit entry, and a permanent failure of the job.
stage_fail(w, s) ==
    /\ InStage(w, s, "fail")
    /\ commits(w, [task[w].doc EXCEPT !.status = FailStatus[s]], "fail_audit")

stage_fail_audit(w, s) ==
    /\ InStage(w, s, "fail_audit")
    /\ audits(w, DocOf(w), {FailStatus[s]}, "permanent")

\* _skip_unsupported_language: not a failure.
embed_skip(w) ==
    /\ InStage(w, "EMBED", "skip")
    /\ commits(w, [task[w].doc EXCEPT !.status = "SKIPPED_UNSUPPORTED_LANGUAGE"], "skip_audit")

embed_skip_audit(w) ==
    /\ InStage(w, "EMBED", "skip_audit")
    /\ audits(w, DocOf(w), {"EMBEDDING_SKIPPED"}, "ok")

(***************************************************************************)
(* The four process() methods.                                             *)
(***************************************************************************)
Common(w, s) ==
    \/ stage_load(w, s)
    \/ stage_read(w, s)
    \/ stage_read_fails(w, s)
    \/ stage_work(w, s)
    \/ stage_work_fails(w, s)
    \/ stage_put(w, s)
    \/ stage_put_fails(w, s)
    \/ stage_commit(w, s)
    \/ stage_audit(w, s)
    \/ stage_enqueue(w, s)
    \/ stage_fail(w, s)
    \/ stage_fail_audit(w, s)

extract_process(w) == Common(w, "EXTRACT") \/ extract_no_raw(w)

normalize_process(w) == Common(w, "NORMALIZE")

chunk_process(w) == Common(w, "CHUNK") \/ chunk_persist(w)

embed_process(w) ==
    \/ Common(w, "EMBED")
    \/ embed_work(w)
    \/ embed_store(w)
    \/ embed_unsupported(w)
    \/ embed_skip(w)
    \/ embed_skip_audit(w)

TextNext(w) ==
    \/ extract_process(w)
    \/ normalize_process(w)
    \/ chunk_process(w)
    \/ embed_process(w)
=============================================================================
