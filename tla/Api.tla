--------------------------------- MODULE Api --------------------------------
(***************************************************************************)
(* What reaches the corpus from outside the workers: UploadService.receive,*)
(* DELETE /documents/{id} with erase_document, and the operator's          *)
(* backfill_jobs.py.  A request is a thread of the API process; each of its*)
(* steps is one storage call or one transaction.                           *)
(***************************************************************************)
EXTENDS Corpus

CONSTANTS
    Deletes,       \* the documents somebody may ask to delete
    EagerDelete,   \* also before the upload that creates it has queued its job?
    BackfillStages,   \* the stages an operator may run backfill_jobs.py for, and
    Backfills      \* how: for documents in the stage's "entry" status, in any
                   \* "other", or with --"reset"

ASSUME ApiAssumption ==
    /\ Deletes \subseteq Docs
    /\ EagerDelete \in BOOLEAN
    /\ BackfillStages \subseteq Stages \cap {"SCAN", "EXTRACT", "NORMALIZE", "CHUNK", "EMBED"}
    /\ Backfills \subseteq {"entry", "other", "reset"}

VARIABLES
    upload,   \* where the upload of each document stands
    erase     \* the delete request of each document: its pc, the copy it loaded,
              \* and whether its claim and audit entry were committed

apiVars == <<upload, erase>>

NoErase == [pc |-> "idle", doc |-> None, recorded |-> FALSE]

ApiInit ==
    /\ upload = [d \in Docs |-> "none"]
    /\ erase = [d \in Docs |-> NoErase]

\* The jobs of a document.
JobsOf(d) == {j \in Jobs : JobDoc[j] = d}

(***************************************************************************)
(* UploadService.receive: the object, the row, the SCAN job, the audit     *)
(* entry.                                                                  *)
(***************************************************************************)
UploadStep(d, from, to) == upload[d] = from /\ upload' = [upload EXCEPT ![d] = to]

receive_put(d) ==
    /\ UploadStep(d, "none", "stored")
    /\ store' = store \cup {<<"quarantine", d>>}
    /\ UNCHANGED <<docs, chunks, audit, queueVars, erase>>

receive_create(d) ==
    /\ UploadStep(d, "stored", "created")
    /\ docs' = [docs EXCEPT ![d].status = "QUARANTINED", ![d].quarantine = TRUE]
    /\ UNCHANGED <<store, chunks, audit, queueVars, erase>>

receive_enqueue(d) ==
    /\ UploadStep(d, "created", "queued")
    /\ \E j \in JobsOf(d) : JobStage[j] = "SCAN" /\ AddJob(j)
    /\ UNCHANGED <<corpusVars, erase>>

receive_audit(d) ==
    /\ UploadStep(d, "queued", "done")
    /\ log_event("UPLOAD", d, {"DOCUMENT_QUARANTINED"})
    /\ UNCHANGED <<docs, store, chunks, queueVars, erase>>

\* The API process dies, or a call raises: nobody resumes the request.
receive_dies(d) ==
    /\ upload[d] \in {"stored", "created", "queued"}
    /\ upload' = [upload EXCEPT ![d] = "dead"]
    /\ UNCHANGED <<corpusVars, queueVars, erase>>

(***************************************************************************)
(* delete_document loads the row; erase_document then works from that copy.*)
(***************************************************************************)
EraseStep(d, from, to) == erase[d].pc = from /\ erase' = [erase EXCEPT ![d].pc = to]

delete_document(d) ==
    /\ d \in Deletes
    /\ erase[d].pc = "idle"
    /\ docs[d].status # "ABSENT"
    /\ EagerDelete \/ upload[d] \in {"queued", "done"}
    /\ ~docs[d].purged
    /\ erase' = [erase EXCEPT ![d] = [NoErase EXCEPT !.pc = "claim", !.doc = docs[d]]]
    /\ UNCHANGED <<corpusVars, queueVars, upload>>

\* Mutant: a RUNNING job does not make the document busy.
Busy_Never(d) == FALSE

\* The locked SELECT finds a RUNNING job: DocumentBusy, nothing changes.
Busy(d) == \E j \in JobsOf(d) : jobs[j].status = "RUNNING"

erase_busy(d) ==
    /\ erase[d].pc = "claim"
    /\ Busy(d)
    /\ erase' = [erase EXCEPT ![d] = NoErase]
    /\ UNCHANGED <<corpusVars, queueVars, upload>>

\* The PENDING jobs become FAILED, and record() commits that with its own row.
erase_claim(d) ==
    /\ erase[d].pc = "claim"
    /\ ~Busy(d)
    /\ erase' = [erase EXCEPT ![d].pc = "raw", ![d].recorded = TRUE]
    /\ CancelPending(JobsOf(d))
    /\ audit' = audit \cup {<<d, "DOCUMENT_DELETED">>}
    /\ UNCHANGED <<docs, store, chunks, upload>>

\* The commit fails: record() swallows that, the claim is gone with it, and the
\* request goes on to the objects.
erase_unrecorded(d) ==
    /\ "DELETE" \in DatabaseFaults
    /\ EraseStep(d, "claim", "raw")
    /\ ~Busy(d)
    /\ UNCHANGED <<corpusVars, queueVars, upload>>

AfterBucket ==
    [raw |-> "quarantine", quarantine |-> "extracted", extracted |-> "normalized",
     normalized |-> "chunks"]

\* The object of bucket b as the copy names it, if the copy names one.
ErasedObject(d, b) ==
    IF b = "raw" THEN IF erase[d].doc.raw = None THEN {} ELSE {<<"raw", erase[d].doc.raw>>}
    ELSE IF b = "quarantine" /\ ~erase[d].doc.quarantine THEN {}
    ELSE {<<b, d>>}

erase_object(d, b) ==
    /\ EraseStep(d, b, AfterBucket[b])
    /\ store' = store \ ErasedObject(d, b)
    /\ UNCHANGED <<docs, chunks, audit, queueVars, upload>>

\* object_exists takes a failing stat for an absent object.
erase_object_unseen(d, b) ==
    /\ "DELETE" \in StorageFaults
    /\ EraseStep(d, b, AfterBucket[b])
    /\ ErasedObject(d, b) # {}
    /\ UNCHANGED <<corpusVars, queueVars, upload>>

\* delete_object returns False: StorageEraseFailed, the request ends.
erase_object_fails(d, b) ==
    /\ "DELETE" \in StorageFaults
    /\ erase[d].pc = b
    /\ ErasedObject(d, b) \cap store # {}
    /\ erase' = [erase EXCEPT ![d] = NoErase]
    /\ UNCHANGED <<corpusVars, queueVars, upload>>

\* Mutant: the passages are left to the foreign key.
ErasedChunks_Kept(row) == row

ErasedChunks(row) == [row EXCEPT !.present = FALSE, !.vectors = FALSE]

erase_chunks(d) ==
    /\ erase[d].recorded
    /\ EraseStep(d, "chunks", "purge")
    /\ chunks' = [chunks EXCEPT ![d] = ErasedChunks(@)]
    /\ UNCHANGED <<docs, store, audit, queueVars, upload>>

\* The session still holds the failed transaction, so the DELETE raises.
erase_chunks_raises(d) ==
    /\ erase[d].pc = "chunks"
    /\ ~erase[d].recorded
    /\ erase' = [erase EXCEPT ![d] = NoErase]
    /\ UNCHANGED <<corpusVars, queueVars, upload>>

\* repo.purge; a row that another request purged first is left alone.
erase_purge(d) ==
    /\ EraseStep(d, "purge", "duplicates")
    /\ docs' = [docs EXCEPT ![d] = IF @.purged THEN @ ELSE Tombstone(@)]
    /\ UNCHANGED <<store, chunks, audit, queueVars, upload>>

erase_duplicates(d) ==
    /\ erase[d].pc = "duplicates"
    /\ IF erase[d].doc.sha = None THEN UNCHANGED docs ELSE purge_duplicates_of(erase[d].doc.sha)
    /\ erase' = [erase EXCEPT ![d] = NoErase]
    /\ UNCHANGED <<store, chunks, audit, queueVars, upload>>

\* The API process dies, or a statement raises, with the request half done.
erase_dies(d) ==
    /\ erase[d].pc # "idle"
    /\ erase' = [erase EXCEPT ![d] = NoErase]
    /\ UNCHANGED <<corpusVars, queueVars, upload>>

(***************************************************************************)
(* backfill_jobs.py: queue a stage for a document that has no live job for *)
(* it, perhaps moving the document back to the stage's entry status.       *)
(***************************************************************************)

\* Mutant: the status a stage ends in, not the one it starts from.
STAGE_ENTRY_STATUS_After ==
    [SCAN |-> "VALIDATED", EXTRACT |-> "EXTRACTED", NORMALIZE |-> "AWAITING_CLASSIFICATION",
     CHUNK |-> "CHUNKED", EMBED |-> "LIVE"]

STAGE_ENTRY_STATUS ==
    [SCAN |-> "QUARANTINED", EXTRACT |-> "VALIDATED", NORMALIZE |-> "EXTRACTED",
     CHUNK |-> "AWAITING_CLASSIFICATION", EMBED |-> "CHUNKED"]

LiveJob(d, s) ==
    \E j \in JobsOf(d) : JobStage[j] = s /\ jobs[j].status \in {"PENDING", "RUNNING"}

\* --reset moves the document back to the stage's entry status.
Reset(row, s) == [row EXCEPT !.status = STAGE_ENTRY_STATUS[s]]

backfill(d, s, mode) ==
    /\ docs[d].status # "ABSENT"
    /\ mode = "entry" => docs[d].status = STAGE_ENTRY_STATUS[s]
    /\ ~docs[d].purged
    /\ ~LiveJob(d, s)
    /\ \E j \in JobsOf(d) : JobStage[j] = s /\ AddJob(j)
    /\ LET row == IF mode = "reset" THEN Reset(docs[d], s) ELSE docs[d]
       IN  ~IntegrityError(d, row) /\ docs' = [docs EXCEPT ![d] = row]
    /\ UNCHANGED <<store, chunks, audit, apiVars>>
=============================================================================
