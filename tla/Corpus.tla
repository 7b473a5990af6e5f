------------------------------- MODULE Corpus -------------------------------
(***************************************************************************)
(* What the pipeline keeps besides the jobs table: the documents table     *)
(* (repository.py), the object store with its four buckets (storage/), the *)
(* document_chunks table and the audit log.  The operators here are the    *)
(* reads and the single committed writes the handlers are made of.         *)
(*                                                                         *)
(* The bytes of a document are a constant content, and its SHA-256 is that *)
(* content (no two contents collide).  quarantine, extracted and normalized*)
(* objects are keyed by document, raw objects by content.                  *)
(***************************************************************************)
EXTENDS JobQueue

CONSTANTS
    Docs,        \* document ids
    JobDoc,      \* the document_id column of each job
    Contents,    \* distinct file contents
    ContentOf,   \* the bytes each document was uploaded with
    TierOf,      \* the classification chosen at upload
    Valid,       \* the contents FileValidator.validate accepts
    StorageFaults,   \* whose storage calls may fail: stages or requests
    DatabaseFaults   \* whose statements and commits may be refused

Tiers == {"PUBLIC", "RESTRICTED"}

\* What the API does besides the workers.
Requests == {"UPLOAD", "DELETE"}

ASSUME CorpusAssumption ==
    /\ JobDoc \in [Jobs -> Docs]
    /\ ContentOf \in [Docs -> Contents]
    /\ TierOf \in [Docs -> Tiers]
    /\ Valid \subseteq Contents
    /\ StorageFaults \subseteq Stages \cup Requests
    /\ DatabaseFaults \subseteq Stages \cup Requests
    /\ None \notin Contents
    /\ None \notin Docs

VARIABLES
    docs,     \* the documents table
    store,    \* the objects in MinIO, as <<bucket, key>>
    chunks,   \* the rows of document_chunks, per document
    audit     \* the audit log: which events have been recorded of a document

corpusVars == <<docs, store, chunks, audit>>

\* Duplicates and refused documents do not take part in deduplication: the
\* predicate of uq_documents_active_sha256 and of get_by_checksum.  (The
\* versioning branch that writes SUPERSEDED or ARCHIVED needs an UploadRequest,
\* which no worker has.)
Inactive == {"ABSENT", "REJECTED", "DUPLICATE"}

DocumentStatus ==
    Inactive \cup
    {"QUARANTINED", "VALIDATED", "VALIDATION_FAILED", "EXTRACTED", "EXTRACTION_FAILED",
     "NORMALIZATION_FAILED", "AWAITING_CLASSIFICATION", "CHUNKED", "CHUNKING_FAILED",
     "EMBEDDING_FAILED", "SKIPPED_UNSUPPORTED_LANGUAGE", "LIVE"}

AuditEvent ==
    {"DOCUMENT_QUARANTINED", "DOCUMENT_REJECTED", "DOCUMENT_RECLASSIFIED",
     "VALIDATION_PASSED", "DOCUMENT_PROMOTED", "DOCUMENT_DELETED",
     "EXTRACTION_COMPLETED", "EXTRACTION_FAILED", "NORMALIZATION_COMPLETED",
     "NORMALIZATION_FAILED", "CHUNKING_COMPLETED", "CHUNKING_FAILED",
     "EMBEDDING_COMPLETED", "EMBEDDING_FAILED", "EMBEDDING_SKIPPED"}

\* raw and quarantine say where raw_path and quarantine_path point, if set.
DocRows ==
    [status: DocumentStatus, sha: Contents \cup {None}, tier: Tiers,
     raw: Contents \cup {None}, quarantine: BOOLEAN, purged: BOOLEAN]

\* The rows of one document: which insertion they come from (their chunk_ids),
\* whether they are there, and whether they carry vectors.
ChunkRows == [insertion: Nat, present: BOOLEAN, vectors: BOOLEAN]

Objects ==
    ({"quarantine", "extracted", "normalized"} \X Docs) \cup ({"raw"} \X Contents)

NoDoc(d) ==
    [status |-> "ABSENT", sha |-> None, tier |-> TierOf[d], raw |-> None,
     quarantine |-> FALSE, purged |-> FALSE]
NoChunks == [insertion |-> 0, present |-> FALSE, vectors |-> FALSE]

CorpusInit ==
    /\ docs = [d \in Docs |-> NoDoc(d)]
    /\ store = {}
    /\ chunks = [d \in Docs |-> NoChunks]
    /\ audit = {}

(***************************************************************************)
(* DocumentRepository.                                                     *)
(***************************************************************************)
Active(row) == row.status \notin Inactive

\* Mutant: the lookup forgets its status filter.
get_by_checksum_AnyStatus(c) == {d \in Docs : docs[d].sha = c}

\* The rows get_by_checksum may return; it takes the first.
get_by_checksum(c) == {d \in Docs : docs[d].sha = c /\ Active(docs[d])}

\* uq_documents_active_sha256 refuses the write.
IntegrityError(d, dto) ==
    dto.sha # None /\ Active(dto) /\ get_by_checksum(dto.sha) \ {d} # {}

\* update_document writes the caller's copy back, whatever the row holds by
\* then, except the classification and the tombstone columns.
update_document(d, dto) ==
    docs' = [docs EXCEPT ![d] = [dto EXCEPT !.tier = docs[d].tier, !.purged = docs[d].purged]]

is_stricter(candidate, current) == candidate = "RESTRICTED" /\ current = "PUBLIC"

\* purge: the tombstone keeps its status and loses what points at content.
Tombstone(row) ==
    [row EXCEPT !.purged = TRUE, !.sha = None, !.raw = None, !.quarantine = FALSE]

\* purge_duplicates_of: the refused re-uploads of the same bytes go too.
TombstonedDuplicate(row) == [row EXCEPT !.purged = TRUE, !.sha = None, !.quarantine = FALSE]

purge_duplicates_of(c) ==
    docs' = [d \in Docs |-> IF docs[d].sha = c /\ docs[d].status = "DUPLICATE"
                            THEN TombstonedDuplicate(docs[d]) ELSE docs[d]]

(***************************************************************************)
(* AuditService.log_event behind a handler's _audit: best effort, and at   *)
(* most one row per document and stage event.                              *)
(***************************************************************************)
log_event(who, d, events) ==
    \/ audit' = audit \cup ({d} \X events)
    \/ who \in DatabaseFaults /\ UNCHANGED audit

(***************************************************************************)
(* ObjectStorage (MinIO).  delete_object reports a failure by returning    *)
(* False, which only erase_document looks at.                              *)
(***************************************************************************)
delete_object(o) ==
    \/ store' = store \ {o}
    \/ "SCAN" \in StorageFaults /\ UNCHANGED store
=============================================================================
