------------------------------ MODULE Ingestion -----------------------------
(***************************************************************************)
(* The ingestion system: uploads and deletes arriving at the API, the job  *)
(* queue, and the workers of the five stages, over one database and one    *)
(* object store.  A queue step and a handler step never happen together,   *)
(* except that queueing the next stage is the handler's step on the queue. *)
(***************************************************************************)
EXTENDS ScanStage, TextStages, Api

\* The processes that may die between two of their steps: the workers of some
\* stages, requests of the API.
CONSTANT Crashes

ASSUME IngestionAssumption == Crashes \subseteq Stages \cup Requests

vars == <<jobs, workers, docs, store, chunks, audit, task, upload, erase>>

Init == QueueInit /\ CorpusInit /\ TaskInit /\ ApiInit

(***************************************************************************)
(* The queue's own steps.                                                  *)
(***************************************************************************)
Claims(w) == (\E j \in Jobs : pick_job(w, j)) /\ UNCHANGED <<corpusVars, task, apiVars>>
Renews(w) == renew_once(w) /\ UNCHANGED <<corpusVars, task, apiVars>>
LeaseRunsOut(j) == ExpireLease(j) /\ UNCHANGED <<corpusVars, task, apiVars>>
Reaps(w) == reap_stuck_jobs(w) /\ UNCHANGED <<corpusVars, task, apiVars>>
Writes(w) == WriteOutcome(w) /\ UNCHANGED <<corpusVars, task, apiVars>>
CompletionFails(w) ==
    /\ WorkerStage[w] \in DatabaseFaults
    /\ complete_raises(w)
    /\ UNCHANGED <<corpusVars, task, apiVars>>

WorkerDies(w) ==
    /\ WorkerStage[w] \in Crashes
    /\ Crash(w)
    /\ task' = [task EXCEPT ![w] = NoTask]
    /\ UNCHANGED <<corpusVars, apiVars>>

(***************************************************************************)
(* The handlers' and the requests' steps.                                  *)
(***************************************************************************)
Handles(w) ==
    /\ ScanNext(w) \/ TextNext(w) \/ returns(w)
    /\ UNCHANGED apiVars

Aborts(w) == aborts(w) /\ UNCHANGED apiVars

Receives(d) ==
    /\ receive_put(d) \/ receive_create(d) \/ receive_enqueue(d) \/ receive_audit(d)
    /\ UNCHANGED task

Erases(d) ==
    /\ \/ erase_busy(d) \/ erase_claim(d) \/ erase_unrecorded(d)
       \/ erase_chunks(d) \/ erase_chunks_raises(d) \/ erase_purge(d) \/ erase_duplicates(d)
       \/ \E b \in DOMAIN AfterBucket :
             erase_object(d, b) \/ erase_object_unseen(d, b) \/ erase_object_fails(d, b)
    /\ UNCHANGED task

Deleted(d) == delete_document(d) /\ UNCHANGED task

RequestDies(d) ==
    /\ \/ "UPLOAD" \in Crashes \cup DatabaseFaults /\ receive_dies(d)
       \/ "DELETE" \in Crashes \cup DatabaseFaults /\ erase_dies(d)
    /\ UNCHANGED task

Backfilled(d) ==
    /\ \E s \in BackfillStages, mode \in Backfills : backfill(d, s, mode)
    /\ UNCHANGED task

Next ==
    \/ \E w \in Workers :
          \/ Claims(w) \/ Renews(w) \/ Reaps(w) \/ Writes(w) \/ CompletionFails(w)
          \/ WorkerDies(w) \/ Handles(w) \/ Aborts(w)
    \/ \E j \in Jobs : LeaseRunsOut(j)
    \/ \E d \in Docs :
          \/ Receives(d) \/ Deleted(d) \/ Erases(d) \/ RequestDies(d) \/ Backfilled(d)

Spec == Init /\ [][Next]_vars

\* No worker is on a job of this document, and none is queued.
Quiet(d) == \A j \in JobsOf(d) : jobs[j].status \in Done \cup {"ABSENT"}

(***************************************************************************)
(* Fairness: a started upload goes on, and workers claim, work, write and  *)
(* reap (see JobQueue).  Nobody is bound to upload, delete or back-fill,   *)
(* and nothing is assumed of faults, crashes and stalls.                   *)
(***************************************************************************)
Fairness ==
    /\ \A w \in Workers :
          WF_vars(Claims(w)) /\ WF_vars(Handles(w)) /\ WF_vars(Writes(w))
    /\ WF_vars(\E w \in Workers : Reaps(w))
    /\ \A j \in Jobs : WF_vars(~Attended(j) /\ LeaseRunsOut(j))
    /\ \A d \in Docs : WF_vars(upload[d] # "none" /\ Receives(d))

FairSpec == Spec /\ Fairness

(***************************************************************************)
(* Properties.                                                             *)
(***************************************************************************)

DeleteAsked(d) == <<d, "DOCUMENT_DELETED">> \in audit

\* "LIVE: every passage carries a vector": no interleaving of crashes, faults,
\* retries and reaped jobs leaves a LIVE document with passages missing or
\* not embedded, unless somebody is deleting it.
LiveIsComplete ==
    \A d \in Docs :
        docs[d].status = "LIVE" /\ ~DeleteAsked(d) => chunks[d].present /\ chunks[d].vectors

\* What each status promises to the stage that comes next is in place.
ArtifactsPresent ==
    \A d \in Docs :
        LET has(status, o) == docs[d].status = status => o \in store
        IN  /\ docs[d].raw # None => <<"raw", docs[d].raw>> \in store
            /\ docs[d].status = "VALIDATED" => docs[d].raw # None
            /\ has("EXTRACTED", <<"extracted", d>>)
            /\ has("AWAITING_CLASSIFICATION", <<"normalized", d>>)
            /\ docs[d].status = "CHUNKED" => chunks[d].present

\* A copy is only dropped as a duplicate of an active document whose bytes are
\* kept: promoted, or still in quarantine to be promoted on a retry.
DuplicateHasCanonical ==
    \A d \in Docs :
        docs[d].status = "DUPLICATE" =>
            \E e \in get_by_checksum(ContentOf[d]) \ {d} :
                <<"raw", ContentOf[d]>> \in store \/ <<"quarantine", e>> \in store

\* "Let the stricter of the two tiers win": once the scan of a duplicate is
\* over, the document it duplicates is at least as restricted.
StricterTierWins ==
    \A d \in Docs :
        docs[d].status = "DUPLICATE" /\ Quiet(d) =>
            \A e \in get_by_checksum(ContentOf[d]) : ~is_stricter(docs[d].tier, docs[e].tier)

\* The event that goes with a status.
StatusEvent(status) ==
    CASE status \in {"REJECTED", "DUPLICATE"} -> "DOCUMENT_REJECTED"
      [] status = "VALIDATED" -> "DOCUMENT_PROMOTED"
      [] status = "EXTRACTED" -> "EXTRACTION_COMPLETED"
      [] status = "AWAITING_CLASSIFICATION" -> "NORMALIZATION_COMPLETED"
      [] status = "CHUNKED" -> "CHUNKING_COMPLETED"
      [] status = "LIVE" -> "EMBEDDING_COMPLETED"
      [] status = "SKIPPED_UNSUPPORTED_LANGUAGE" -> "EMBEDDING_SKIPPED"
      [] status \in {"EXTRACTION_FAILED", "NORMALIZATION_FAILED", "CHUNKING_FAILED",
                     "EMBEDDING_FAILED"} -> status

\* Without faults and crashes, a document nobody works on is past QUARANTINED
\* and the audit log says how it got where it is.
AuditTrail ==
    \A d \in Docs :
        upload[d] \in {"queued", "done"} /\ Quiet(d) /\ ~DeleteAsked(d) =>
            /\ docs[d].status \notin {"QUARANTINED", "VALIDATION_FAILED"}
            /\ <<d, StatusEvent(docs[d].status)>> \in audit

\* Whatever goes wrong with the storage or the database, an erased document has
\* no passages left that a search could find, and no job that could bring them
\* back.  A duplicate erased along with the document it duplicates may still be
\* closed by its SCAN job, which has written its status by then.
ErasedNotSearchable ==
    \A d \in Docs :
        docs[d].purged =>
            ~chunks[d].present /\ (Quiet(d) \/ docs[d].status = "DUPLICATE")

\* A tombstone stays one: no worker writes its old copy of the row back.
TombstoneStays ==
    [][\A d \in Docs : docs[d].purged => docs'[d] = docs[d]]_vars

\* The document got through the pipeline, or its status says why not, or one of
\* its jobs is left FAILED for somebody to see.
Settled(d) ==
    \/ docs[d].status \in {"LIVE", "REJECTED", "DUPLICATE", "SKIPPED_UNSUPPORTED_LANGUAGE",
                           "EXTRACTION_FAILED", "NORMALIZATION_FAILED", "CHUNKING_FAILED",
                           "EMBEDDING_FAILED"}
    \/ \E j \in JobsOf(d) : jobs[j].status = "FAILED"

\* Every document that is registered settles.
EveryDocumentSettles == \A d \in Docs : upload[d] = "created" ~> Settled(d)

\* What a stage reads is there.
InputPresent(d, s) ==
    CASE s = "SCAN" -> <<"quarantine", d>> \in store
      [] s = "EXTRACT" -> <<"raw", docs[d].raw>> \in store
      [] s = "NORMALIZE" -> <<"extracted", d>> \in store
      [] s = "CHUNK" -> <<"normalized", d>> \in store
      [] s = "EMBED" -> <<"normalized", d>> \in store /\ chunks[d].present

\* A document whose next job was lost, between the commit of a status and that
\* of the job, is one backfill_jobs.py can put back on its way: it stands in
\* the entry status of some stage, and what that stage reads is there.
StrandedIsRecoverable ==
    \A d \in Docs :
        docs[d].status # "ABSENT" /\ Quiet(d) /\ ~Settled(d) /\ ~DeleteAsked(d) =>
            \E s \in DOMAIN STAGE_ENTRY_STATUS :
                docs[d].status = STAGE_ENTRY_STATUS[s] /\ InputPresent(d, s)

(***************************************************************************)
(* What others see of this system: it implements DocumentLife, which the   *)
(* Drive connector is modelled on.                                         *)
(***************************************************************************)
LifeOf(status) ==
    CASE status = "ABSENT" -> "absent"
      [] status = "QUARANTINED" -> "received"
      [] status = "VALIDATION_FAILED" -> "stalled"
      [] status = "REJECTED" -> "refused"
      [] status = "DUPLICATE" -> "duplicate"
      [] status = "LIVE" -> "live"
      [] status \in {"VALIDATED", "EXTRACTED", "AWAITING_CLASSIFICATION", "CHUNKED"} -> "accepted"
      [] OTHER -> "failed"

Life == INSTANCE DocumentLife
            WITH life <- [d \in Docs |-> LifeOf(docs[d].status)],
                 content <- [d \in Docs |-> IF docs[d].status = "ABSENT" THEN None
                                            ELSE ContentOf[d]]

\* Whatever crashes and faults do, a document only ever takes the steps of
\* DocumentLife: of two copies one at most is accepted, a copy is only given up
\* for one that is not, and what is settled stays settled.
LifeSpec == Life!LifeSpec
=============================================================================
