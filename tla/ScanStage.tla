------------------------------ MODULE ScanStage -----------------------------
(***************************************************************************)
(* ScanJobHandler.process: validate the quarantined bytes, drop duplicates *)
(* (letting the stricter tier win), promote the bytes to the raw bucket and*)
(* queue EXTRACT.  The in-process promotion lock orders nothing here: every*)
(* job gets a handler, and so a lock, of its own.                          *)
(***************************************************************************)
EXTENDS StageTask

\* The idempotency guard: statuses a repeated SCAN job leaves alone.
ScanIsDone(status) ==
    status \in {"VALIDATED", "EXTRACTED", "EXTRACTION_FAILED", "NORMALIZATION_FAILED",
                "AWAITING_CLASSIFICATION", "LIVE", "REJECTED", "DUPLICATE"}

scan_load(w) == WorkerStage[w] = "SCAN" /\ loads(w, ~ScanIsDone(docs[DocOf(w)].status))

\* The bytes are there: validate them, and remember their checksum.
scan_read(w) ==
    /\ WorkerStage[w] = "SCAN"
    /\ At(w, "read")
    /\ <<"quarantine", DocOf(w)>> \in store
    /\ task' = [task EXCEPT ![w] =
                  IF ContentOf[DocOf(w)] \in Valid
                  THEN [@ EXCEPT !.pc = "dedup", !.doc.sha = ContentOf[DocOf(w)]]
                  ELSE [@ EXCEPT !.pc = "reject"]]
    /\ UNCHANGED <<corpusVars, queueVars>>

\* The bytes cannot be read: VALIDATION_FAILED, and the job is retried.
scan_read_fails(w) ==
    /\ WorkerStage[w] = "SCAN"
    /\ At(w, "read")
    /\ "SCAN" \in StorageFaults \/ <<"quarantine", DocOf(w)>> \notin store
    /\ commits(w, [task[w].doc EXCEPT !.status = "VALIDATION_FAILED"], "transient")

(***************************************************************************)
(* Rejection: the row, the audit entry, then the object.                   *)
(***************************************************************************)
scan_reject(w) ==
    /\ At(w, "reject")
    /\ commits(w, [task[w].doc EXCEPT !.status = "REJECTED", !.quarantine = FALSE], "reject_audit")

scan_reject_audit(w) ==
    At(w, "reject_audit") /\ audits(w, DocOf(w), {"DOCUMENT_REJECTED"}, "reject_delete")

scan_reject_delete(w) ==
    /\ At(w, "reject_delete")
    /\ delete_object(<<"quarantine", DocOf(w)>>)
    /\ Goto(w, "ok")
    /\ UNCHANGED <<docs, chunks, audit, queueVars>>

(***************************************************************************)
(* Deduplication.                                                          *)
(***************************************************************************)

\* Mutant: the comparison is the wrong way round.
Escalates_Reversed(incoming, e) == is_stricter(docs[e].tier, incoming)

Escalates(incoming, e) == is_stricter(incoming, docs[e].tier)

\* _escalate_tier_if_stricter: set_classification on the canonical document,
\* then its audit entry; otherwise the handler goes on at pc.
escalates(w, e, auditPc, pc) ==
    IF Escalates(task[w].doc.tier, e)
    THEN /\ docs' = [docs EXCEPT ![e].tier = task[w].doc.tier]
         /\ task' = [task EXCEPT ![w].pc = auditPc, ![w].canonical = e]
    ELSE /\ task' = [task EXCEPT ![w].pc = pc, ![w].canonical = e]
         /\ UNCHANGED docs

scan_tier_audit(w) ==
    /\ At(w, "tier_audit")
    /\ audits(w, task[w].canonical, {"DOCUMENT_RECLASSIFIED"}, "duplicate")

scan_dedup(w) ==
    /\ At(w, "dedup")
    /\ LET others == get_by_checksum(task[w].doc.sha) \ {DocOf(w)}
       IN  \/ \E e \in others : escalates(w, e, "tier_audit", "duplicate")
           \/ others = {} /\ Goto(w, "promote") /\ UNCHANGED docs
    /\ UNCHANGED <<store, chunks, audit, queueVars>>

scan_duplicate(w) ==
    /\ At(w, "duplicate")
    /\ commits(w, [task[w].doc EXCEPT !.status = "DUPLICATE", !.quarantine = FALSE], "dup_delete")

scan_dup_delete(w) ==
    /\ At(w, "dup_delete")
    /\ delete_object(<<"quarantine", DocOf(w)>>)
    /\ Goto(w, "dup_audit")
    /\ UNCHANGED <<docs, chunks, audit, queueVars>>

scan_dup_audit(w) == At(w, "dup_audit") /\ audits(w, DocOf(w), {"DOCUMENT_REJECTED"}, "ok")

(***************************************************************************)
(* Promotion: copy unless the raw object is there, drop the quarantined    *)
(* object, then write VALIDATED.                                           *)
(***************************************************************************)

\* Mutant: a copy that failed is not noticed.
Copied_Unchecked(w) == store

\* What copy_object leaves in the store.
Copied(w) == store \cup {<<"raw", task[w].doc.sha>>}

scan_promote(w) ==
    /\ At(w, "promote")
    /\ <<"raw", task[w].doc.sha>> \in store \/ <<"quarantine", DocOf(w)>> \in store
    /\ store' = Copied(w)
    /\ Goto(w, "clear")
    /\ UNCHANGED <<docs, chunks, audit, queueVars>>

scan_promote_fails(w) ==
    /\ At(w, "promote")
    /\ \/ "SCAN" \in StorageFaults
       \/ <<"raw", task[w].doc.sha>> \notin store /\ <<"quarantine", DocOf(w)>> \notin store
    /\ commits(w, [task[w].doc EXCEPT !.status = "VALIDATION_FAILED"], "transient")

scan_clear(w) ==
    /\ At(w, "clear")
    /\ delete_object(<<"quarantine", DocOf(w)>>)
    /\ Goto(w, "validated")
    /\ UNCHANGED <<docs, chunks, audit, queueVars>>

Promoted(w) ==
    [task[w].doc EXCEPT !.status = "VALIDATED", !.raw = task[w].doc.sha, !.quarantine = FALSE]

\* The unique index decides a race between two copies: the loser goes to the
\* `except IntegrityError` branch.
scan_validated(w) ==
    /\ At(w, "validated")
    /\ IF IntegrityError(DocOf(w), Promoted(w))
       THEN Goto(w, "race_lost") /\ UNCHANGED docs
       ELSE Goto(w, "promoted_audit") /\ update_document(DocOf(w), Promoted(w))
    /\ UNCHANGED <<store, chunks, audit, queueVars>>

scan_race_lost(w) ==
    /\ At(w, "race_lost")
    /\ commits(w, [task[w].doc EXCEPT !.status = "DUPLICATE", !.quarantine = FALSE, !.raw = None],
               "race_escalate")

scan_race_escalate(w) ==
    /\ At(w, "race_escalate")
    /\ LET others == get_by_checksum(task[w].doc.sha) \ {DocOf(w)}
       IN  \/ \E e \in others : escalates(w, e, "race_tier_audit", "race_audit")
           \/ others = {} /\ Goto(w, "race_audit") /\ UNCHANGED docs
    /\ UNCHANGED <<store, chunks, audit, queueVars>>

scan_race_tier_audit(w) ==
    /\ At(w, "race_tier_audit")
    /\ audits(w, task[w].canonical, {"DOCUMENT_RECLASSIFIED"}, "race_audit")

\* Mutant: the race branch forgets its audit entry.
scan_race_audit_Missing(w) ==
    At(w, "race_audit") /\ Goto(w, "ok") /\ UNCHANGED <<corpusVars, queueVars>>

scan_race_audit(w) == At(w, "race_audit") /\ audits(w, DocOf(w), {"DOCUMENT_REJECTED"}, "ok")

scan_promoted_audit(w) ==
    /\ At(w, "promoted_audit")
    /\ audits(w, DocOf(w), {"VALIDATION_PASSED", "DOCUMENT_PROMOTED"}, "enqueue_extract")

\* Mutant: promotion does not queue EXTRACT.
scan_enqueue_Missing(w) ==
    At(w, "enqueue_extract") /\ Goto(w, "ok") /\ UNCHANGED <<corpusVars, queueVars>>

scan_enqueue(w) == At(w, "enqueue_extract") /\ enqueues(w, "EXTRACT", "ok")

ScanNext(w) ==
    \/ scan_load(w)
    \/ scan_read(w)
    \/ scan_read_fails(w)
    \/ scan_reject(w)
    \/ scan_reject_audit(w)
    \/ scan_reject_delete(w)
    \/ scan_dedup(w)
    \/ scan_tier_audit(w)
    \/ scan_duplicate(w)
    \/ scan_dup_delete(w)
    \/ scan_dup_audit(w)
    \/ scan_promote(w)
    \/ scan_promote_fails(w)
    \/ scan_clear(w)
    \/ scan_validated(w)
    \/ scan_race_lost(w)
    \/ scan_race_escalate(w)
    \/ scan_race_tier_audit(w)
    \/ scan_race_audit(w)
    \/ scan_promoted_audit(w)
    \/ scan_enqueue(w)
=============================================================================
