------------------------------- MODULE Access -------------------------------
(***************************************************************************)
(* Who sees which document, and who may change that: the tier and owner    *)
(* rule of access.py in its Python form, used when a document is fetched   *)
(* by id, and in its SQL form, used by lists and searches; the listings of *)
(* the documents table; and the requests that reclassify, hide, restore    *)
(* and erase a document while others read it, each as one step.            *)
(***************************************************************************)
EXTENDS Naturals, FiniteSets

CONSTANTS
    Docs,
    Users,      \* users of the application
    Admins,     \* those with the role ADMIN
    OwnerOf,    \* uploader_user_id of each document, or None
    CopyOf,     \* for a refused re-upload, the document it matched, or else None
    None,
    MaxChanges  \* bound: changes made to documents

ASSUME AccessAssumption ==
    /\ Admins \subseteq Users /\ None \notin Users \cup {"PUBLIC", "RESTRICTED"}
    /\ OwnerOf \in [Docs -> Users \cup {None}]
    /\ CopyOf \in [Docs -> Docs \cup {None}]
    /\ MaxChanges \in Nat

VARIABLES
    docs,       \* the columns of the documents table that readers depend on
    changes     \* how many changes so far

accessVars == <<docs, changes>>

\* None is a row from before there were tiers.  "replaced" is SUPERSEDED; "gone"
\* is a document whose Drive file is REMOVED.
DocRow == [tier: {"PUBLIC", "RESTRICTED", None}, deleted: BOOLEAN, purged: BOOLEAN,
           replaced: BOOLEAN, gone: BOOLEAN]

NewRow(t) == [tier |-> t, deleted |-> FALSE, purged |-> FALSE, replaced |-> FALSE, gone |-> FALSE]

AccessInit ==
    /\ docs \in [Docs -> {NewRow(t) : t \in {"PUBLIC", "RESTRICTED", None}}]
    /\ changes = 0

is_admin(u) == u \in Admins

Owns(u, d) == OwnerOf[d] # None /\ OwnerOf[d] = u

\* The rule for a document at hand,
can_view(u, d) == docs[d].tier # "RESTRICTED" \/ is_admin(u) \/ Owns(u, d)

\* Mutant: plain <>, which is not true of a missing tier.
visible_documents_clause_NotEqual(u, d) ==
    \/ is_admin(u)
    \/ docs[d].tier = "PUBLIC"
    \/ OwnerOf[d] = u

\* and as a WHERE clause: IS DISTINCT FROM 'RESTRICTED', or the viewer's own.
visible_documents_clause(u, d) ==
    \/ is_admin(u)
    \/ docs[d].tier \in {"PUBLIC", None}
    \/ OwnerOf[d] = u

_may_change(u, d) == Owns(u, d) \/ is_admin(u)

(***************************************************************************)
(* The listings.                                                           *)
(***************************************************************************)
list_paginated(u) == {d \in Docs : ~docs[d].deleted /\ visible_documents_clause(u, d)}

\* Mutant: replaced versions are offered, too.
list_deleted_Replaced(u) ==
    {d \in Docs : docs[d].deleted /\ ~docs[d].purged /\ CopyOf[d] = None
                  /\ (is_admin(u) \/ OwnerOf[d] = u)}

list_deleted(u) ==
    {d \in Docs : docs[d].deleted /\ ~docs[d].purged /\ ~docs[d].replaced /\ CopyOf[d] = None
                  /\ (is_admin(u) \/ OwnerOf[d] = u)}

_removed_from_drive(d) == docs[d].gone

\* GET /deleted marks those that only Drive can bring back.
list_deleted_documents(u) ==
    {[document |-> d, from_drive |-> _removed_from_drive(d)] : d \in list_deleted(u)}

\* GET /{document_id}, its passages and its bytes: by id, deleted or not.
fetched(u) == {d \in Docs : can_view(u, d) /\ ~docs[d].purged}

\* What the answer to a refused re-upload says of the document it matched.
_duplicate_of(u, d) ==
    {e \in Docs : CopyOf[d] = e /\ can_view(u, e) /\ ~docs[e].purged}

can_restore(u, e) ==
    /\ docs[e].deleted
    /\ _may_change(u, e)
    /\ ~docs[e].replaced
    /\ ~_removed_from_drive(e)

(***************************************************************************)
(* The requests, each with its checks in their order.                      *)
(***************************************************************************)
Changes(d, row) ==
    /\ changes < MaxChanges
    /\ changes' = changes + 1
    /\ docs' = [docs EXCEPT ![d] = row]

reclassify_document(u, d, t) ==
    /\ can_view(u, d) /\ _may_change(u, d)
    /\ ~docs[d].purged
    /\ docs[d].tier # t
    /\ Changes(d, [docs[d] EXCEPT !.tier = t])

\* The Drive connector hides a document: its file is gone, or was edited.
soft_delete(d, why) ==
    /\ ~docs[d].deleted /\ ~docs[d].purged
    /\ Changes(d, [docs[d] EXCEPT !.deleted = TRUE, !.gone = (why = "gone"),
                                  !.replaced = (why = "replaced")])

\* Whether POST /{document_id}/restore gets to its end.
restorable(u, d) ==
    /\ can_view(u, d) /\ _may_change(u, d)
    /\ ~docs[d].purged
    /\ docs[d].deleted
    /\ ~docs[d].replaced
    /\ ~_removed_from_drive(d)

restore_document(u, d) ==
    /\ restorable(u, d)
    /\ Changes(d, [docs[d] EXCEPT !.deleted = FALSE])

Tombstone(row) == [row EXCEPT !.purged = TRUE, !.deleted = TRUE]

\* DELETE /{document_id}, whose steps are in Api: the row becomes a tombstone, and
\* so do the refused re-uploads of it.
purge(u, d) ==
    /\ can_view(u, d) /\ _may_change(u, d)
    /\ ~docs[d].purged
    /\ changes < MaxChanges
    /\ changes' = changes + 1
    /\ docs' = [e \in Docs |-> IF e = d \/ CopyOf[e] = d THEN Tombstone(docs[e]) ELSE docs[e]]

AccessNext ==
    \E d \in Docs :
        \/ \E why \in {"gone", "replaced", "deleted"} : soft_delete(d, why)
        \/ \E u \in Users :
              \/ \E t \in {"PUBLIC", "RESTRICTED"} : reclassify_document(u, d, t)
              \/ restore_document(u, d)
              \/ purge(u, d)

(***************************************************************************)
(* Properties.                                                             *)
(***************************************************************************)

\* "What restore would accept": whatever happened to a document, one offered for
\* restoring, in the list of deleted ones or to somebody whose upload was refused
\* as a copy of it, is one the restore request accepts from the same person.
OfferIsKept ==
    \A u \in Users :
        /\ \A x \in list_deleted_documents(u) : x.from_drive \/ restorable(u, x.document)
        /\ \A d \in Docs : \A e \in _duplicate_of(u, d) : can_restore(u, e) => restorable(u, e)

\* "The two forms must agree on the awkward cases": a list never shows what its
\* reader could not open by id, and hides nothing but what is deleted.
ListIsWhatOpens ==
    \A u \in Users :
        list_paginated(u) = {d \in fetched(u) : ~docs[d].deleted}
=============================================================================
