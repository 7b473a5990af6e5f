------------------------------ MODULE DriveSync -----------------------------
(***************************************************************************)
(* The Google Drive connector (DriveSyncService), over the documents of    *)
(* DocumentLife.  A pass, by the nightly worker or by hand, lists the two  *)
(* watched trees, imports what is new or edited, retires what is gone and  *)
(* settles what the pipeline has made of earlier imports.  Every commit is *)
(* a step of its own; between two of them people edit and move files,      *)
(* reclassify, restore and erase documents, the pipeline goes on, and the  *)
(* process may die.                                                        *)
(***************************************************************************)
EXTENDS DocumentLife, FiniteSets, FiniteSetsExt

CONSTANTS
    Files,          \* Drive file ids
    Native,         \* the Google-native files: no checksum, only a modified time
    Unexportable,   \* contents the listing shows cannot be imported (type, size)
    Unreadable,     \* contents that turn out to be no document once fetched
    Syncers,        \* "worker" (drive_sync_worker) and "manual" (drive_sync.py)
    Limit,          \* drive_sync.py --limit, or None
    MaxStalls,      \* bound: scans that cannot be carried out at first
    MaxChanges,     \* bound: edits and moves in Drive
    MaxByHand,      \* bound: documents reclassified, restored or erased through the API
    MaxErrors,      \* bound: exceptions while syncing one file
    MaxCrashes,     \* bound: passes that die
    MaxEvents       \* bound: all of these together

ASSUME DriveAssumption ==
    /\ Docs \subseteq Nat          \* document_ids in the order of imported_at
    /\ Native \subseteq Files
    /\ Unexportable \cup Unreadable \subseteq Contents
    /\ Limit \in Nat \cup {None}
    /\ None \notin Docs \cup Files \cup Contents
    /\ {MaxChanges, MaxByHand, MaxErrors, MaxCrashes, MaxStalls, MaxEvents} \subseteq Nat

VARIABLES
    drive,      \* what Drive holds: watched folders, content, checksum or time
    rows,       \* the drive_files table
    versions,   \* the drive_file_versions table, by document
    tier,       \* documents.classification
    hidden,     \* documents.deleted_at is set
    pass,       \* where each syncer is in its pass
    restoring,  \* documents whose restore through the API is past its checks
    byHand,     \* documents reclassified, restored or erased by hand
    atWork,     \* documents superseded while a stage may have been at work on them
    changes, errors, crashes, stalls   \* how many of each so far

syncVars == <<rows, versions, pass>>
docVars == <<life, content, tier, hidden>>
handVars == <<restoring, byHand, atWork>>
counts == <<changes, errors, crashes, stalls>>
driveVars == <<lifeVars, drive, rows, versions, tier, hidden, pass, handVars, counts>>

Tiers == {"PUBLIC", "RESTRICTED"}
is_stricter(candidate, current) == candidate = "RESTRICTED" /\ current = "PUBLIC"

DriveFileState == {"IMPORTED", "SKIPPED", "REMOVED", "FAILED"}
VersionState == {"PENDING", "CURRENT", "SUPERSEDED", "REMOVED", "DUPLICATE", "FAILED"}

NoRow == [state |-> "none", doc |-> None, mark |-> None, tier |-> None]
NoVersion == [state |-> "none", file |-> None, mark |-> None]
NoPass == [pc |-> "idle", limited |-> FALSE, found |-> [f \in Files |-> None],
           todo |-> {}, file |-> None, doc |-> None, left |-> {}]

DriveInit ==
    /\ LifeInit
    /\ drive \in [Files -> [folders: SUBSET Tiers, content: Contents \ (Unexportable \cup Unreadable),
                            mark: {0}]]
    /\ rows = [f \in Files |-> NoRow]
    /\ versions = [d \in Docs |-> NoVersion]
    /\ tier = [d \in Docs |-> None]
    /\ hidden = [d \in Docs |-> FALSE]
    /\ pass = [s \in Syncers |-> NoPass]
    /\ restoring = {}
    /\ byHand = {}
    /\ atWork = {}
    /\ changes = 0 /\ errors = 0 /\ crashes = 0 /\ stalls = 0

\* purged_at is set: of the document only the row is left, its status as it was.
Erased(d) == life[d] # "absent" /\ content[d] = None

Happens == changes + Cardinality(byHand) + errors + crashes + stalls < MaxEvents

(***************************************************************************)
(* People in Drive.  The checksum of an ordinary file is its content; a    *)
(* Google-native file only has a modified time, new with every edit.       *)
(***************************************************************************)
Changes(f, now) ==
    /\ changes < MaxChanges /\ Happens
    /\ drive[f] # now
    /\ drive' = [drive EXCEPT ![f] = now]
    /\ changes' = changes + 1
    /\ UNCHANGED <<docVars, syncVars, handVars, errors, crashes, stalls>>

edits(f, c) ==
    Changes(f, [drive[f] EXCEPT !.content = c,
                                !.mark = IF f \in Native THEN drive[f].mark + 1 ELSE 0])

moves(f, folders) == Changes(f, [drive[f] EXCEPT !.folders = folders])

\* The file's name for its present content: drive_md5, or drive_modified_time.
Mark(f) == <<drive[f].content, drive[f].mark>>

(***************************************************************************)
(* What a pass reads.                                                      *)
(***************************************************************************)
Versions(f) == {d \in Docs : versions[d].file = f}
InState(f, states) == {d \in Versions(f) : versions[d].state \in states}
Newest(f) == Max(Versions(f))

\* Mutant: a version still in the pipeline is overlooked.
Visibles_Current(f) ==
    IF InState(f, {"CURRENT"}) # {} THEN InState(f, {"CURRENT"}) ELSE {rows[f].doc}

\* The versions people see or may come to see, or else the file's last import.
Visibles(f) ==
    LET tracked == InState(f, {"CURRENT", "PENDING"})
    IN  IF tracked # {} THEN tracked ELSE {rows[f].doc}

\* Mutant: an edit made and undone during a pass goes unnoticed in every file.
_content_changed_Checksum(f, item) == item.mark[1] # rows[f].mark[1]

\* The same Drive file, as listed, next to what was recorded of it.
_content_changed(f, item) ==
    IF f \in Native THEN item.mark[2] # rows[f].mark[2] ELSE item.mark[1] # rows[f].mark[1]

IsKnown(f) == rows[f].doc # None /\ rows[f].state \in {"IMPORTED", "REMOVED"}

IsUnchanged(f, item) == IsKnown(f) /\ ~_content_changed(f, item)

_inherited_tier(f, item) ==
    IF /\ rows[f].state = "IMPORTED"
       /\ rows[f].doc # None
       /\ rows[f].tier = item.tier
       /\ is_stricter(tier[rows[f].doc], item.tier)
    THEN tier[rows[f].doc] ELSE item.tier

(***************************************************************************)
(* Starting a pass and listing.                                            *)
(***************************************************************************)
At(s, pc) == pass[s].pc = pc
Goes(s, now) == pass' = [pass EXCEPT ![s] = now]

\* Mutant: nobody asks for the advisory lock.
sync_lock_Ignored(s) == s \in Syncers

sync_lock(s) == \A t \in Syncers : At(t, "idle")

sync_once(s, limited) ==
    /\ At(s, "idle")
    /\ sync_lock(s)
    /\ limited => s = "manual" /\ Limit # None
    /\ Goes(s, [NoPass EXCEPT !.pc = "PUBLIC", !.limited = limited])
    /\ UNCHANGED <<docVars, drive, rows, versions, handVars, counts>>

\* A file in both trees is listed once, at the stricter tier.
Listed(found, t) ==
    [f \in Files |->
        IF t \in drive[f].folders /\ (found[f] = None \/ is_stricter(t, found[f].tier))
        THEN [mark |-> Mark(f), tier |-> t] ELSE found[f]]

list_public(s) ==
    /\ At(s, "PUBLIC")
    /\ Goes(s, [pass[s] EXCEPT !.pc = "RESTRICTED", !.found = Listed(@, "PUBLIC")])
    /\ UNCHANGED <<docVars, drive, rows, versions, handVars, counts>>

\* items[:limit], in the order of names.
Taken(found, limited) ==
    LET all == {f \in Files : found[f] # None}
    IN  IF limited /\ Cardinality(all) > Limit THEN kSubset(Limit, all) ELSE {all}

list_restricted(s) ==
    /\ At(s, "RESTRICTED")
    /\ LET found == Listed(pass[s].found, "RESTRICTED")
       IN  \E todo \in Taken(found, pass[s].limited) :
              Goes(s, [pass[s] EXCEPT !.pc = "files", !.found = found, !.todo = todo])
    /\ UNCHANGED <<docVars, drive, rows, versions, handVars, counts>>

(***************************************************************************)
(* One listed file: _sync_one.                                             *)
(***************************************************************************)
Item(s, f) == pass[s].found[f]

\* On to the next file.
FileDone(s, f) == Goes(s, [pass[s] EXCEPT !.pc = "files", !.todo = @ \ {f}, !.file = None,
                                          !.doc = None, !.left = {}])

_record(s, f, state, d) ==
    rows' = [rows EXCEPT ![f] = [state |-> state, doc |-> IF d = None THEN @.doc ELSE d,
                                 mark |-> Item(s, f).mark, tier |-> Item(s, f).tier]]

\* Same content, same folder, not removed: the row is written as it was.
sync_unchanged(s, f) ==
    /\ At(s, "files") /\ f \in pass[s].todo
    /\ IsUnchanged(f, Item(s, f))
    /\ rows[f].state = "IMPORTED" /\ rows[f].tier = Item(s, f).tier
    /\ _record(s, f, "IMPORTED", None)
    /\ FileDone(s, f)
    /\ UNCHANGED <<docVars, drive, versions, handVars, counts>>

\* _restore, for a file that is back: the last removed version or else the last
\* import becomes visible again, unless it is erased, and then its version is
\* PENDING once more.
RemovedDoc(f) ==
    IF InState(f, {"REMOVED"}) # {} THEN Max(InState(f, {"REMOVED"})) ELSE rows[f].doc

_restore_document(s, f) ==
    /\ At(s, "files") /\ f \in pass[s].todo
    /\ IsUnchanged(f, Item(s, f))
    /\ rows[f].state = "REMOVED"
    /\ hidden' = [hidden EXCEPT ![RemovedDoc(f)] = @ /\ Erased(RemovedDoc(f))]
    /\ Goes(s, [pass[s] EXCEPT !.pc = "restored", !.file = f, !.doc = RemovedDoc(f)])
    /\ UNCHANGED <<lifeVars, tier, drive, rows, versions, handVars, counts>>

_restore_version(s) ==
    /\ At(s, "restored")
    /\ versions' = [versions EXCEPT ![pass[s].doc].state =
                        IF @ = "REMOVED" THEN "PENDING" ELSE @]
    /\ Goes(s, [pass[s] EXCEPT !.pc = IF rows[pass[s].file].tier = Item(s, pass[s].file).tier
                                      THEN "record" ELSE "targets"])
    /\ UNCHANGED <<docVars, drive, rows, handVars, counts>>

\* _reclassify, for a file that moved: every version that is or may become
\* visible, one at a time.
MayReclassify(s, f, d) ==
    \/ /\ At(s, "files") /\ f \in pass[s].todo
       /\ IsUnchanged(f, Item(s, f))
       /\ rows[f].state = "IMPORTED" /\ rows[f].tier # Item(s, f).tier
       /\ d \in Visibles(f)
    \/ At(s, "targets") /\ f = pass[s].file /\ d \in Visibles(f)
    \/ At(s, "reclassify") /\ f = pass[s].file /\ d \in pass[s].left

_reclassify(s, f) ==
    \E d \in Docs :
        /\ MayReclassify(s, f, d)
        /\ tier' = [tier EXCEPT ![d] = IF Erased(d) THEN @ ELSE Item(s, f).tier]
        /\ LET left == (IF At(s, "reclassify") THEN pass[s].left ELSE Visibles(f)) \ {d}
           IN  Goes(s, [pass[s] EXCEPT !.pc = IF left = {} THEN "record" ELSE "reclassify",
                                       !.file = f, !.left = left])
        /\ UNCHANGED <<lifeVars, hidden, drive, rows, versions, handVars, counts>>

_record_unchanged(s) ==
    /\ At(s, "record")
    /\ _record(s, pass[s].file, "IMPORTED", None)
    /\ FileDone(s, pass[s].file)
    /\ UNCHANGED <<docVars, drive, versions, handVars, counts>>

\* A type or a size that the listing rules out, or bytes that are no document.
sync_skips(s, f) ==
    /\ At(s, "files") /\ f \in pass[s].todo
    /\ ~IsUnchanged(f, Item(s, f))
    /\ Item(s, f).mark[1] \in Unexportable \/ drive[f].content \in Unreadable
    /\ _record(s, f, "SKIPPED", None)
    /\ FileDone(s, f)
    /\ UNCHANGED <<docVars, drive, versions, handVars, counts>>

\* UploadService.receive of what the file holds by now.
sync_receives(s, f) ==
    LET d == Min({e \in Docs : life[e] = "absent"})
    IN  /\ At(s, "files") /\ f \in pass[s].todo
        /\ \E e \in Docs : life[e] = "absent"
        /\ ~IsUnchanged(f, Item(s, f))
        /\ Item(s, f).mark[1] \notin Unexportable
        /\ drive[f].content \notin Unreadable
        /\ Receives_(d, drive[f].content)
        /\ tier' = [tier EXCEPT ![d] = _inherited_tier(f, Item(s, f))]
        /\ Goes(s, [pass[s] EXCEPT !.pc = "received", !.file = f, !.doc = d])
        /\ UNCHANGED <<hidden, drive, rows, versions, handVars, counts>>

sync_records(s) ==
    /\ At(s, "received")
    /\ _record(s, pass[s].file, "IMPORTED", pass[s].doc)
    /\ Goes(s, [pass[s] EXCEPT !.pc = "recorded"])
    /\ UNCHANGED <<docVars, drive, versions, handVars, counts>>

sync_adds_version(s) ==
    /\ At(s, "recorded")
    /\ versions' = [versions EXCEPT ![pass[s].doc] =
                       [state |-> "PENDING", file |-> pass[s].file,
                        mark |-> Item(s, pass[s].file).mark]]
    /\ FileDone(s, pass[s].file)
    /\ UNCHANGED <<docVars, drive, rows, handVars, counts>>

\* An exception over one file: a failed download, a refused commit.  What was
\* committed stays, and the file is recorded as FAILED.
sync_fails(s, f) ==
    /\ errors < MaxErrors /\ Happens
    /\ \/ At(s, "files") /\ f \in pass[s].todo
       \/ /\ pass[s].pc \in {"received", "recorded", "restored", "targets", "reclassify", "record"}
          /\ f = pass[s].file
    /\ errors' = errors + 1
    /\ _record(s, f, "FAILED", None)
    /\ FileDone(s, f)
    /\ UNCHANGED <<docVars, drive, versions, handVars, changes, crashes, stalls>>

(***************************************************************************)
(* Files that are gone: _retire_vanished, never on a limited pass.         *)
(***************************************************************************)
Vanished(s) ==
    {f \in Files : rows[f].state = "IMPORTED" /\ Item(s, f) = None /\ ~pass[s].limited}

\* With nothing to retire the pass goes straight on to what is pending.
AfterRetiring(s, left, gone) ==
    IF left # {} THEN [pass[s] EXCEPT !.pc = "retire", !.todo = left, !.file = None]
    ELSE [pass[s] EXCEPT !.pc = "reconcile", !.file = None,
                         !.todo = {f \in Files \ gone : InState(f, {"PENDING"}) # {}}]

files_done(s) ==
    /\ At(s, "files") /\ pass[s].todo = {}
    /\ Goes(s, AfterRetiring(s, Vanished(s), {}))
    /\ UNCHANGED <<docVars, drive, rows, versions, handVars, counts>>

_retire_vanished(s, f) ==
    LET left == IF At(s, "retire") THEN Visibles(f) ELSE pass[s].left
    IN  /\ \/ At(s, "retire") /\ f \in pass[s].todo
           \/ At(s, "hide") /\ f = pass[s].file
        /\ \E d \in left :
              /\ hidden' = [hidden EXCEPT ![d] = TRUE]
              /\ Goes(s, [pass[s] EXCEPT !.pc = IF left = {d} THEN "retired" ELSE "hide",
                                         !.file = f, !.left = left \ {d}])
        /\ UNCHANGED <<lifeVars, tier, drive, rows, versions, handVars, counts>>

_retire_marks(s) ==
    /\ At(s, "retired")
    /\ LET f == pass[s].file
       IN  /\ versions' = [d \in Docs |->
                              IF d \in InState(f, {"CURRENT", "PENDING"})
                              THEN [versions[d] EXCEPT !.state = "REMOVED"] ELSE versions[d]]
           /\ rows' = [rows EXCEPT ![f].state = "REMOVED"]
           /\ Goes(s, AfterRetiring(s, pass[s].todo \ {f}, {f}))
    /\ UNCHANGED <<docVars, drive, handVars, counts>>

(***************************************************************************)
(* Settling what earlier passes imported: reconcile.                       *)
(***************************************************************************)
\* Mutant: only what the scan says is a failure.
_FAILED_STATUSES_OfScan == {"stalled", "refused"}

\* (A REJECTED document takes the step Fails here: the connector treats it alike.)
_FAILED_STATUSES == {"stalled", "refused", "failed"}

\* The version row of d once the pipeline's verdict on it is written down.
Settled(d) ==
    IF versions[d].state # "PENDING" THEN versions[d]
    ELSE IF life[d] = "duplicate" THEN [versions[d] EXCEPT !.state = "DUPLICATE"]
    ELSE IF life[d] \in _FAILED_STATUSES THEN [versions[d] EXCEPT !.state = "FAILED"]
    ELSE versions[d]

SettledIn(f) == [d \in Docs |-> IF d \in Versions(f) THEN Settled(d) ELSE versions[d]]

\* Mutant: the newest version takes over before the pipeline is done with it.
TakesOver_Pending(f) == Settled(Newest(f)).state = "PENDING"

TakesOver(f) == Settled(Newest(f)).state = "PENDING" /\ life[Newest(f)] = "live"

\* The versions the newest one is to replace, before and after settling.
Older(f) == {d \in Versions(f) \ {Newest(f)} : Settled(d).state \in {"CURRENT", "PENDING"}}

StillOlder(f) == InState(f, {"CURRENT", "PENDING"}) \ {Newest(f)}

WithState(ds, state) ==
    [d \in Docs |-> IF d \in ds THEN [versions[d] EXCEPT !.state = state] ELSE versions[d]]

Reconciled(s, f) == Goes(s, [pass[s] EXCEPT !.pc = "reconcile", !.todo = @ \ {f}, !.file = None,
                                            !.doc = None])

\* Nothing to replace: what was settled is committed.
_reconcile_file(s) ==
    /\ At(s, "reconcile")
    /\ \E f \in pass[s].todo :
          /\ TakesOver(f) => Older(f) = {}
          /\ versions' = IF TakesOver(f) THEN [SettledIn(f) EXCEPT ![Newest(f)].state = "CURRENT"]
                         ELSE SettledIn(f)
          /\ Reconciled(s, f)
    /\ UNCHANGED <<docVars, drive, rows, handVars, counts>>

\* _supersede, once per older version, oldest first: its status, then deleted_at.
\* An erased one is passed over.
Supersedes(s, f, left) ==
    LET d == Min(left)
    IN  /\ life' = [life EXCEPT ![d] = IF Erased(d) THEN @ ELSE "superseded"]
        /\ atWork' = IF life[d] \in {"received", "stalled", "accepted"} /\ ~Erased(d)
                     THEN atWork \cup {d} ELSE atWork
        /\ Goes(s, [pass[s] EXCEPT !.pc = "superseded", !.file = f, !.doc = d,
                                   !.left = left \ {d}])
        /\ UNCHANGED <<content, tier, hidden, drive, rows, restoring, byHand, counts>>

\* What was settled goes out with the first commit,
_reconcile_replaces(s) ==
    /\ At(s, "reconcile")
    /\ \E f \in pass[s].todo :
          /\ TakesOver(f) /\ Older(f) # {}
          /\ versions' = SettledIn(f)
          /\ Supersedes(s, f, Older(f))

\* and the version row of each older version with the next.
_supersede(s) ==
    /\ At(s, "supersede")
    /\ versions' = WithState(StillOlder(pass[s].file) \ pass[s].left, "SUPERSEDED")
    /\ Supersedes(s, pass[s].file, pass[s].left)

AfterHiding(s) == Goes(s, [pass[s] EXCEPT !.pc = IF pass[s].left = {} THEN "settle" ELSE "supersede"])

\* Mutant: the older version is only renamed.
_supersede_hides_Not(s) ==
    /\ At(s, "superseded")
    /\ AfterHiding(s)
    /\ UNCHANGED <<docVars, drive, rows, versions, handVars, counts>>

_supersede_hides(s) ==
    /\ At(s, "superseded")
    /\ hidden' = [hidden EXCEPT ![pass[s].doc] = TRUE]
    /\ AfterHiding(s)
    /\ UNCHANGED <<lifeVars, tier, drive, rows, versions, handVars, counts>>

_reconcile_settles(s) ==
    /\ At(s, "settle")
    /\ LET f == pass[s].file
       IN  /\ versions' = [WithState(StillOlder(f), "SUPERSEDED") EXCEPT
                              ![Newest(f)].state = "CURRENT"]
           /\ Reconciled(s, f)
    /\ UNCHANGED <<docVars, drive, rows, handVars, counts>>

\* The lock goes with the transaction, at the end of the pass or of the process.
sync_ends(s) ==
    /\ At(s, "reconcile") /\ pass[s].todo = {}
    /\ Goes(s, NoPass)
    /\ UNCHANGED <<docVars, drive, rows, versions, handVars, counts>>

sync_dies(s) ==
    /\ ~At(s, "idle")
    /\ crashes < MaxCrashes /\ Happens
    /\ crashes' = crashes + 1
    /\ Goes(s, NoPass)
    /\ UNCHANGED <<docVars, drive, rows, versions, handVars, changes, errors, stalls>>

(***************************************************************************)
(* The API: reclassify_document, restore_document, whose checks and write  *)
(* are two transactions, and delete_document.                              *)
(***************************************************************************)
reclassify_document(d, t) ==
    /\ Cardinality(byHand) < MaxByHand /\ Happens
    /\ life[d] # "absent" /\ ~Erased(d)
    /\ tier[d] # t
    /\ tier' = [tier EXCEPT ![d] = t]
    /\ byHand' = byHand \cup {d}
    /\ UNCHANGED <<lifeVars, hidden, drive, syncVars, restoring, atWork, counts>>

_removed_from_drive(d) ==
    versions[d].state # "none" /\ rows[versions[d].file].state = "REMOVED"

restore_checks(d) ==
    /\ Cardinality(byHand) < MaxByHand /\ Happens
    /\ hidden[d] /\ ~Erased(d)
    /\ life[d] # "superseded"
    /\ ~_removed_from_drive(d)
    /\ restoring' = restoring \cup {d}
    /\ byHand' = byHand \cup {d}
    /\ UNCHANGED <<docVars, drive, syncVars, atWork, counts>>

restore_writes(d) ==
    /\ d \in restoring
    /\ hidden' = [hidden EXCEPT ![d] = @ /\ Erased(d)]
    /\ restoring' = restoring \ {d}
    /\ UNCHANGED <<lifeVars, tier, drive, syncVars, byHand, atWork, counts>>

\* The document and its refused re-uploads, for good; status and tier stay.  (A
\* stage at work on it answers the request with BUSY: no step.  Erasing takes
\* several commits, which Ingestion has one by one.)
ErasedAlong(d) == {d} \cup {e \in Docs : life[e] = "duplicate" /\ content[e] = content[d]}

delete_document(d) ==
    /\ Cardinality(byHand) < MaxByHand /\ Happens
    /\ life[d] # "absent" /\ ~Erased(d)
    /\ content' = [e \in Docs |-> IF e \in ErasedAlong(d) THEN None ELSE content[e]]
    /\ hidden' = [e \in Docs |-> hidden[e] \/ e \in ErasedAlong(d)]
    /\ byHand' = byHand \cup ErasedAlong(d)
    /\ atWork' = atWork \ ErasedAlong(d)
    /\ UNCHANGED <<life, tier, drive, syncVars, restoring, counts>>

(***************************************************************************)
(* The pipeline.  The scan of a duplicate raises the tier of the document  *)
(* it duplicates, and a stage that was at work when its document was       *)
(* superseded writes its own status over that.                             *)
(***************************************************************************)
Piped(step) == step /\ UNCHANGED <<tier, hidden, drive, syncVars, handVars, counts>>

scan_finds_duplicate(d) ==
    /\ Duplicates(d)
    /\ \E e \in Originals(d) :
          tier' = [tier EXCEPT ![e] = IF is_stricter(tier[d], @) THEN tier[d] ELSE @]
    /\ UNCHANGED <<hidden, drive, syncVars, handVars, counts>>

\* (An erased document has no job left, and none is queued for it again.)
PipelineStep(d) ==
    /\ ~Erased(d)
    /\ \/ scan_finds_duplicate(d)
       \/ Piped(Accepts(d) \/ Fails(d) \/ GoesLive(d))

\* VALIDATION_FAILED, which a retry of the scan may still get past.
ScanStalls(d) ==
    /\ stalls < MaxStalls /\ Happens
    /\ life[d] = "received" /\ ~Erased(d)
    /\ Stalls(d)
    /\ stalls' = stalls + 1
    /\ UNCHANGED <<tier, hidden, drive, syncVars, handVars, changes, errors, crashes>>

StageWritesBack(d) ==
    /\ d \in atWork
    /\ Holders(content[d]) = {}
    /\ Moves(d, {"superseded"}, "accepted")
    /\ atWork' = atWork \ {d}
    /\ UNCHANGED <<content, tier, hidden, drive, syncVars, restoring, byHand, counts>>

PassStep(s) ==
    \/ list_public(s) \/ list_restricted(s)
    \/ \E f \in Files :
          \/ sync_unchanged(s, f) \/ _restore_document(s, f) \/ _reclassify(s, f)
          \/ sync_skips(s, f) \/ sync_receives(s, f) \/ _retire_vanished(s, f)
    \/ _restore_version(s) \/ _record_unchanged(s) \/ sync_records(s) \/ sync_adds_version(s)
    \/ files_done(s) \/ _retire_marks(s)
    \/ _reconcile_file(s) \/ _reconcile_replaces(s)
    \/ _supersede(s) \/ _supersede_hides(s) \/ _reconcile_settles(s) \/ sync_ends(s)

PassFails(s) == sync_dies(s) \/ \E f \in Files : sync_fails(s, f)

DriveNext ==
    \/ \E f \in Files :
          \/ \E c \in Contents : edits(f, c)
          \/ \E folders \in SUBSET Tiers : moves(f, folders)
    \/ \E s \in Syncers :
          \/ \E limited \in BOOLEAN : sync_once(s, limited)
          \/ PassStep(s) \/ PassFails(s)
    \/ \E d \in Docs :
          \/ \E t \in Tiers : reclassify_document(d, t)
          \/ restore_checks(d) \/ restore_writes(d) \/ delete_document(d)
          \/ PipelineStep(d) \/ ScanStalls(d) \/ StageWritesBack(d)

DriveSpec == DriveInit /\ [][DriveNext]_driveVars

(***************************************************************************)
(* Fairness: the worker goes on trying for its pass whenever it is due and *)
(* the lock is free, a pass that runs goes on, and the pipeline comes to a *)
(* verdict on every document (EveryDocumentSettles in Ingestion).  Nothing *)
(* is assumed of people, errors, crashes and stalls.                       *)
(***************************************************************************)
DriveFairness ==
    /\ SF_driveVars(sync_once("worker", FALSE))
    /\ \A s \in Syncers : WF_driveVars(PassStep(s))
    /\ \A d \in Docs : WF_driveVars(PipelineStep(d))

FairDriveSpec == DriveSpec /\ DriveFairness

(***************************************************************************)
(* Properties.                                                             *)
(***************************************************************************)
Visible(d) == life[d] = "live" /\ ~hidden[d]

\* Search filters on deleted_at, not on status: once a version is CURRENT, no
\* version it replaced is seen again, whatever a slow stage, a crash of the
\* pass or another pass writes, unless somebody restores it by hand.
ReplacedStaysHidden ==
    \A f \in Files : \A d \in InState(f, {"SUPERSEDED"}) : d \notin byHand => ~Visible(d)

\* "the price of never leaving a file with nothing visible": as long as no pass
\* was cut short, a version only leaves search when somebody erases it, when the
\* file is not in the pass's listing, or when another version of the file is
\* visible; else the newest version, which was to be that other, is one that
\* somebody has erased: its status, which is all that reconcile reads, stays LIVE.
NeverBlank ==
    [][\A f \in Files : \A d \in Versions(f) :
          crashes = 0 /\ ~hidden[d] /\ hidden'[d] =>
              \/ Erased(d)'
              \/ \E s \in Syncers : pass[s].pc \in {"retire", "hide"} /\ Item(s, f) = None
              \/ \E e \in Versions(f) \ {d} : Visible(e)
              \/ Erased(Newest(f))]_driveVars

\* Two passes never import one revision twice: of a Google-native file, whose
\* modified time names a revision, no two versions have the same, if no file
\* ever failed.
ImportedOnce ==
    \A f \in Native : \A d, e \in Versions(f) :
        errors = 0 /\ d # e => versions[d].mark[2] # versions[e].mark[2]

\* No pass was cut short and no file has failed so far.
Smooth == errors = 0 /\ crashes = 0

\* "including one still processing, which would otherwise finish embedding and
\* appear in search for a file that is gone": nothing of a removed file is seen,
\* except what had been written off before and goes live after all (ScanStalls).
RetiredIsHidden ==
    \A f \in Files :
        rows[f].state = "REMOVED" /\ Smooth /\ (\A s \in Syncers : pass[s].file # f) =>
            \A d \in Versions(f) \ (byHand \cup InState(f, {"FAILED"})) : ~Visible(d)

ThroughFiles(s) == pass[s].pc \in {"reconcile", "superseded", "supersede", "settle"}

\* "a pending version would otherwise settle at the tier it was imported with
\* and quietly undo the move": once a pass is through its files, the newest
\* version, visible or still to become so, is as restricted as the folder it was
\* listed in, unless somebody has reclassified it.
FolderTierHolds ==
    \A s \in Syncers, f \in Files :
        ThroughFiles(s) /\ ~pass[s].limited /\ Smooth /\ Item(s, f) # None
        /\ rows[f].state = "IMPORTED" =>
            \A d \in InState(f, {"CURRENT", "PENDING"}) \ byHand :
                d = Newest(f) => ~is_stricter(Item(s, f).tier, tier[d])

\* What the connector is for: once people leave Drive alone, every file in a
\* watched folder is imported as it is by then and at its folder's tier, however
\* often passes failed or died before.  (For a file with a checksum not quite: an
\* edit between listing and download, undone before the next pass, is kept.)
FolderTier(f) == IF "RESTRICTED" \in drive[f].folders THEN "RESTRICTED" ELSE "PUBLIC"

UpToDate(f) ==
    /\ rows[f].state = "IMPORTED"
    /\ rows[f].mark = Mark(f)
    /\ rows[f].tier = FolderTier(f)
    /\ content[rows[f].doc] = drive[f].content

CatchesUp ==
    \A f \in Files :
        <>[](drive[f].folders # {} /\ drive[f].content \notin Unexportable \cup Unreadable
                => UpToDate(f))

\* and the newest version of every file gets its verdict.
NewestSettles ==
    \A f \in Files : <>[](Versions(f) # {} => versions[Newest(f)].state # "PENDING")

(***************************************************************************)
(* Said of the code, and not kept by it.                                   *)
(***************************************************************************)

\* "Soft-deletes documents whose Drive file is no longer in the watched folders":
\* once a full pass has retired what it did not find, nothing of it is visible.
GoneIsHidden ==
    \A s \in Syncers, f \in Files :
        At(s, "reconcile") /\ ~pass[s].limited /\ Item(s, f) = None =>
            \A d \in Versions(f) : ~Visible(d)
====
