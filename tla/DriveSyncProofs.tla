--------------------------- MODULE DriveSyncProofs --------------------------
(***************************************************************************)
(* Proofs about the Drive connector: what is replaced or retired stays     *)
(* hidden, a revision is imported once, a file's versions are as           *)
(* restricted as its folder, and no file is left blank, for any files,     *)
(* contents, syncers, edits, errors and crashes.                           *)
(***************************************************************************)
EXTENDS DriveSync, SequenceLemmas

(***************************************************************************)
(* Types, and what a pass knows at each of its steps.                      *)
(***************************************************************************)
Marks == Contents \X Nat
Items == [mark: Marks, tier: Tiers]
DriveFiles == [folders: SUBSET Tiers, content: Contents, mark: Nat]
FileRows == [state: DriveFileState \cup {"none"}, doc: Docs \cup {None},
             mark: Marks \cup {None}, tier: Tiers \cup {None}]
VersionRows == [state: VersionState \cup {"none"}, file: Files \cup {None},
                mark: Marks \cup {None}]

\* Where a pass is: between files, on a listed one, on one that is gone, or replacing.
OnListed == {"received", "recorded", "restored", "targets", "reclassify", "record"}
OnKnown == {"restored", "targets", "reclassify", "record"}
OnGone == {"hide", "retired"}
Replacing == {"superseded", "supersede", "settle"}
Between == {"idle", "PUBLIC", "RESTRICTED", "files", "retire", "reconcile"}

\* A pass, whatever it is at.
PassStates == [pc: Between \cup OnListed \cup OnGone \cup Replacing, limited: BOOLEAN,
               found: [Files -> Items \cup {None}], todo: SUBSET Files,
               file: Files \cup {None}, doc: Docs \cup {None}, left: SUBSET Docs]

\* What each part of the state is made of.
DriveTypes ==
    /\ life \in [Docs -> Lives]
    /\ drive \in [Files -> DriveFiles]
    /\ rows \in [Files -> FileRows]
    /\ versions \in [Docs -> VersionRows]
    /\ tier \in [Docs -> Tiers \cup {None}]
    /\ hidden \in [Docs -> BOOLEAN]
    /\ pass \in [Syncers -> PassStates]
    /\ restoring \subseteq byHand /\ byHand \subseteq Docs
    /\ errors \in Nat /\ crashes \in Nat

\* What a pass p at each of its steps has in hand: the file, its listing, its record, the
\* documents left to do.
PassFits(p) ==
    /\ p.pc \in Between <=> p.file = None
    /\ p.pc \in {"files"} \cup OnListed => \A f \in p.todo : p.found[f] # None
    /\ p.pc \in OnListed => p.found[p.file] # None
    /\ p.pc \in OnKnown => rows[p.file].state \in {"IMPORTED", "REMOVED"}
    /\ p.pc \in {"retire"} \cup OnGone =>
          \A f \in p.todo : rows[f].state = "IMPORTED" /\ p.found[f] = None
    /\ p.pc \in OnGone => rows[p.file].state = "IMPORTED" /\ p.found[p.file] = None
    /\ p.pc \in {"received", "recorded", "restored", "superseded"} => p.doc # None
    /\ p.pc \in {"hide", "supersede"} => p.left # {}
    /\ p.pc \notin {"reclassify", "hide", "superseded", "supersede"} => p.left = {}
    /\ p.pc \in Replacing => p.file \in p.todo
    /\ p.pc = "recorded" =>
          /\ rows[p.file].state = "IMPORTED" /\ rows[p.file].doc = p.doc
          /\ rows[p.file].mark = p.found[p.file].mark

\* Only one syncer is in a pass.
Alone == \A s, t \in Syncers : pass[s].pc # "idle" /\ pass[t].pc # "idle" => s = t

\* What was imported has a document.
Known == \A f \in Files : rows[f].state \in {"IMPORTED", "REMOVED"} => rows[f].doc # None

\* Documents come in the order of their ids, and a file's row names one that none of its
\* versions is younger than.
InOrder ==
    /\ \A d, e \in Docs : life[d] # "absent" /\ e < d => life[e] # "absent"
    /\ \A f \in Files : rows[f].doc # None => life[rows[f].doc] # "absent"
    /\ \A d \in Docs : versions[d].file # None =>
          /\ rows[versions[d].file].doc # None /\ d <= rows[versions[d].file].doc
          /\ life[d] # "absent"
    /\ \A d \in Docs : versions[d].file # None <=> versions[d].state # "none"
    /\ \A s \in Syncers : pass[s].pc \in {"received", "recorded"} =>
          /\ versions[pass[s].doc].file = None
          /\ life[pass[s].doc] # "absent"
          /\ \A e \in Docs : life[e] # "absent" => e <= pass[s].doc

\* A pass only settles files that have versions.
Tracks(p) ==
    /\ p.pc \in {"reconcile"} \cup Replacing => \A f \in p.todo : Versions(f) # {}
    /\ p.pc \in Replacing => p.left \subseteq Versions(p.file)

\* The base of every proof below.
DriveBase ==
    /\ DriveTypes /\ Alone /\ Known /\ InOrder
    /\ \A s \in Syncers : PassFits(pass[s]) /\ Tracks(pass[s])

\* A file's versions are bounded by the document its row names, so the newest exists.
LEMMA NewestIs ==
    ASSUME DriveTypes, InOrder, NEW f \in Files, NEW V, V \subseteq Versions(f), V # {}
    PROVE  /\ Max(V) \in V /\ \A d \in V : d <= Max(V)
           /\ rows[f].doc \in Nat /\ \A d \in V : d <= rows[f].doc
<1>1. V \subseteq Nat /\ V \subseteq Docs
  BY DriveAssumption DEF Versions
<1>2. \A d \in V : rows[f].doc # None /\ d <= rows[f].doc
  BY <1>1, DriveAssumption DEF Versions, InOrder
<1>3. rows[f].doc \in Nat
  BY <1>1, <1>2, DriveAssumption DEF DriveTypes, FileRows
<1> QED
  BY <1>1, <1>2, <1>3, MaxIn

\* What a pass retires, moves or brings back are documents.
LEMMA PicksDocs ==
    ASSUME DriveBase, NEW f \in Files, rows[f].state \in {"IMPORTED", "REMOVED"}
    PROVE  /\ Visibles(f) \subseteq Docs /\ Visibles(f) # {}
           /\ RemovedDoc(f) \in Docs
<1>1. rows[f].doc \in Docs
  BY DEF DriveBase, Known, DriveTypes, FileRows
<1>2. RemovedDoc(f) \in Docs
  <2>1. CASE InState(f, {"REMOVED"}) # {}
    <3>1. InState(f, {"REMOVED"}) \subseteq Versions(f)
      BY DEF InState
    <3> QED
      BY <2>1, <3>1, NewestIs DEF DriveBase, RemovedDoc, Versions
  <2>2. CASE InState(f, {"REMOVED"}) = {}
    BY <1>1, <2>2 DEF RemovedDoc
  <2> QED
    BY <2>1, <2>2
<1> QED
  BY <1>1, <1>2 DEF Visibles, InState, Versions

\* One syncer goes on with its pass, or begins one; the others are idle.
LEMMA PassMoves ==
    ASSUME DriveBase, NEW s \in Syncers, NEW p \in PassStates, Goes(s, p),
           pass[s].pc # "idle" \/ sync_lock(s)
    PROVE  /\ pass' \in [Syncers -> PassStates] /\ pass'[s] = p
           /\ \A t \in Syncers \ {s} : pass'[t] = pass[t] /\ pass[t].pc = "idle"
           /\ Alone'
<1>1. \A t \in Syncers \ {s} : pass[t].pc = "idle"
  BY DEF DriveBase, Alone, sync_lock, At
<1> QED
  BY <1>1 DEF DriveBase, DriveTypes, Goes, Alone

\* The idle know nothing, so only the pass that moved has anything to show.
LEMMA FitsAgain ==
    ASSUME DriveBase, NEW s \in Syncers, PassFits(pass[s])',
           \A t \in Syncers \ {s} : pass'[t] = pass[t] /\ pass[t].pc = "idle"
    PROVE  \A t \in Syncers : PassFits(pass[t])'
<1> SUFFICES ASSUME NEW t \in Syncers \ {s} PROVE PassFits(pass[t])'
  OBVIOUS
<1> QED
  BY DEF DriveBase, PassFits, Between, OnListed, OnKnown, OnGone, Replacing

\* Once there, a document stays, and a new one only comes as an upload of the pass.
LEMMA LivesGoOn ==
    ASSUME DriveTypes, NEW d \in Docs,
           \/ Piped(Accepts(d) \/ Fails(d) \/ GoesLive(d)) \/ scan_finds_duplicate(d)
           \/ ScanStalls(d) \/ StageWritesBack(d)
    PROVE  /\ life' \in [Docs -> Lives]
           /\ \A e \in Docs : life'[e] # "absent" <=> life[e] # "absent"
  BY DEF DriveTypes, Piped, Accepts, Fails, GoesLive, scan_finds_duplicate, Duplicates, ScanStalls,
         Stalls, StageWritesBack, Moves, Lives

\* Steps that leave rows, versions and passes alone.
Outside ==
    \/ \E f \in Files :
          \/ \E c \in Contents : edits(f, c)
          \/ \E folders \in SUBSET Tiers : moves(f, folders)
    \/ \E d \in Docs :
          \/ \E t \in Tiers : reclassify_document(d, t)
          \/ restore_checks(d) \/ restore_writes(d) \/ delete_document(d)
          \/ PipelineStep(d) \/ ScanStalls(d) \/ StageWritesBack(d)
    \/ UNCHANGED driveVars

\* What they do to the rest.
LEMMA OutsideMoves ==
    ASSUME DriveTypes, Outside
    PROVE  /\ UNCHANGED <<rows, versions, pass, errors, crashes>>
           /\ life' \in [Docs -> Lives] /\ drive' \in [Files -> DriveFiles]
           /\ tier' \in [Docs -> Tiers \cup {None}] /\ hidden' \in [Docs -> BOOLEAN]
           /\ restoring' \subseteq byHand' /\ byHand' \subseteq Docs
           /\ \A e \in Docs : life'[e] # "absent" <=> life[e] # "absent"
<1>1. ASSUME NEW f \in Files, NEW c \in Contents, edits(f, c)
      PROVE  /\ UNCHANGED <<docVars, syncVars, handVars, errors, crashes>>
             /\ drive' \in [Files -> DriveFiles]
  <2>1. drive[f] \in DriveFiles
    BY DEF DriveTypes
  <2>2. drive[f].mark + 1 \in Nat
    BY <2>1 DEF DriveFiles
  <2> DEFINE u == [drive[f] EXCEPT !.content = c,
                                   !.mark = IF f \in Native THEN drive[f].mark + 1 ELSE 0]
  <2>3. u \in DriveFiles
    BY <2>1, <2>2 DEF DriveFiles
  <2> HIDE DEF u
  <2>4. drive' = [drive EXCEPT ![f] = u]
    BY <1>1 DEF edits, Changes, u
  <2> QED
    BY <1>1, <2>3, <2>4 DEF edits, Changes, DriveTypes
<1>2. ASSUME NEW f \in Files, NEW folders \in SUBSET Tiers, moves(f, folders)
      PROVE  /\ UNCHANGED <<docVars, syncVars, handVars, errors, crashes>>
             /\ drive' \in [Files -> DriveFiles]
  BY <1>2 DEF moves, Changes, DriveTypes, DriveFiles
<1>3. ASSUME NEW d \in Docs,
             \/ Piped(Accepts(d) \/ Fails(d) \/ GoesLive(d)) \/ scan_finds_duplicate(d)
             \/ ScanStalls(d) \/ StageWritesBack(d)
      PROVE  /\ UNCHANGED <<hidden, drive, syncVars, restoring, byHand, errors, crashes>>
             /\ tier' \in [Docs -> Tiers \cup {None}]
  BY <1>3 DEF Piped, scan_finds_duplicate, Originals, ScanStalls, StageWritesBack, handVars, counts,
              DriveTypes
<1>4. ASSUME NEW d \in Docs, NEW t \in Tiers, reclassify_document(d, t)
      PROVE  /\ UNCHANGED <<life, hidden, drive, syncVars, restoring, errors, crashes>>
             /\ tier' \in [Docs -> Tiers \cup {None}] /\ byHand' = byHand \cup {d}
  BY <1>4 DEF reclassify_document, lifeVars, counts, DriveTypes
<1>5. ASSUME NEW d \in Docs, restore_checks(d) \/ restore_writes(d)
      PROVE  /\ UNCHANGED <<life, tier, drive, syncVars, errors, crashes>>
             /\ hidden' \in [Docs -> BOOLEAN]
             /\ restoring' \subseteq byHand' /\ byHand' \subseteq Docs
  BY <1>5 DEF restore_checks, restore_writes, docVars, lifeVars, counts, DriveTypes
<1>6. CASE UNCHANGED driveVars
  BY <1>6 DEF driveVars, lifeVars, handVars, counts, DriveTypes
<1>7. ASSUME NEW d \in Docs, delete_document(d)
      PROVE  /\ UNCHANGED <<life, tier, drive, syncVars, errors, crashes>>
             /\ hidden' \in [Docs -> BOOLEAN]
             /\ restoring' \subseteq byHand' /\ byHand' \subseteq Docs
  BY <1>7 DEF delete_document, ErasedAlong, counts, DriveTypes
<1> QED
  BY <1>1, <1>2, <1>3, <1>4, <1>5, <1>6, <1>7, LivesGoOn
  DEF Outside, PipelineStep, docVars, lifeVars, syncVars, handVars, DriveTypes

\* Nothing outside disturbs what a pass goes by.
LEMMA OutsideBase ==
    ASSUME DriveBase, Outside
    PROVE  DriveBase'
<1>1. /\ UNCHANGED <<rows, versions, pass, errors, crashes>> /\ DriveTypes'
      /\ \A e \in Docs : life'[e] # "absent" <=> life[e] # "absent"
  BY OutsideMoves DEF DriveBase, DriveTypes
<1>2. (\A s \in Syncers : PassFits(pass[s])' /\ Tracks(pass[s])') /\ Alone' /\ Known'
  BY <1>1 DEF DriveBase, PassFits, Tracks, Versions, Alone, Known
<1>3. InOrder'
  <2>1. /\ \A f \in Files : rows[f].doc # None => rows[f].doc \in Docs
        /\ \A s \in Syncers : pass[s].pc \in {"received", "recorded"} => pass[s].doc \in Docs
    BY DEF DriveBase, DriveTypes, FileRows, PassStates, PassFits
  <2> QED
    BY <1>1, <2>1 DEF DriveBase, InOrder
<1> QED
  BY <1>1, <1>2, <1>3 DEF DriveBase

(***************************************************************************)
(* The steps of a pass.                                                    *)
(***************************************************************************)

\* _record writes one row: the state, the listing's mark and tier, and a new document.
LEMMA Records ==
    ASSUME DriveTypes, NEW s \in Syncers, NEW f \in Files, Item(s, f) # None,
           NEW state \in DriveFileState, NEW d \in Docs \cup {None}, _record(s, f, state, d)
    PROVE  /\ rows' \in [Files -> FileRows]
           /\ \A g \in Files \ {f} : rows'[g] = rows[g]
           /\ rows'[f].state = state
           /\ rows'[f].doc = IF d = None THEN rows[f].doc ELSE d
           /\ rows'[f].mark = Item(s, f).mark /\ rows'[f].tier = Item(s, f).tier
<1> DEFINE row == [state |-> state, doc |-> IF d = None THEN rows[f].doc ELSE d,
                   mark |-> Item(s, f).mark, tier |-> Item(s, f).tier]
<1>1. Item(s, f) \in Items /\ rows[f] \in FileRows
  BY DEF DriveTypes, PassStates, Item
<1>2. row \in FileRows
  BY <1>1 DEF FileRows, Items
<1>3. rows' = [rows EXCEPT ![f] = row]
  BY DEF _record
<1>4. /\ row.state = state /\ row.doc = IF d = None THEN rows[f].doc ELSE d
      /\ row.mark = Item(s, f).mark /\ row.tier = Item(s, f).tier
  OBVIOUS
<1> HIDE DEF row
<1> QED
  BY <1>2, <1>3, <1>4 DEF DriveTypes

\* A pass that goes on to a state that fits, and leaves the rows alone.
LEMMA Proceeds ==
    ASSUME DriveBase, NEW s \in Syncers, NEW p \in PassStates, Goes(s, p), PassFits(p),
           pass[s].pc # "idle" \/ sync_lock(s), UNCHANGED rows
    PROVE  /\ pass' \in [Syncers -> PassStates] /\ pass'[s] = p
           /\ \A t \in Syncers \ {s} : pass'[t] = pass[t] /\ pass[t].pc = "idle"
           /\ Alone' /\ \A t \in Syncers : PassFits(pass[t])'
<1>1. /\ pass' \in [Syncers -> PassStates] /\ pass'[s] = p /\ Alone'
      /\ \A t \in Syncers \ {s} : pass'[t] = pass[t] /\ pass[t].pc = "idle"
  BY PassMoves
<1>2. PassFits(pass[s])'
  BY <1>1 DEF PassFits
<1> QED
  BY <1>1, <1>2, FitsAgain

\* A pass that begins, lists, or goes from one of its parts to the next: nothing else moves.
Turns(s) ==
    \/ \E limited \in BOOLEAN : sync_once(s, limited)
    \/ list_public(s) \/ list_restricted(s) \/ files_done(s) \/ sync_ends(s) \/ sync_dies(s)

\* Where it goes.
LEMMA TurnsTo ==
    ASSUME DriveBase, NEW s \in Syncers, Turns(s)
    PROVE  /\ UNCHANGED <<life, drive, rows, versions, tier, hidden, handVars, errors>>
           /\ crashes' \in Nat
           /\ pass[s].pc # "idle" \/ sync_lock(s)
           /\ \E p \in PassStates : Goes(s, p) /\ PassFits(p) /\ Tracks(p) /\ p.pc \in Between
<1>0. /\ pass[s] \in PassStates /\ PassFits(pass[s])
      /\ crashes \in Nat
  BY DEF DriveBase, DriveTypes
<1> DEFINE Here(p) == Goes(s, p) /\ PassFits(p) /\ Tracks(p) /\ p.pc \in Between
<1> DEFINE Still == /\ UNCHANGED <<life, drive, rows, versions, tier, hidden, handVars, errors>>
                    /\ crashes' \in Nat
                    /\ pass[s].pc # "idle" \/ sync_lock(s)
<1> USE DEF docVars, lifeVars, handVars, counts
<1>1. NoPass \in PassStates /\ PassFits(NoPass) /\ Tracks(NoPass) /\ NoPass.pc = "idle"
  BY DEF NoPass, Tracks, PassStates, PassFits, Between, OnListed, OnKnown, OnGone, Replacing
<1>2. ASSUME NEW found, found \in [Files -> Items \cup {None}], NEW t \in Tiers
      PROVE  Listed(found, t) \in [Files -> Items \cup {None}]
  <2>1. \A f \in Files : [mark |-> Mark(f), tier |-> t] \in Items
    BY DEF Mark, Marks, Items, DriveBase, DriveTypes, DriveFiles
  <2> QED
    BY <1>2, <2>1 DEF Listed
<1>3. ASSUME NEW limited \in BOOLEAN, sync_once(s, limited)
      PROVE  Still /\ \E p \in PassStates : Here(p)
  <2> DEFINE p == [NoPass EXCEPT !.pc = "PUBLIC", !.limited = limited]
  <2>1. p \in PassStates /\ PassFits(p) /\ Tracks(p) /\ p.pc \in Between
    BY DEF NoPass, Tracks, PassStates, PassFits, Between, OnListed, OnKnown, OnGone, Replacing
  <2>2. Goes(s, p) /\ Still
    BY <1>0, <1>3 DEF sync_once
  <2> HIDE DEF p
  <2> QED
    BY <2>1, <2>2
<1>4. CASE list_public(s)
  <2> DEFINE found == Listed(pass[s].found, "PUBLIC")
             p == [pass[s] EXCEPT !.pc = "RESTRICTED", !.found = found]
  <2>1. found \in [Files -> Items \cup {None}] /\ pass[s].file = None
    BY <1>0, <1>2, <1>4 DEF list_public, At, PassStates, PassFits, Between, Tiers
  <2>2. Goes(s, p) /\ Still
    BY <1>0, <1>4 DEF list_public, At
  <2> HIDE DEF found
  <2>3. p \in PassStates /\ PassFits(p) /\ Tracks(p) /\ p.pc \in Between
    BY <1>0, <2>1 DEF Tracks, PassStates, PassFits, Between, OnListed, OnKnown, OnGone, Replacing
  <2> HIDE DEF p
  <2> QED
    BY <2>2, <2>3
<1>5. CASE list_restricted(s)
  <2> DEFINE found == Listed(pass[s].found, "RESTRICTED")
  <2>1. found \in [Files -> Items \cup {None}] /\ pass[s].file = None
    BY <1>0, <1>2, <1>5 DEF list_restricted, At, PassStates, PassFits, Between, Tiers
  <2>2. PICK todo \in Taken(found, pass[s].limited) :
           Goes(s, [pass[s] EXCEPT !.pc = "files", !.found = found, !.todo = todo])
    BY <1>5 DEF list_restricted
  <2> DEFINE p == [pass[s] EXCEPT !.pc = "files", !.found = found, !.todo = todo]
  <2>3. Goes(s, p) /\ Still
    BY <1>0, <1>5, <2>2 DEF list_restricted, At
  <2>4. todo \subseteq {f \in Files : found[f] # None}
    BY <2>2 DEF Taken, kSubset
  <2> HIDE DEF found
  <2>5. p \in PassStates /\ PassFits(p) /\ Tracks(p) /\ p.pc \in Between
    BY <1>0, <2>1, <2>4
    DEF Tracks, PassStates, PassFits, Between, OnListed, OnKnown, OnGone, Replacing
  <2> HIDE DEF p
  <2> QED
    BY <2>3, <2>5
<1>6. CASE files_done(s)
  <2>1. pass[s].file = None /\ pass[s].pc = "files" /\ pass[s].left = {}
    BY <1>0, <1>6 DEF files_done, At, PassFits, Between
  <2> DEFINE p == AfterRetiring(s, Vanished(s), {})
  <2>2. Goes(s, p) /\ Still
    BY <1>0, <1>6 DEF files_done, At
  <2>3. /\ p \in PassStates /\ p.pc \in {"retire", "reconcile"} /\ p.file = None /\ p.left = {}
        /\ p.pc = "retire" => p.todo = Vanished(s) /\ p.found = pass[s].found
        /\ p.pc = "reconcile" => p.todo = {f \in Files : InState(f, {"PENDING"}) # {}}
    BY <1>0, <2>1 DEF AfterRetiring, Vanished, PassStates, Between
  <2> HIDE DEF p
  <2>4. PassFits(p) /\ Tracks(p) /\ p.pc \in Between
    BY <2>3
    DEF Vanished, Tracks, InState, Item, PassFits, Between, OnListed, OnKnown, OnGone, Replacing
  <2> QED
    BY <2>2, <2>3, <2>4
<1>7. CASE sync_ends(s) \/ sync_dies(s)
  <2>1. Goes(s, NoPass) /\ Still
    BY <1>0, <1>7 DEF sync_ends, sync_dies, At
  <2> QED
    BY <1>1, <2>1 DEF Between
<1> QED
  BY <1>3, <1>4, <1>5, <1>6, <1>7 DEF Turns

\* Rows and versions keep their documents, and nobody is in the middle of an import.
LEMMA OrderKept ==
    ASSUME DriveBase,
           \A e \in Docs : life'[e] # "absent" <=> life[e] # "absent",
           \A f \in Files : rows'[f].doc = rows[f].doc,
           \A d \in Docs : /\ versions'[d].file = versions[d].file
                           /\ versions'[d].state = "none" <=> versions[d].state = "none",
           \A s \in Syncers : pass'[s].pc \notin {"received", "recorded"}
    PROVE  InOrder'
<1>1. /\ \A f \in Files : rows[f].doc # None => rows[f].doc \in Docs
      /\ \A d \in Docs : versions[d].file # None => versions[d].file \in Files
  BY DEF DriveBase, DriveTypes, FileRows, VersionRows
<1> QED
  BY <1>1 DEF DriveBase, InOrder

\* The end of one file: its row is written, and the pass goes on to the next.
LEMMA FileDoneBase ==
    ASSUME DriveBase, NEW s \in Syncers, NEW f \in Files, Item(s, f) # None,
           pass[s].pc \in {"files"} \cup OnListed, FileDone(s, f),
           NEW state \in DriveFileState, _record(s, f, state, None),
           state \in {"IMPORTED", "REMOVED"} => rows[f].doc # None,
           UNCHANGED <<life, drive, versions, tier, hidden, restoring, byHand>>,
           errors' \in Nat, crashes' \in Nat
    PROVE  /\ DriveBase' /\ pass'[s].pc = "files" /\ pass'[s].file = None
           /\ pass'[s].todo = pass[s].todo \ {f}
           /\ pass'[s].found = pass[s].found /\ pass'[s].limited = pass[s].limited
           /\ \A g \in Files \ {f} : rows'[g] = rows[g]
           /\ rows'[f].state = state /\ rows'[f].doc = rows[f].doc
           /\ rows'[f].mark = Item(s, f).mark /\ rows'[f].tier = Item(s, f).tier
<1> DEFINE p == [pass[s] EXCEPT !.pc = "files", !.todo = @ \ {f}, !.file = None, !.doc = None,
                                !.left = {}]
<1>0. pass[s] \in PassStates /\ PassFits(pass[s])
  BY DEF DriveBase, DriveTypes
<1>1. /\ p \in PassStates /\ p.pc = "files" /\ p.file = None /\ p.left = {}
      /\ \A g \in p.todo : p.found[g] # None
      /\ p.todo = pass[s].todo \ {f} /\ p.found = pass[s].found /\ p.limited = pass[s].limited
  BY <1>0 DEF PassStates, PassFits, Between, OnListed, OnKnown, OnGone, Replacing
<1>2. Goes(s, p)
  BY DEF FileDone
<1> HIDE DEF p
<1>3. /\ pass' \in [Syncers -> PassStates] /\ pass'[s] = p /\ Alone'
      /\ \A t \in Syncers \ {s} : pass'[t] = pass[t] /\ pass[t].pc = "idle"
  BY <1>1, <1>2, PassMoves DEF OnListed
<1>4. \A t \in Syncers : PassFits(pass[t])'
  <2>1. PassFits(pass[s])'
    BY <1>1, <1>3 DEF PassFits, Between, OnListed, OnKnown, OnGone, Replacing
  <2> QED
    BY <1>3, <2>1, FitsAgain
<1>5. /\ rows' \in [Files -> FileRows]
      /\ \A g \in Files \ {f} : rows'[g] = rows[g]
      /\ rows'[f].state = state /\ rows'[f].doc = rows[f].doc
      /\ rows'[f].mark = Item(s, f).mark /\ rows'[f].tier = Item(s, f).tier
  BY Records DEF DriveBase
<1>6. DriveTypes' /\ Known'
  BY <1>3, <1>5 DEF DriveBase, DriveTypes, Known
<1>7. \A t \in Syncers : pass'[t].pc \notin {"received", "recorded"}
  BY <1>1, <1>3
<1>8. InOrder'
  BY <1>5, <1>7, OrderKept
<1>9. \A t \in Syncers : Tracks(pass[t])'
  BY <1>1, <1>3 DEF Tracks, Replacing
<1> QED
  BY <1>1, <1>3, <1>4, <1>5, <1>6, <1>8, <1>9 DEF DriveBase

\* A step that leaves rows and versions alone, and does not import.
LEMMA PassBase ==
    ASSUME DriveBase, NEW s \in Syncers, NEW p \in PassStates, Goes(s, p), PassFits(p), Tracks(p),
           p.pc \notin {"received", "recorded"}, pass[s].pc # "idle" \/ sync_lock(s),
           UNCHANGED <<drive, rows, restoring, byHand>>, errors' \in Nat, crashes' \in Nat,
           life' \in [Docs -> Lives], \A e \in Docs : life'[e] # "absent" <=> life[e] # "absent",
           versions' \in [Docs -> VersionRows],
           \A d \in Docs : /\ versions'[d].file = versions[d].file
                           /\ versions'[d].state = "none" <=> versions[d].state = "none",
           tier' \in [Docs -> Tiers \cup {None}], hidden' \in [Docs -> BOOLEAN]
    PROVE  DriveBase' /\ pass'[s] = p
<1>1. /\ pass' \in [Syncers -> PassStates] /\ pass'[s] = p
      /\ \A t \in Syncers \ {s} : pass'[t] = pass[t] /\ pass[t].pc = "idle"
      /\ Alone' /\ \A t \in Syncers : PassFits(pass[t])'
  BY Proceeds
<1>2. InOrder'
  <2>1. \A t \in Syncers : pass'[t].pc \notin {"received", "recorded"}
    BY <1>1
  <2> QED
    BY <2>1, OrderKept
<1>3. \A t \in Syncers : Tracks(pass[t])'
  <2>1. \A f : Versions(f)' = Versions(f)
    BY DEF Versions
  <2>2. \A t \in Syncers \ {s} : Tracks(pass[t])'
    BY <1>1 DEF Tracks, Replacing
  <2>3. Tracks(pass[s])'
    BY <1>1, <2>1 DEF Tracks
  <2> QED
    BY <2>2, <2>3
<1> QED
  BY <1>1, <1>2, <1>3 DEF DriveBase, DriveTypes, Known

\* Turns of a pass.
LEMMA TurnsBase ==
    ASSUME DriveBase, NEW s \in Syncers, Turns(s)
    PROVE  /\ DriveBase' /\ pass'[s].pc \in Between /\ pass'[s].file = None
           /\ UNCHANGED <<life, drive, rows, versions, tier, hidden, handVars, errors>>
<1>1. PICK p \in PassStates : Goes(s, p) /\ PassFits(p) /\ Tracks(p) /\ p.pc \in Between
  BY TurnsTo
<1>2. /\ UNCHANGED <<life, drive, rows, versions, tier, hidden, handVars, errors>>
      /\ crashes' \in Nat
      /\ pass[s].pc # "idle" \/ sync_lock(s)
  BY TurnsTo
<1> QED
  BY <1>1, <1>2, PassBase DEF Between, handVars, DriveBase, DriveTypes, PassFits

\* Steps that end a file with a record of what came of it.
FileEnds(s, f) ==
    \/ sync_unchanged(s, f) \/ sync_skips(s, f) \/ sync_fails(s, f)
    \/ _record_unchanged(s) /\ f = pass[s].file

\* They keep the base of the proof, and change the record of that file alone.
LEMMA FileEndsBase ==
    ASSUME DriveBase, NEW s \in Syncers, NEW f \in Files, FileEnds(s, f)
    PROVE  /\ DriveBase' /\ pass'[s].pc = "files" /\ pass'[s].file = None
           /\ Item(s, f) # None
           /\ \/ pass[s].pc = "files" /\ f \in pass[s].todo
              \/ pass[s].pc \in OnListed /\ f = pass[s].file
           /\ pass'[s].todo = pass[s].todo \ {f}
           /\ pass'[s].found = pass[s].found /\ pass'[s].limited = pass[s].limited
           /\ UNCHANGED <<life, drive, versions, tier, hidden, restoring, byHand, crashes>>
           /\ \A g \in Files \ {f} : rows'[g] = rows[g]
           /\ rows'[f].doc = rows[f].doc
           /\ rows'[f].mark = Item(s, f).mark /\ rows'[f].tier = Item(s, f).tier
           /\ \/ sync_skips(s, f) /\ rows'[f].state = "SKIPPED" /\ errors' = errors
              \/ sync_fails(s, f) /\ rows'[f].state = "FAILED" /\ errors' = errors + 1
              \/ /\ sync_unchanged(s, f) \/ _record_unchanged(s)
                 /\ rows'[f].state = "IMPORTED" /\ errors' = errors
<1>0. pass[s] \in PassStates /\ PassFits(pass[s]) /\ errors \in Nat /\ crashes \in Nat
  BY DEF DriveBase, DriveTypes
<1>1. /\ Item(s, f) # None /\ FileDone(s, f)
      /\ pass[s].pc \in {"files"} \cup OnListed
      /\ \/ pass[s].pc = "files" /\ f \in pass[s].todo
         \/ pass[s].pc \in OnListed /\ f = pass[s].file
  <2>1. FileDone(s, f)
    BY DEF FileEnds, sync_unchanged, sync_skips, sync_fails, _record_unchanged
  <2>2. \/ pass[s].pc = "files" /\ f \in pass[s].todo
        \/ pass[s].pc \in OnListed /\ f = pass[s].file
    BY DEF FileEnds, sync_unchanged, sync_skips, sync_fails, _record_unchanged, At, OnListed
  <2> QED
    BY <1>0, <2>1, <2>2 DEF PassFits, Item
<1>2. /\ UNCHANGED <<life, drive, versions, tier, hidden, restoring, byHand, crashes>>
      /\ errors' \in Nat
  BY <1>0 DEF FileEnds, sync_unchanged, sync_skips, sync_fails, _record_unchanged, docVars,
              lifeVars, handVars, counts
<1>3. CASE sync_skips(s, f)
  <2>1. _record(s, f, "SKIPPED", None) /\ "SKIPPED" \in DriveFileState /\ errors' = errors
    BY <1>3 DEF sync_skips, DriveFileState, counts
  <2>2. /\ DriveBase' /\ pass'[s].pc = "files" /\ pass'[s].file = None
        /\ pass'[s].todo = pass[s].todo \ {f}
        /\ pass'[s].found = pass[s].found /\ pass'[s].limited = pass[s].limited
        /\ \A g \in Files \ {f} : rows'[g] = rows[g]
        /\ rows'[f].state = "SKIPPED" /\ rows'[f].doc = rows[f].doc
        /\ rows'[f].mark = Item(s, f).mark /\ rows'[f].tier = Item(s, f).tier
    BY <1>0, <1>1, <1>2, <2>1, FileDoneBase
  <2> QED
    BY <1>1, <1>2, <1>3, <2>1, <2>2
<1>4. CASE sync_fails(s, f)
  <2>1. _record(s, f, "FAILED", None) /\ "FAILED" \in DriveFileState /\ errors' = errors + 1
    BY <1>4 DEF sync_fails, DriveFileState
  <2>2. /\ DriveBase' /\ pass'[s].pc = "files" /\ pass'[s].file = None
        /\ pass'[s].todo = pass[s].todo \ {f}
        /\ pass'[s].found = pass[s].found /\ pass'[s].limited = pass[s].limited
        /\ \A g \in Files \ {f} : rows'[g] = rows[g]
        /\ rows'[f].state = "FAILED" /\ rows'[f].doc = rows[f].doc
        /\ rows'[f].mark = Item(s, f).mark /\ rows'[f].tier = Item(s, f).tier
    BY <1>0, <1>1, <1>2, <2>1, FileDoneBase
  <2> QED
    BY <1>1, <1>2, <1>4, <2>1, <2>2
<1>5. CASE sync_unchanged(s, f) \/ (_record_unchanged(s) /\ f = pass[s].file)
  <2>1. _record(s, f, "IMPORTED", None) /\ "IMPORTED" \in DriveFileState /\ errors' = errors
    BY <1>5 DEF sync_unchanged, _record_unchanged, DriveFileState, counts
  <2>2. rows[f].state \in {"IMPORTED", "REMOVED"}
    BY <1>0, <1>5 DEF sync_unchanged, _record_unchanged, At, PassFits, OnKnown
  <2>3. rows[f].doc # None
    BY <2>2 DEF DriveBase, Known
  <2>4. /\ DriveBase' /\ pass'[s].pc = "files" /\ pass'[s].file = None
        /\ pass'[s].todo = pass[s].todo \ {f}
        /\ pass'[s].found = pass[s].found /\ pass'[s].limited = pass[s].limited
        /\ \A g \in Files \ {f} : rows'[g] = rows[g]
        /\ rows'[f].state = "IMPORTED" /\ rows'[f].doc = rows[f].doc
        /\ rows'[f].mark = Item(s, f).mark /\ rows'[f].tier = Item(s, f).tier
    BY <1>0, <1>1, <1>2, <2>1, <2>3, FileDoneBase
  <2> QED
    BY <1>1, <1>2, <1>5, <2>1, <2>4
<1> QED
  BY <1>3, <1>4, <1>5 DEF FileEnds

\* A pass still goes by the same listing, with the same files before it.
SamePass(p, q) == p.limited = q.limited /\ p.found = q.found /\ p.todo = q.todo

\* A document of a file that is back becomes visible.
LEMMA RestoresBase ==
    ASSUME DriveBase, NEW s \in Syncers, NEW f \in Files, _restore_document(s, f)
    PROVE  /\ DriveBase' /\ RemovedDoc(f) \in Docs /\ rows[f].state = "REMOVED"
           /\ pass[s].pc = "files" /\ f \in pass[s].todo /\ IsUnchanged(f, Item(s, f))
           /\ UNCHANGED <<life, tier, drive, rows, versions, restoring, byHand, errors, crashes>>
           /\ hidden' = [hidden EXCEPT ![RemovedDoc(f)] = @ /\ Erased(RemovedDoc(f))]
           /\ pass'[s].pc = "restored" /\ pass'[s].file = f /\ pass'[s].doc = RemovedDoc(f)
           /\ SamePass(pass'[s], pass[s])
<1> DEFINE d == RemovedDoc(f)
           p == [pass[s] EXCEPT !.pc = "restored", !.file = f, !.doc = d]
<1>0. pass[s] \in PassStates /\ PassFits(pass[s]) /\ Tracks(pass[s])
  BY DEF DriveBase, DriveTypes
<1>1. d \in Docs
  BY PicksDocs DEF _restore_document
<1>2. /\ pass[s].pc = "files" /\ f \in pass[s].todo /\ rows[f].state = "REMOVED"
      /\ Goes(s, p) /\ hidden' = [hidden EXCEPT ![d] = @ /\ Erased(d)]
      /\ UNCHANGED <<life, tier, drive, rows, versions, restoring, byHand, errors, crashes>>
  BY DEF _restore_document, At, lifeVars, handVars, counts
<1> HIDE DEF d
<1>3. p \in PassStates /\ p.pc = "restored"
  BY <1>0, <1>1 DEF PassStates, OnListed
<1>4. PassFits(p) /\ Tracks(p)
  BY <1>0, <1>1, <1>2, DriveAssumption
  DEF Tracks, PassStates, PassFits, Between, OnListed, OnKnown, OnGone, Replacing
<1> HIDE DEF p
<1>5. hidden' \in [Docs -> BOOLEAN]
  BY <1>1, <1>2 DEF DriveBase, DriveTypes
<1>6. DriveBase' /\ pass'[s] = p
  BY <1>2, <1>3, <1>4, <1>5, PassBase DEF DriveBase, DriveTypes
<1>7. IsUnchanged(f, Item(s, f))
  BY DEF _restore_document
<1>8. p.pc = "restored" /\ p.file = f /\ p.doc = d /\ SamePass(p, pass[s])
  BY <1>0 DEF p, PassStates, SamePass
<1> QED
  BY <1>1, <1>2, <1>6, <1>7, <1>8 DEF d

\* Its version is PENDING once more.
LEMMA RestoresVersionBase ==
    ASSUME DriveBase, NEW s \in Syncers, _restore_version(s)
    PROVE  /\ DriveBase' /\ pass[s].pc = "restored" /\ pass[s].file \in Files
           /\ pass[s].doc \in Docs
           /\ pass'[s].pc \in {"record", "targets"}
           /\ pass'[s].pc = "record" => rows[pass[s].file].tier = Item(s, pass[s].file).tier
           /\ pass'[s].file = pass[s].file /\ pass'[s].doc = pass[s].doc
           /\ SamePass(pass'[s], pass[s])
           /\ \A d \in Docs : versions'[d] =
                  IF d = pass[s].doc /\ versions[d].state = "REMOVED"
                  THEN [versions[d] EXCEPT !.state = "PENDING"] ELSE versions[d]
           /\ UNCHANGED <<docVars, drive, rows, handVars, counts>>
<1>0. pass[s] \in PassStates /\ PassFits(pass[s]) /\ Tracks(pass[s])
  BY DEF DriveBase, DriveTypes
<1> DEFINE d == pass[s].doc
           f == pass[s].file
           pc == IF rows[f].tier = Item(s, f).tier THEN "record" ELSE "targets"
           p == [pass[s] EXCEPT !.pc = pc]
<1>1. /\ pass[s].pc = "restored" /\ d \in Docs /\ f \in Files
      /\ pc \in {"record", "targets"}
  BY <1>0 DEF _restore_version, At, PassFits, PassStates, Between
<1>2. /\ Goes(s, p) /\ UNCHANGED <<docVars, drive, rows, handVars, counts>>
      /\ versions' = [versions EXCEPT ![d].state = IF @ = "REMOVED" THEN "PENDING" ELSE @]
  BY DEF _restore_version
<1>3. /\ versions' \in [Docs -> VersionRows]
      /\ \A e \in Docs : versions'[e] =
             IF e = d /\ versions[e].state = "REMOVED"
             THEN [versions[e] EXCEPT !.state = "PENDING"] ELSE versions[e]
  <2>1. versions \in [Docs -> VersionRows] /\ versions[d] \in VersionRows
    BY <1>1 DEF DriveBase, DriveTypes
  <2> DEFINE v == [versions[d] EXCEPT !.state =
                      IF versions[d].state = "REMOVED" THEN "PENDING" ELSE versions[d].state]
  <2>2. v \in VersionRows /\ (versions[d].state # "REMOVED" => v = versions[d])
    BY <2>1 DEF VersionRows, VersionState
  <2>3. versions' = [versions EXCEPT ![d] = v]
    BY <1>2
  <2>4. versions[d].state = "REMOVED" => v = [versions[d] EXCEPT !.state = "PENDING"]
    OBVIOUS
  <2> HIDE DEF v
  <2> QED
    BY <1>1, <2>1, <2>2, <2>3, <2>4
<1>4. \A e \in Docs : /\ versions'[e].file = versions[e].file
                      /\ versions'[e].state = "none" <=> versions[e].state = "none"
  <2>1. \A e \in Docs : versions[e] \in VersionRows
    BY DEF DriveBase, DriveTypes
  <2> QED
    BY <1>3, <2>1 DEF VersionRows
<1>5. p \in PassStates /\ p.pc = pc
  BY <1>0, <1>1 DEF PassStates, OnListed
<1>6. PassFits(p) /\ Tracks(p)
  BY <1>0, <1>1, DriveAssumption
  DEF Tracks, PassStates, PassFits, Between, OnListed, OnKnown, OnGone, Replacing
<1> HIDE DEF p
<1>7. DriveBase' /\ pass'[s] = p
  BY <1>1, <1>2, <1>3, <1>4, <1>5, <1>6, PassBase
  DEF DriveBase, DriveTypes, docVars, lifeVars, handVars, counts
<1>8. p.file = f /\ p.doc = d /\ SamePass(p, pass[s])
  BY <1>0 DEF p, PassStates, SamePass
<1> QED
  BY <1>1, <1>2, <1>3, <1>5, <1>7, <1>8

\* One document of a file that moved gets the folder's tier.
LEMMA ReclassifiesBase ==
    ASSUME DriveBase, NEW s \in Syncers, NEW f \in Files, _reclassify(s, f)
    PROVE  /\ DriveBase' /\ Item(s, f) # None /\ rows[f].state \in {"IMPORTED", "REMOVED"}
           /\ pass[s].pc \in {"files", "targets", "reclassify"}
           /\ pass[s].pc = "files" => f \in pass[s].todo
           /\ pass[s].pc # "files" => f = pass[s].file
           /\ UNCHANGED <<lifeVars, hidden, drive, rows, versions, handVars, counts>>
           /\ pass'[s].pc = IF pass'[s].left = {} THEN "record" ELSE "reclassify"
           /\ pass'[s].file = f /\ SamePass(pass'[s], pass[s])
           /\ \E d \in Docs :
                 /\ tier' = [tier EXCEPT ![d] = IF Erased(d) THEN @ ELSE Item(s, f).tier]
                 /\ pass[s].pc = "reclassify" =>
                       d \in pass[s].left /\ pass'[s].left = pass[s].left \ {d}
                 /\ pass[s].pc # "reclassify" =>
                       d \in Visibles(f) /\ pass'[s].left = Visibles(f) \ {d}
<1>0. pass[s] \in PassStates /\ PassFits(pass[s]) /\ Tracks(pass[s])
  BY DEF DriveBase, DriveTypes
<1>1. PICK d \in Docs :
         /\ MayReclassify(s, f, d)
         /\ tier' = [tier EXCEPT ![d] = IF Erased(d) THEN @ ELSE Item(s, f).tier]
         /\ LET left == (IF At(s, "reclassify") THEN pass[s].left ELSE Visibles(f)) \ {d}
            IN  Goes(s, [pass[s] EXCEPT !.pc = IF left = {} THEN "record" ELSE "reclassify",
                                        !.file = f, !.left = left])
         /\ UNCHANGED <<lifeVars, hidden, drive, rows, versions, handVars, counts>>
  BY DEF _reclassify
<1> DEFINE left == (IF pass[s].pc = "reclassify" THEN pass[s].left ELSE Visibles(f)) \ {d}
           p == [pass[s] EXCEPT !.pc = IF left = {} THEN "record" ELSE "reclassify",
                                !.file = f, !.left = left]
<1>2. /\ pass[s].pc \in {"files", "targets", "reclassify"}
      /\ pass[s].pc = "files" => f \in pass[s].todo
      /\ pass[s].pc # "files" => f = pass[s].file
      /\ pass[s].pc = "files" => rows[f].state = "IMPORTED"
  BY <1>1 DEF MayReclassify, At
<1>3. Item(s, f) # None /\ rows[f].state \in {"IMPORTED", "REMOVED"}
  BY <1>0, <1>2 DEF PassFits, Item, OnListed, OnKnown
<1>4. left \subseteq Docs
  BY <1>0, <1>3, PicksDocs DEF PassStates
<1>5. Goes(s, p)
  BY <1>1 DEF At
<1> HIDE DEF left
<1>6. p \in PassStates /\ p.pc \in {"record", "reclassify"}
  BY <1>0, <1>4 DEF PassStates, OnListed
<1>7. PassFits(p) /\ Tracks(p)
  BY <1>0, <1>2, <1>3, DriveAssumption
  DEF Tracks, PassStates, PassFits, Item, Between, OnListed, OnKnown, OnGone, Replacing
<1>8. tier' \in [Docs -> Tiers \cup {None}]
  <2>1. Item(s, f).tier \in Tiers
    BY <1>0, <1>3 DEF Item, PassStates, Items
  <2> QED
    BY <1>1, <2>1 DEF DriveBase, DriveTypes
<1> HIDE DEF p
<1>9. DriveBase' /\ pass'[s] = p
  BY <1>1, <1>2, <1>5, <1>6, <1>7, <1>8, PassBase
  DEF DriveBase, DriveTypes, lifeVars, handVars, counts
<1>10. /\ p.pc = IF p.left = {} THEN "record" ELSE "reclassify"
       /\ p.file = f /\ p.left = left /\ SamePass(p, pass[s])
  BY <1>0 DEF p, PassStates, SamePass
<1>11. /\ pass[s].pc = "reclassify" => d \in pass[s].left
       /\ pass[s].pc # "reclassify" => d \in Visibles(f)
  BY <1>1, <1>2 DEF MayReclassify, At
<1> QED
  BY <1>1, <1>2, <1>3, <1>9, <1>10, <1>11 DEF left

\* One document of a file that is gone is hidden.
LEMMA RetiresBase ==
    ASSUME DriveBase, NEW s \in Syncers, NEW f \in Files, _retire_vanished(s, f)
    PROVE  /\ DriveBase' /\ Item(s, f) = None /\ rows[f].state = "IMPORTED"
           /\ pass[s].pc \in {"retire", "hide"}
           /\ pass[s].pc # "retire" => f = pass[s].file
           /\ UNCHANGED <<lifeVars, tier, drive, rows, versions, handVars, counts>>
           /\ pass'[s].pc = IF pass'[s].left = {} THEN "retired" ELSE "hide"
           /\ pass'[s].file = f /\ SamePass(pass'[s], pass[s])
           /\ \E d \in Docs :
                 /\ hidden' = [hidden EXCEPT ![d] = TRUE]
                 /\ pass[s].pc = "hide" => d \in pass[s].left /\ pass'[s].left = pass[s].left \ {d}
                 /\ pass[s].pc = "retire" => d \in Visibles(f) /\ pass'[s].left = Visibles(f) \ {d}
<1>0. pass[s] \in PassStates /\ PassFits(pass[s]) /\ Tracks(pass[s])
  BY DEF DriveBase, DriveTypes
<1> DEFINE left == IF pass[s].pc = "retire" THEN Visibles(f) ELSE pass[s].left
<1>1. PICK d \in left :
         /\ hidden' = [hidden EXCEPT ![d] = TRUE]
         /\ Goes(s, [pass[s] EXCEPT !.pc = IF left = {d} THEN "retired" ELSE "hide",
                                    !.file = f, !.left = left \ {d}])
  BY DEF _retire_vanished, At
<1>2. /\ pass[s].pc \in {"retire", "hide"}
      /\ pass[s].pc = "retire" => f \in pass[s].todo
      /\ pass[s].pc # "retire" => f = pass[s].file
      /\ UNCHANGED <<lifeVars, tier, drive, rows, versions, handVars, counts>>
  BY DEF _retire_vanished, At
<1>3. Item(s, f) = None /\ rows[f].state = "IMPORTED"
  BY <1>0, <1>2 DEF PassFits, Item, OnGone
<1>4. left \subseteq Docs
  BY <1>0, <1>3, PicksDocs DEF PassStates
<1> HIDE DEF left
<1> DEFINE p == [pass[s] EXCEPT !.pc = IF left = {d} THEN "retired" ELSE "hide",
                                !.file = f, !.left = left \ {d}]
<1>5. Goes(s, p) /\ d \in Docs
  BY <1>1, <1>4
<1>6. p \in PassStates /\ p.pc \in {"retired", "hide"}
  BY <1>0, <1>4 DEF PassStates, OnGone
<1>7. PassFits(p) /\ Tracks(p)
  BY <1>0, <1>1, <1>2, <1>3, DriveAssumption
  DEF Tracks, PassStates, PassFits, Item, Between, OnListed, OnKnown, OnGone, Replacing
<1>8. hidden' \in [Docs -> BOOLEAN]
  BY <1>1, <1>5 DEF DriveBase, DriveTypes
<1> HIDE DEF p
<1>9. DriveBase' /\ pass'[s] = p
  BY <1>2, <1>5, <1>6, <1>7, <1>8, PassBase
  DEF DriveBase, DriveTypes, lifeVars, handVars, counts
<1>10. /\ p.pc = IF p.left = {} THEN "retired" ELSE "hide"
       /\ p.file = f /\ p.left = left \ {d} /\ SamePass(p, pass[s])
  BY <1>0, <1>1 DEF p, PassStates, SamePass
<1> QED
  BY <1>1, <1>2, <1>3, <1>5, <1>9, <1>10 DEF left

\* A replaced version is hidden, after its status was written.
LEMMA HidesBase ==
    ASSUME DriveBase, NEW s \in Syncers, _supersede_hides(s)
    PROVE  /\ DriveBase' /\ pass[s].pc = "superseded" /\ pass[s].doc \in Docs
           /\ pass[s].file \in Files
           /\ hidden' = [hidden EXCEPT ![pass[s].doc] = TRUE]
           /\ pass'[s].pc = IF pass[s].left = {} THEN "settle" ELSE "supersede"
           /\ pass'[s].file = pass[s].file /\ pass'[s].left = pass[s].left
           /\ SamePass(pass'[s], pass[s])
           /\ UNCHANGED <<lifeVars, tier, drive, rows, versions, handVars, counts>>
<1>0. pass[s] \in PassStates /\ PassFits(pass[s]) /\ Tracks(pass[s])
  BY DEF DriveBase, DriveTypes
<1> DEFINE p == [pass[s] EXCEPT !.pc = IF pass[s].left = {} THEN "settle" ELSE "supersede"]
<1>1. /\ pass[s].pc = "superseded" /\ Goes(s, p)
      /\ hidden' = [hidden EXCEPT ![pass[s].doc] = TRUE]
      /\ UNCHANGED <<lifeVars, tier, drive, rows, versions, handVars, counts>>
  BY DEF _supersede_hides, AfterHiding, At
<1>2. pass[s].doc \in Docs /\ pass[s].file \in Files
  BY <1>0, <1>1 DEF PassStates, PassFits, Between
<1>3. p \in PassStates /\ p.pc \in Replacing
  BY <1>0 DEF PassStates, Replacing
<1>4. PassFits(p) /\ Tracks(p)
  BY <1>0, <1>1, <1>2 DEF Tracks, PassFits, Between, OnListed, OnKnown, OnGone, Replacing
<1>5. hidden' \in [Docs -> BOOLEAN]
  BY <1>1 DEF DriveBase, DriveTypes
<1> HIDE DEF p
<1>6. DriveBase' /\ pass'[s] = p
  BY <1>1, <1>3, <1>4, <1>5, PassBase
  DEF DriveBase, DriveTypes, lifeVars, handVars, counts, Replacing
<1>7. /\ p.pc = IF pass[s].left = {} THEN "settle" ELSE "supersede"
      /\ p.file = pass[s].file /\ p.left = pass[s].left /\ SamePass(p, pass[s])
  BY <1>0 DEF p, PassStates, SamePass
<1> QED
  BY <1>1, <1>2, <1>6, <1>7

\* Writing a state leaves a version the file's, at its mark.
SameVersion(u, v) == u.file = v.file /\ u.mark = v.mark /\ (u.state = "none" <=> v.state = "none")

\* What settling makes of the versions of a file.
LEMMA Settles ==
    ASSUME DriveBase, NEW f \in Files
    PROVE  /\ SettledIn(f) \in [Docs -> VersionRows]
           /\ \A d \in Docs :
                 /\ SameVersion(SettledIn(f)[d], versions[d])
                 /\ SettledIn(f)[d].state =
                       IF versions[d].file = f /\ versions[d].state = "PENDING"
                       THEN IF life[d] = "duplicate" THEN "DUPLICATE"
                            ELSE IF life[d] \in _FAILED_STATUSES THEN "FAILED" ELSE "PENDING"
                       ELSE versions[d].state
           /\ \A d \in Versions(f) : SettledIn(f)[d] = Settled(d)
<1>1. \A d \in Docs : versions[d] \in VersionRows
  BY DEF DriveBase, DriveTypes
<1>2. \A d \in Docs : SettledIn(f)[d] = IF versions[d].file = f THEN Settled(d) ELSE versions[d]
  BY DEF SettledIn, Versions
<1>3. ASSUME NEW d \in Docs
      PROVE  /\ Settled(d) \in VersionRows /\ SameVersion(Settled(d), versions[d])
             /\ Settled(d).state =
                   IF versions[d].state = "PENDING"
                   THEN IF life[d] = "duplicate" THEN "DUPLICATE"
                        ELSE IF life[d] \in _FAILED_STATUSES THEN "FAILED" ELSE "PENDING"
                   ELSE versions[d].state
  BY <1>1, <1>3 DEF Settled, SameVersion, VersionRows, VersionState
<1>4. \A d \in Docs : SameVersion(versions[d], versions[d])
  BY DEF SameVersion
<1> QED
  BY <1>1, <1>2, <1>3, <1>4 DEF SettledIn, Versions

\* What WithState makes of the versions.
LEMMA StatesSet ==
    ASSUME DriveBase, NEW ds, ds \subseteq Docs, \A d \in ds : versions[d].state # "none",
           NEW state \in VersionState
    PROVE  /\ WithState(ds, state) \in [Docs -> VersionRows]
           /\ \A d \in Docs :
                 /\ SameVersion(WithState(ds, state)[d], versions[d])
                 /\ WithState(ds, state)[d].state = IF d \in ds THEN state ELSE versions[d].state
<1>1. \A d \in Docs : versions[d] \in VersionRows
  BY DEF DriveBase, DriveTypes
<1>2. ASSUME NEW d \in Docs, versions[d].state # "none"
      PROVE  /\ [versions[d] EXCEPT !.state = state] \in VersionRows
             /\ SameVersion([versions[d] EXCEPT !.state = state], versions[d])
             /\ [versions[d] EXCEPT !.state = state].state = state
  BY <1>1, <1>2 DEF SameVersion, VersionRows, VersionState
<1>3. \A d \in Docs : SameVersion(versions[d], versions[d])
  BY DEF SameVersion
<1> QED
  BY <1>1, <1>2, <1>3 DEF WithState

\* The newest version of a file that has any.
LEMMA NewestVersion ==
    ASSUME DriveBase, NEW f \in Files, Versions(f) # {}
    PROVE  /\ Newest(f) \in Docs /\ versions[Newest(f)].file = f
           /\ versions[Newest(f)].state # "none" /\ Newest(f) \in Nat
           /\ \A d \in Versions(f) : d <= Newest(f)
<1>1. Newest(f) \in Versions(f) /\ \A d \in Versions(f) : d <= Newest(f)
  BY NewestIs DEF DriveBase, Newest
<1> QED
  BY <1>1, DriveAssumption DEF Versions, DriveBase, InOrder

\* The newest version becomes CURRENT on top of another edit.
LEMMA CurrentSet ==
    ASSUME DriveBase, NEW f \in Files, Versions(f) # {}, NEW v \in [Docs -> VersionRows],
           \A d \in Docs : SameVersion(v[d], versions[d])
    PROVE  /\ [v EXCEPT ![Newest(f)].state = "CURRENT"] \in [Docs -> VersionRows]
           /\ \A d \in Docs :
                 /\ SameVersion([v EXCEPT ![Newest(f)].state = "CURRENT"][d], versions[d])
                 /\ [v EXCEPT ![Newest(f)].state = "CURRENT"][d].state =
                       IF d = Newest(f) THEN "CURRENT" ELSE v[d].state
<1> DEFINE n == Newest(f)
           row == [v[n] EXCEPT !.state = "CURRENT"]
<1>1. n \in Docs /\ versions[n].state # "none"
  BY NewestVersion
<1>2. row \in VersionRows /\ SameVersion(row, versions[n]) /\ row.state = "CURRENT"
  <2>1. v[n] \in VersionRows /\ SameVersion(v[n], versions[n])
    BY <1>1
  <2> QED
    BY <1>1, <2>1 DEF VersionRows, VersionState, SameVersion
<1>3. [v EXCEPT ![n].state = "CURRENT"] = [v EXCEPT ![n] = row]
  OBVIOUS
<1> HIDE DEF n, row
<1>4. /\ [v EXCEPT ![n] = row] \in [Docs -> VersionRows]
      /\ \A d \in Docs : [v EXCEPT ![n] = row][d] = IF d = n THEN row ELSE v[d]
  BY <1>1, <1>2
<1>5. /\ [v EXCEPT ![n].state = "CURRENT"] \in [Docs -> VersionRows]
      /\ \A d \in Docs :
            /\ SameVersion([v EXCEPT ![n].state = "CURRENT"][d], versions[d])
            /\ [v EXCEPT ![n].state = "CURRENT"][d].state = IF d = n THEN "CURRENT" ELSE v[d].state
  BY <1>2, <1>3, <1>4
<1> QED
  BY <1>5 DEF n

\* What is settled of a file, when nothing is to be replaced.
LEMMA SettlesBase ==
    ASSUME DriveBase, NEW s \in Syncers, _reconcile_file(s)
    PROVE  /\ DriveBase' /\ pass[s].pc = "reconcile"
           /\ UNCHANGED <<docVars, drive, rows, handVars, counts>>
           /\ pass'[s].pc = "reconcile" /\ pass'[s].file = None
           /\ pass'[s].found = pass[s].found /\ pass'[s].limited = pass[s].limited
           /\ \E f \in Files :
                 /\ f \in pass[s].todo /\ Versions(f) # {}
                 /\ TakesOver(f) => Older(f) = {}
                 /\ pass'[s].todo = pass[s].todo \ {f}
                 /\ \A d \in Docs :
                       /\ SameVersion(versions'[d], versions[d])
                       /\ versions'[d].state = IF TakesOver(f) /\ d = Newest(f) THEN "CURRENT"
                                               ELSE SettledIn(f)[d].state
<1>0. pass[s] \in PassStates /\ PassFits(pass[s]) /\ Tracks(pass[s])
  BY DEF DriveBase, DriveTypes
<1>1. /\ pass[s].pc = "reconcile"
      /\ UNCHANGED <<docVars, drive, rows, handVars, counts>>
  BY DEF _reconcile_file, At
<1>2. PICK f \in pass[s].todo :
         /\ TakesOver(f) => Older(f) = {}
         /\ versions' = IF TakesOver(f) THEN [SettledIn(f) EXCEPT ![Newest(f)].state = "CURRENT"]
                        ELSE SettledIn(f)
         /\ Reconciled(s, f)
  BY DEF _reconcile_file
<1> DEFINE p == [pass[s] EXCEPT !.pc = "reconcile", !.todo = @ \ {f}, !.file = None, !.doc = None]
<1>3. f \in Files /\ Versions(f) # {} /\ Goes(s, p)
  BY <1>0, <1>1, <1>2 DEF Tracks, PassStates, Reconciled
<1>4. /\ versions' \in [Docs -> VersionRows]
      /\ \A d \in Docs :
            /\ SameVersion(versions'[d], versions[d])
            /\ versions'[d].state = IF TakesOver(f) /\ d = Newest(f) THEN "CURRENT"
                                    ELSE SettledIn(f)[d].state
  <2>1. /\ SettledIn(f) \in [Docs -> VersionRows]
        /\ \A d \in Docs : SameVersion(SettledIn(f)[d], versions[d])
    BY <1>3, Settles
  <2>2. CASE TakesOver(f)
    BY <1>2, <1>3, <2>1, <2>2, CurrentSet
  <2>3. CASE ~TakesOver(f)
    BY <1>2, <2>1, <2>3
  <2> QED
    BY <2>2, <2>3
<1>5. p \in PassStates /\ p.pc = "reconcile"
  BY <1>0 DEF PassStates, Between
<1>6. PassFits(p) /\ Tracks(p)
  BY <1>0, <1>1 DEF Tracks, PassFits, Between, OnListed, OnKnown, OnGone, Replacing
<1> HIDE DEF p
<1>7. DriveBase' /\ pass'[s] = p
  BY <1>1, <1>3, <1>4, <1>5, <1>6, PassBase
  DEF DriveBase, DriveTypes, docVars, lifeVars, handVars, counts, SameVersion
<1>8. /\ p.pc = "reconcile" /\ p.file = None /\ p.todo = pass[s].todo \ {f}
      /\ p.found = pass[s].found /\ p.limited = pass[s].limited
  BY <1>0 DEF p, PassStates
<1> QED
  BY <1>1, <1>2, <1>3, <1>4, <1>7, <1>8

\* The status of an older version is written.
LEMMA SupersedesTo ==
    ASSUME DriveBase, NEW s \in Syncers, NEW f \in Files, f \in pass[s].todo,
           pass[s].pc \in {"reconcile", "supersede"},
           NEW left, left \subseteq Versions(f), left # {},
           Supersedes(s, f, left), versions' \in [Docs -> VersionRows],
           \A d \in Docs : SameVersion(versions'[d], versions[d])
    PROVE  /\ DriveBase' /\ Min(left) \in left /\ Min(left) \in Docs
           /\ life' = [life EXCEPT ![Min(left)] = IF Erased(Min(left)) THEN @ ELSE "superseded"]
           /\ pass'[s].pc = "superseded" /\ pass'[s].file = f /\ pass'[s].doc = Min(left)
           /\ pass'[s].left = left \ {Min(left)} /\ SamePass(pass'[s], pass[s])
           /\ UNCHANGED <<content, tier, hidden, drive, rows, restoring, byHand, counts>>
<1>0. pass[s] \in PassStates /\ PassFits(pass[s]) /\ Tracks(pass[s])
  BY DEF DriveBase, DriveTypes
<1>1. Min(left) \in left /\ left \subseteq Docs
  BY MinIn, DriveAssumption DEF Versions
<1> DEFINE d == Min(left)
           p == [pass[s] EXCEPT !.pc = "superseded", !.file = f, !.doc = d, !.left = left \ {d}]
<1>2. /\ life' = [life EXCEPT ![d] = IF Erased(d) THEN @ ELSE "superseded"] /\ Goes(s, p)
      /\ UNCHANGED <<content, tier, hidden, drive, rows, restoring, byHand, counts>>
  BY DEF Supersedes
<1>3. d \in Docs /\ d \in left
  BY <1>1
<1> HIDE DEF d
<1>4. p \in PassStates /\ p.pc = "superseded"
  BY <1>0, <1>1, <1>3 DEF PassStates, Replacing
<1>5. PassFits(p) /\ Tracks(p)
  BY <1>0, <1>3, DriveAssumption
  DEF PassStates, Tracks, PassFits, Between, OnListed, OnKnown, OnGone, Replacing
<1>6. life[d] # "absent"
  BY <1>3, DriveAssumption DEF Versions, DriveBase, InOrder
<1>7. /\ life' \in [Docs -> Lives]
      /\ \A e \in Docs : life'[e] # "absent" <=> life[e] # "absent"
  BY <1>2, <1>3, <1>6 DEF DriveBase, DriveTypes, Lives
<1> HIDE DEF p
<1>8. DriveBase' /\ pass'[s] = p
  BY <1>2, <1>4, <1>5, <1>7, PassBase DEF DriveBase, DriveTypes, counts, SameVersion
<1>9. /\ p.pc = "superseded" /\ p.file = f /\ p.doc = d /\ p.left = left \ {d}
      /\ SamePass(p, pass[s])
  BY <1>0 DEF p, PassStates, SamePass
<1> QED
  BY <1>1, <1>2, <1>3, <1>8, <1>9 DEF d

\* The first of several older versions, together with what was settled.
LEMMA ReplacesBase ==
    ASSUME DriveBase, NEW s \in Syncers, _reconcile_replaces(s)
    PROVE  /\ DriveBase' /\ pass[s].pc = "reconcile"
           /\ UNCHANGED <<content, tier, hidden, drive, rows, restoring, byHand, counts>>
           /\ pass'[s].pc = "superseded" /\ SamePass(pass'[s], pass[s])
           /\ \E f \in Files :
                 /\ f \in pass[s].todo /\ Versions(f) # {} /\ TakesOver(f)
                 /\ Min(Older(f)) \in Older(f) /\ Min(Older(f)) \in Docs
                 /\ life' = [life EXCEPT ![Min(Older(f))] =
                                IF Erased(Min(Older(f))) THEN @ ELSE "superseded"]
                 /\ pass'[s].file = f /\ pass'[s].doc = Min(Older(f))
                 /\ pass'[s].left = Older(f) \ {Min(Older(f))}
                 /\ versions' = SettledIn(f)
<1>0. pass[s] \in PassStates /\ PassFits(pass[s]) /\ Tracks(pass[s])
  BY DEF DriveBase, DriveTypes
<1>1. PICK f \in pass[s].todo :
         /\ TakesOver(f) /\ Older(f) # {}
         /\ versions' = SettledIn(f)
         /\ Supersedes(s, f, Older(f))
  BY DEF _reconcile_replaces
<1>2. /\ pass[s].pc = "reconcile" /\ f \in Files /\ Versions(f) # {}
      /\ Older(f) \subseteq Versions(f)
  BY <1>0, <1>1 DEF _reconcile_replaces, At, Tracks, PassStates, Older
<1>3. /\ SettledIn(f) \in [Docs -> VersionRows]
      /\ \A d \in Docs : SameVersion(SettledIn(f)[d], versions[d])
  BY <1>2, Settles
<1>4. /\ DriveBase' /\ Min(Older(f)) \in Older(f) /\ Min(Older(f)) \in Docs
      /\ life' = [life EXCEPT ![Min(Older(f))] =
                     IF Erased(Min(Older(f))) THEN @ ELSE "superseded"]
      /\ pass'[s].pc = "superseded" /\ pass'[s].file = f /\ pass'[s].doc = Min(Older(f))
      /\ pass'[s].left = Older(f) \ {Min(Older(f))} /\ SamePass(pass'[s], pass[s])
      /\ UNCHANGED <<content, tier, hidden, drive, rows, restoring, byHand, counts>>
  BY <1>1, <1>2, <1>3, SupersedesTo
<1> QED
  BY <1>1, <1>2, <1>4

\* The next of several older versions; those that are hidden by now are SUPERSEDED.
LEMMA SupersedesBase ==
    ASSUME DriveBase, NEW s \in Syncers, _supersede(s)
    PROVE  /\ DriveBase' /\ pass[s].pc = "supersede" /\ pass[s].file \in Files
           /\ UNCHANGED <<content, tier, hidden, drive, rows, restoring, byHand, counts>>
           /\ Min(pass[s].left) \in pass[s].left /\ Min(pass[s].left) \in Docs
           /\ life' = [life EXCEPT ![Min(pass[s].left)] =
                          IF Erased(Min(pass[s].left)) THEN @ ELSE "superseded"]
           /\ pass'[s].pc = "superseded" /\ pass'[s].file = pass[s].file
           /\ pass'[s].doc = Min(pass[s].left)
           /\ pass'[s].left = pass[s].left \ {Min(pass[s].left)} /\ SamePass(pass'[s], pass[s])
           /\ \A d \in Docs :
                 /\ SameVersion(versions'[d], versions[d])
                 /\ versions'[d].state =
                       IF d \in StillOlder(pass[s].file) \ pass[s].left THEN "SUPERSEDED"
                       ELSE versions[d].state
<1>0. pass[s] \in PassStates /\ PassFits(pass[s]) /\ Tracks(pass[s])
  BY DEF DriveBase, DriveTypes
<1> DEFINE f == pass[s].file
           left == pass[s].left
           ds == StillOlder(f) \ left
<1>1. /\ pass[s].pc = "supersede" /\ f \in Files /\ f \in pass[s].todo
      /\ left \subseteq Versions(f) /\ left # {}
      /\ versions' = WithState(ds, "SUPERSEDED") /\ Supersedes(s, f, left)
  BY <1>0 DEF _supersede, At, Tracks, PassFits, PassStates, Between, Replacing
<1>2. ds \subseteq Docs /\ \A d \in ds : versions[d].state # "none"
  BY DEF StillOlder, InState, Versions
<1>3. "SUPERSEDED" \in VersionState
  BY DEF VersionState
<1> HIDE DEF ds
<1>4. /\ versions' \in [Docs -> VersionRows]
      /\ \A d \in Docs :
            /\ SameVersion(versions'[d], versions[d])
            /\ versions'[d].state = IF d \in ds THEN "SUPERSEDED" ELSE versions[d].state
  <2> DEFINE v == WithState(ds, "SUPERSEDED")
  <2>1. /\ v \in [Docs -> VersionRows]
        /\ \A d \in Docs :
              /\ SameVersion(v[d], versions[d])
              /\ v[d].state = IF d \in ds THEN "SUPERSEDED" ELSE versions[d].state
    BY <1>2, <1>3, StatesSet
  <2>2. versions' = v
    BY <1>1
  <2> HIDE DEF v
  <2> QED
    BY <2>1, <2>2
<1>5. /\ DriveBase' /\ Min(left) \in left /\ Min(left) \in Docs
      /\ life' = [life EXCEPT ![Min(left)] = IF Erased(Min(left)) THEN @ ELSE "superseded"]
      /\ pass'[s].pc = "superseded" /\ pass'[s].file = f /\ pass'[s].doc = Min(left)
      /\ pass'[s].left = left \ {Min(left)} /\ SamePass(pass'[s], pass[s])
      /\ UNCHANGED <<content, tier, hidden, drive, rows, restoring, byHand, counts>>
  BY <1>1, <1>4, SupersedesTo
<1> QED
  BY <1>1, <1>4, <1>5 DEF ds

\* The newest version becomes CURRENT, and those still before it SUPERSEDED.
LEMMA CurrentBase ==
    ASSUME DriveBase, NEW s \in Syncers, _reconcile_settles(s)
    PROVE  /\ DriveBase' /\ pass[s].pc = "settle" /\ pass[s].file \in Files
           /\ Versions(pass[s].file) # {}
           /\ UNCHANGED <<docVars, drive, rows, handVars, counts>>
           /\ pass'[s].pc = "reconcile" /\ pass'[s].file = None
           /\ pass'[s].todo = pass[s].todo \ {pass[s].file}
           /\ pass'[s].found = pass[s].found /\ pass'[s].limited = pass[s].limited
           /\ \A d \in Docs :
                 /\ SameVersion(versions'[d], versions[d])
                 /\ versions'[d].state =
                       IF d = Newest(pass[s].file) THEN "CURRENT"
                       ELSE IF d \in StillOlder(pass[s].file) THEN "SUPERSEDED"
                       ELSE versions[d].state
<1>0. pass[s] \in PassStates /\ PassFits(pass[s]) /\ Tracks(pass[s])
  BY DEF DriveBase, DriveTypes
<1> DEFINE f == pass[s].file
           v == WithState(StillOlder(f), "SUPERSEDED")
           p == [pass[s] EXCEPT !.pc = "reconcile", !.todo = @ \ {f}, !.file = None, !.doc = None]
<1>1. /\ pass[s].pc = "settle" /\ f \in Files /\ Versions(f) # {}
      /\ versions' = [v EXCEPT ![Newest(f)].state = "CURRENT"]
      /\ Goes(s, p) /\ UNCHANGED <<docVars, drive, rows, handVars, counts>>
  BY <1>0 DEF _reconcile_settles, Reconciled, At, Tracks, PassFits, PassStates, Between, Replacing
<1>2. StillOlder(f) \subseteq Docs /\ \A d \in StillOlder(f) : versions[d].state # "none"
  BY DEF StillOlder, InState, Versions
<1>3. /\ v \in [Docs -> VersionRows]
      /\ \A d \in Docs :
            /\ SameVersion(v[d], versions[d])
            /\ v[d].state = IF d \in StillOlder(f) THEN "SUPERSEDED" ELSE versions[d].state
  <2>1. "SUPERSEDED" \in VersionState
    BY DEF VersionState
  <2> QED
    BY <1>2, <2>1, StatesSet
<1> HIDE DEF v
<1>4. /\ versions' \in [Docs -> VersionRows]
      /\ \A d \in Docs :
            /\ SameVersion(versions'[d], versions[d])
            /\ versions'[d].state = IF d = Newest(f) THEN "CURRENT" ELSE v[d].state
  BY <1>1, <1>3, CurrentSet
<1>5. p \in PassStates /\ p.pc = "reconcile"
  BY <1>0 DEF PassStates, Between
<1>6. PassFits(p) /\ Tracks(p)
  BY <1>0, <1>1 DEF Tracks, PassFits, Between, OnListed, OnKnown, OnGone, Replacing
<1> HIDE DEF p
<1>7. DriveBase' /\ pass'[s] = p
  BY <1>1, <1>4, <1>5, <1>6, PassBase
  DEF DriveBase, DriveTypes, docVars, lifeVars, handVars, counts, SameVersion
<1>8. /\ p.pc = "reconcile" /\ p.file = None /\ p.todo = pass[s].todo \ {f}
      /\ p.found = pass[s].found /\ p.limited = pass[s].limited
  BY <1>0 DEF p, PassStates
<1> QED
  BY <1>1, <1>3, <1>4, <1>7, <1>8

\* A file that is gone is REMOVED, with the versions that were hidden for it.
LEMMA RetireMarksBase ==
    ASSUME DriveBase, NEW s \in Syncers, _retire_marks(s)
    PROVE  /\ DriveBase' /\ pass[s].pc = "retired" /\ pass[s].file \in Files
           /\ UNCHANGED <<docVars, drive, handVars, counts>>
           /\ pass'[s].pc \in {"retire", "reconcile"} /\ pass'[s].file = None
           /\ pass'[s].found = pass[s].found /\ pass'[s].limited = pass[s].limited
           /\ \A f \in Files \ {pass[s].file} : rows'[f] = rows[f]
           /\ rows'[pass[s].file].state = "REMOVED"
           /\ rows'[pass[s].file].doc = rows[pass[s].file].doc
           /\ rows'[pass[s].file].mark = rows[pass[s].file].mark
           /\ rows'[pass[s].file].tier = rows[pass[s].file].tier
           /\ \A d \in Docs :
                 /\ SameVersion(versions'[d], versions[d])
                 /\ versions'[d].state =
                       IF d \in InState(pass[s].file, {"CURRENT", "PENDING"}) THEN "REMOVED"
                       ELSE versions[d].state
<1>0. pass[s] \in PassStates /\ PassFits(pass[s]) /\ Tracks(pass[s])
  BY DEF DriveBase, DriveTypes
<1> DEFINE f == pass[s].file
           ds == InState(f, {"CURRENT", "PENDING"})
           v == WithState(ds, "REMOVED")
           p == AfterRetiring(s, pass[s].todo \ {f}, {f})
<1>1. pass[s].pc = "retired" /\ f \in Files /\ pass[s].left = {}
  BY <1>0 DEF _retire_marks, At, PassFits, PassStates, Between
<1>2. /\ versions' = v /\ rows' = [rows EXCEPT ![f].state = "REMOVED"]
      /\ Goes(s, p) /\ UNCHANGED <<docVars, drive, handVars, counts>>
  BY DEF _retire_marks, WithState
<1>3. /\ v \in [Docs -> VersionRows]
      /\ \A d \in Docs :
            /\ SameVersion(v[d], versions[d])
            /\ v[d].state = IF d \in ds THEN "REMOVED" ELSE versions[d].state
  <2>1. ds \subseteq Docs /\ \A d \in ds : versions[d].state # "none"
    BY DEF InState, Versions
  <2>2. "REMOVED" \in VersionState
    BY DEF VersionState
  <2> HIDE DEF ds
  <2> QED
    BY <2>1, <2>2, StatesSet
<1> HIDE DEF v
<1>4. /\ rows' \in [Files -> FileRows]
      /\ \A g \in Files \ {f} : rows'[g] = rows[g]
      /\ rows'[f].state = "REMOVED" /\ \A g \in Files : rows'[g].doc = rows[g].doc
      /\ rows'[f].mark = rows[f].mark /\ rows'[f].tier = rows[f].tier
  <2>1. rows \in [Files -> FileRows]
    BY DEF DriveBase, DriveTypes
  <2> DEFINE row == [rows[f] EXCEPT !.state = "REMOVED"]
  <2>2. /\ row \in FileRows /\ row.state = "REMOVED" /\ row.doc = rows[f].doc
        /\ row.mark = rows[f].mark /\ row.tier = rows[f].tier
    BY <1>1, <2>1 DEF FileRows, DriveFileState
  <2>3. rows' = [rows EXCEPT ![f] = row]
    BY <1>2
  <2> HIDE DEF row
  <2> QED
    BY <1>1, <2>1, <2>2, <2>3
<1>5. /\ p \in PassStates /\ p.pc \in {"retire", "reconcile"} /\ p.file = None /\ p.left = {}
      /\ p.found = pass[s].found /\ p.limited = pass[s].limited
      /\ p.pc = "retire" => p.todo = pass[s].todo \ {f}
      /\ p.pc = "reconcile" => p.todo = {g \in Files \ {f} : InState(g, {"PENDING"}) # {}}
  BY <1>0, <1>1 DEF AfterRetiring, PassStates, Between
<1> HIDE DEF p
<1>6. /\ pass' \in [Syncers -> PassStates] /\ pass'[s] = p /\ Alone'
      /\ \A t \in Syncers \ {s} : pass'[t] = pass[t] /\ pass[t].pc = "idle"
  BY <1>1, <1>2, <1>5, PassMoves
<1>7. \A t \in Syncers : PassFits(pass[t])'
  <2>1. \A g \in pass[s].todo \ {f} : rows'[g].state = "IMPORTED" /\ pass[s].found[g] = None
    BY <1>0, <1>1, <1>4 DEF PassFits, PassStates, OnGone
  <2>2. PassFits(pass[s])'
    <3>1. CASE p.pc = "retire"
      BY <1>5, <1>6, <2>1, <3>1
      DEF PassFits, Between, OnListed, OnKnown, OnGone, Replacing
    <3>2. CASE p.pc = "reconcile"
      BY <1>5, <1>6, <3>2 DEF PassFits, Between, OnListed, OnKnown, OnGone, Replacing
    <3> QED
      BY <1>5, <3>1, <3>2
  <2> QED
    BY <1>6, <2>2, FitsAgain
<1>8. \A t \in Syncers : Tracks(pass[t])'
  <2>1. \A g : Versions(g)' = Versions(g)
    BY <1>2, <1>3 DEF Versions, SameVersion
  <2>2. \A t \in Syncers \ {s} : Tracks(pass[t])'
    BY <1>6 DEF Tracks, Replacing
  <2>3. Tracks(pass[s])'
    BY <1>5, <1>6, <2>1 DEF Tracks, InState, Replacing
  <2> QED
    BY <2>2, <2>3
<1>9. InOrder'
  <2>1. \A t \in Syncers : pass'[t].pc \notin {"received", "recorded"}
    BY <1>5, <1>6
  <2> QED
    BY <1>2, <1>3, <1>4, <2>1, OrderKept DEF docVars, lifeVars, SameVersion
<1>10. DriveTypes'
  BY <1>2, <1>3, <1>4, <1>6
  DEF DriveBase, DriveTypes, docVars, lifeVars, handVars, counts
<1>11. Known'
  <2>1. rows[f].doc # None
    BY <1>0, <1>1 DEF PassFits, OnGone, DriveBase, Known
  <2>2. \A g \in Files \ {f} : rows'[g].state \in {"IMPORTED", "REMOVED"} => rows'[g].doc # None
    BY <1>4 DEF DriveBase, Known
  <2> HIDE DEF f
  <2> QED
    BY <1>4, <2>1, <2>2 DEF Known
<1> QED
  BY <1>1, <1>2, <1>3, <1>4, <1>5, <1>6, <1>7, <1>8, <1>9, <1>10, <1>11 DEF DriveBase, ds

\* What is imported now gets a new document: younger than all, and not yet a version.
LEMMA ReceivesBase ==
    ASSUME DriveBase, NEW s \in Syncers, NEW f \in Files, sync_receives(s, f)
    PROVE  /\ DriveBase' /\ pass[s].pc = "files" /\ f \in pass[s].todo
           /\ Item(s, f) # None /\ ~IsUnchanged(f, Item(s, f))
           /\ pass'[s].pc = "received" /\ pass'[s].file = f /\ SamePass(pass'[s], pass[s])
           /\ UNCHANGED <<hidden, drive, rows, versions, handVars, counts>>
           /\ \E d \in Docs :
                 /\ life[d] = "absent" /\ life' = [life EXCEPT ![d] = "received"]
                 /\ versions[d].state = "none" /\ versions[d].file = None
                 /\ tier' = [tier EXCEPT ![d] = _inherited_tier(f, Item(s, f))]
                 /\ _inherited_tier(f, Item(s, f)) \in Tiers
                 /\ ~is_stricter(Item(s, f).tier, _inherited_tier(f, Item(s, f)))
                 /\ pass'[s].doc = d
<1>0. pass[s] \in PassStates /\ PassFits(pass[s]) /\ Tracks(pass[s])
  BY DEF DriveBase, DriveTypes
<1> DEFINE free == {e \in Docs : life[e] = "absent"}
           d == Min(free)
           p == [pass[s] EXCEPT !.pc = "received", !.file = f, !.doc = d]
           t == _inherited_tier(f, Item(s, f))
<1>1. /\ pass[s].pc = "files" /\ f \in pass[s].todo /\ ~IsUnchanged(f, Item(s, f))
      /\ free # {} /\ life[d] = "absent" /\ life' = [life EXCEPT ![d] = "received"]
      /\ tier' = [tier EXCEPT ![d] = t] /\ Goes(s, p)
      /\ UNCHANGED <<hidden, drive, rows, versions, handVars, counts>>
  BY DEF sync_receives, At, Receives_, Moves
<1>2. d \in Docs /\ \A e \in free : d <= e
  BY <1>1, MinIn, DriveAssumption
<1>3. \A e \in Docs : life[e] # "absent" => e <= d
  <2> SUFFICES ASSUME NEW e \in Docs, life[e] # "absent" PROVE e <= d
    OBVIOUS
  <2>1. e \in Nat /\ d \in Nat
    BY <1>2, DriveAssumption
  <2> HIDE DEF d
  <2>2. ~(d < e)
    BY <1>1, <1>2 DEF DriveBase, InOrder
  <2> QED
    BY <2>1, <2>2
<1>4. Item(s, f) # None /\ Item(s, f) \in Items
  BY <1>0, <1>1 DEF PassFits, PassStates, Item
<1>5. t \in Tiers /\ ~is_stricter(Item(s, f).tier, t)
  BY <1>4 DEF _inherited_tier, is_stricter, Items, Tiers
<1> HIDE DEF d, t, free
<1>6. versions[d].file = None /\ versions[d].state = "none"
  BY <1>1, <1>2 DEF DriveBase, InOrder
<1>7. p \in PassStates /\ p.pc = "received" /\ p.doc = d /\ p.file = f
  BY <1>0, <1>2 DEF PassStates, OnListed
<1>8. PassFits(p) /\ Tracks(p)
  BY <1>0, <1>1, <1>2, <1>4, DriveAssumption
  DEF Tracks, PassStates, PassFits, Item, Between, OnListed, OnKnown, OnGone, Replacing
<1> HIDE DEF p
<1>9. /\ pass' \in [Syncers -> PassStates] /\ pass'[s] = p
      /\ \A u \in Syncers \ {s} : pass'[u] = pass[u] /\ pass[u].pc = "idle"
      /\ Alone' /\ \A u \in Syncers : PassFits(pass[u])'
  BY <1>1, <1>7, <1>8, Proceeds
<1>10. \A u \in Syncers : Tracks(pass[u])'
  <2>1. \A g : Versions(g)' = Versions(g)
    BY <1>1 DEF Versions
  <2> QED
    BY <1>7, <1>8, <1>9, <2>1 DEF Tracks, Replacing
<1>11. /\ life' \in [Docs -> Lives] /\ life'[d] = "received"
       /\ \A e \in Docs \ {d} : life'[e] = life[e]
  BY <1>1, <1>2 DEF DriveBase, DriveTypes, Lives
<1>12. DriveTypes' /\ Known'
  BY <1>1, <1>2, <1>5, <1>9, <1>11 DEF DriveBase, DriveTypes, Known, handVars, counts
<1>13. InOrder'
  <2>1. \A a, b \in Docs : life'[a] # "absent" /\ b < a => life'[b] # "absent"
    <3> SUFFICES ASSUME NEW a \in Docs, NEW b \in Docs, life'[a] # "absent", b < a,
                        life'[b] = "absent"
                 PROVE  FALSE
      OBVIOUS
    <3>1. a \in Nat /\ b \in Nat /\ d \in Nat
      BY <1>2, DriveAssumption
    <3>2. b # d /\ life[b] = "absent" /\ a <= d /\ d <= b
      BY <1>2, <1>3, <1>11 DEF free
    <3> QED
      BY <3>1, <3>2
  <2>2. \A g \in Files : rows'[g].doc # None => life'[rows'[g].doc] # "absent"
    BY <1>1, <1>11 DEF DriveBase, InOrder, DriveTypes, FileRows
  <2>3. \A e \in Docs : versions'[e].file # None =>
           /\ rows'[versions'[e].file].doc # None /\ e <= rows'[versions'[e].file].doc
           /\ life'[e] # "absent"
    BY <1>1, <1>11 DEF DriveBase, InOrder
  <2>4. \A e \in Docs : versions'[e].file # None <=> versions'[e].state # "none"
    BY <1>1 DEF DriveBase, InOrder
  <2>5. \A u \in Syncers : pass'[u].pc \in {"received", "recorded"} =>
           /\ versions'[pass'[u].doc].file = None /\ life'[pass'[u].doc] # "absent"
           /\ \A e \in Docs : life'[e] # "absent" => e <= pass'[u].doc
    <3>1. \A e \in Docs : life'[e] # "absent" => e <= d
      <4>1. d <= d
        BY <1>2, DriveAssumption
      <4> QED
        BY <1>3, <1>11, <4>1
    <3> QED
      BY <1>1, <1>6, <1>7, <1>9, <1>11, <3>1
  <2> QED
    BY <2>1, <2>2, <2>3, <2>4, <2>5 DEF InOrder
<1>14. DriveBase'
  BY <1>9, <1>10, <1>12, <1>13 DEF DriveBase
<1>15. SamePass(p, pass[s])
  BY <1>0 DEF p, PassStates, SamePass
<1> QED
  BY <1>1, <1>2, <1>4, <1>5, <1>6, <1>7, <1>9, <1>14, <1>15 DEF t

\* The file's row names it,
LEMMA RecordsBase ==
    ASSUME DriveBase, NEW s \in Syncers, sync_records(s)
    PROVE  /\ DriveBase' /\ pass[s].pc = "received"
           /\ pass[s].file \in Files /\ pass[s].doc \in Docs
           /\ Item(s, pass[s].file) # None
           /\ UNCHANGED <<docVars, drive, versions, handVars, counts>>
           /\ pass'[s].pc = "recorded" /\ pass'[s].file = pass[s].file
           /\ pass'[s].doc = pass[s].doc /\ SamePass(pass'[s], pass[s])
           /\ \A g \in Files \ {pass[s].file} : rows'[g] = rows[g]
           /\ rows'[pass[s].file].state = "IMPORTED"
           /\ rows'[pass[s].file].doc = pass[s].doc
           /\ rows'[pass[s].file].mark = Item(s, pass[s].file).mark
           /\ rows'[pass[s].file].tier = Item(s, pass[s].file).tier
<1>0. pass[s] \in PassStates /\ PassFits(pass[s]) /\ Tracks(pass[s])
  BY DEF DriveBase, DriveTypes
<1> DEFINE f == pass[s].file
           d == pass[s].doc
           p == [pass[s] EXCEPT !.pc = "recorded"]
<1>1. /\ pass[s].pc = "received" /\ _record(s, f, "IMPORTED", d) /\ Goes(s, p)
      /\ UNCHANGED <<docVars, drive, versions, handVars, counts>>
  BY DEF sync_records, At
<1>2. f \in Files /\ d \in Docs /\ Item(s, f) # None
  BY <1>0, <1>1 DEF PassFits, PassStates, Item, Between, OnListed
<1>3. /\ rows' \in [Files -> FileRows]
      /\ \A g \in Files \ {f} : rows'[g] = rows[g]
      /\ rows'[f].state = "IMPORTED" /\ rows'[f].doc = d
      /\ rows'[f].mark = Item(s, f).mark /\ rows'[f].tier = Item(s, f).tier
  <2>1. "IMPORTED" \in DriveFileState
    BY DEF DriveFileState
  <2>2. d # None
    BY <1>2, DriveAssumption
  <2> HIDE DEF f, d
  <2> QED
    BY <1>1, <1>2, <2>1, <2>2, Records DEF DriveBase
<1>4. p \in PassStates /\ p.pc = "recorded" /\ p.doc = d /\ p.file = f /\ p.found = pass[s].found
  BY <1>0 DEF PassStates, OnListed
<1>5. p.todo = pass[s].todo /\ p.left = {}
  BY <1>0, <1>1 DEF PassStates, PassFits
<1> HIDE DEF p
<1>6. /\ pass' \in [Syncers -> PassStates] /\ pass'[s] = p /\ Alone'
      /\ \A t \in Syncers \ {s} : pass'[t] = pass[t] /\ pass[t].pc = "idle"
  BY <1>1, <1>4, PassMoves
<1>7. \A t \in Syncers : PassFits(pass[t])'
  <2>1. PassFits(pass[s])'
    BY <1>0, <1>1, <1>2, <1>3, <1>4, <1>5, <1>6, DriveAssumption
    DEF PassFits, Item, Between, OnListed, OnKnown, OnGone, Replacing
  <2> QED
    BY <1>6, <2>1, FitsAgain
<1>8. \A t \in Syncers : Tracks(pass[t])'
  BY <1>4, <1>6 DEF Tracks, Replacing
<1>9. DriveTypes' /\ Known'
  BY <1>1, <1>2, <1>3, <1>6, DriveAssumption
  DEF DriveBase, DriveTypes, Known, docVars, lifeVars, handVars, counts
<1>10. InOrder'
  <2>1. /\ versions[d].file = None /\ life[d] # "absent"
        /\ \A e \in Docs : life[e] # "absent" => e <= d
    BY <1>1 DEF DriveBase, InOrder
  <2>2. UNCHANGED <<life, versions>>
    BY <1>1 DEF docVars, lifeVars
  <2>3. \A g \in Files : rows'[g].doc # None => life'[rows'[g].doc] # "absent"
    BY <1>2, <1>3, <2>1, <2>2 DEF DriveBase, InOrder
  <2>4. \A e \in Docs : versions'[e].file # None =>
           /\ rows'[versions'[e].file].doc # None /\ e <= rows'[versions'[e].file].doc
           /\ life'[e] # "absent"
    <3> SUFFICES ASSUME NEW e \in Docs, versions[e].file # None
                 PROVE  /\ rows'[versions[e].file].doc # None
                        /\ e <= rows'[versions[e].file].doc
                        /\ life[e] # "absent"
      BY <2>2
    <3>1. /\ rows[versions[e].file].doc # None /\ e <= rows[versions[e].file].doc
          /\ life[e] # "absent" /\ versions[e].file \in Files
      BY DEF DriveBase, InOrder, DriveTypes, VersionRows
    <3>2. e <= d /\ d # None
      BY <1>2, <2>1, <3>1, DriveAssumption
    <3> HIDE DEF f, d
    <3>3. CASE versions[e].file = f
      BY <1>3, <3>1, <3>2, <3>3
    <3>4. CASE versions[e].file # f
      BY <1>3, <3>1, <3>4
    <3> QED
      BY <3>3, <3>4
  <2>5. \A t \in Syncers : pass'[t].pc \in {"received", "recorded"} =>
           /\ versions'[pass'[t].doc].file = None /\ life'[pass'[t].doc] # "absent"
           /\ \A e \in Docs : life'[e] # "absent" => e <= pass'[t].doc
    BY <1>4, <1>6, <2>1, <2>2
  <2> QED
    BY <2>2, <2>3, <2>4, <2>5 DEF DriveBase, InOrder
<1>11. SamePass(p, pass[s])
  BY <1>0 DEF p, PassStates, SamePass
<1> QED
  BY <1>1, <1>2, <1>3, <1>4, <1>6, <1>7, <1>8, <1>9, <1>10, <1>11 DEF DriveBase

\* and it is the file's newest version.
LEMMA AddsBase ==
    ASSUME DriveBase, NEW s \in Syncers, sync_adds_version(s)
    PROVE  /\ DriveBase' /\ pass[s].pc = "recorded"
           /\ pass[s].file \in Files /\ pass[s].doc \in Docs
           /\ Item(s, pass[s].file) # None
           /\ versions[pass[s].doc].state = "none"
           /\ rows[pass[s].file].state = "IMPORTED" /\ rows[pass[s].file].doc = pass[s].doc
           /\ rows[pass[s].file].mark = Item(s, pass[s].file).mark
           /\ \A e \in Docs : life[e] # "absent" => e <= pass[s].doc
           /\ UNCHANGED <<docVars, drive, rows, handVars, counts>>
           /\ pass'[s].pc = "files" /\ pass'[s].file = None
           /\ pass'[s].todo = pass[s].todo \ {pass[s].file}
           /\ pass'[s].found = pass[s].found /\ pass'[s].limited = pass[s].limited
           /\ \A d \in Docs \ {pass[s].doc} : versions'[d] = versions[d]
           /\ versions'[pass[s].doc].state = "PENDING"
           /\ versions'[pass[s].doc].file = pass[s].file
           /\ versions'[pass[s].doc].mark = Item(s, pass[s].file).mark
<1>0. pass[s] \in PassStates /\ PassFits(pass[s]) /\ Tracks(pass[s])
  BY DEF DriveBase, DriveTypes
<1> DEFINE f == pass[s].file
           d == pass[s].doc
           v == [state |-> "PENDING", file |-> f, mark |-> Item(s, f).mark]
           p == [pass[s] EXCEPT !.pc = "files", !.todo = @ \ {f}, !.file = None, !.doc = None,
                                !.left = {}]
<1>1. /\ pass[s].pc = "recorded" /\ versions' = [versions EXCEPT ![d] = v] /\ FileDone(s, f)
      /\ Goes(s, p) /\ UNCHANGED <<docVars, drive, rows, handVars, counts>>
  BY DEF sync_adds_version, At, FileDone
<1>2. /\ f \in Files /\ d \in Docs /\ Item(s, f) # None /\ Item(s, f) \in Items
      /\ rows[f].state = "IMPORTED" /\ rows[f].doc = d /\ rows[f].mark = Item(s, f).mark
  BY <1>0, <1>1 DEF PassFits, PassStates, Item, Between, OnListed
<1>3. /\ versions[d].file = None /\ life[d] # "absent" /\ versions[d].state = "none"
      /\ \A e \in Docs : life[e] # "absent" => e <= d
  BY <1>1, <1>2 DEF DriveBase, InOrder
<1>4. v \in VersionRows /\ v.file = f /\ v.state = "PENDING"
  BY <1>2 DEF VersionRows, VersionState, Items
<1> HIDE DEF v
<1>5. /\ versions' \in [Docs -> VersionRows] /\ versions'[d] = v
      /\ \A e \in Docs \ {d} : versions'[e] = versions[e]
  BY <1>1, <1>2, <1>4 DEF DriveBase, DriveTypes
<1>6. /\ p \in PassStates /\ p.pc = "files" /\ p.file = None /\ p.left = {}
      /\ \A g \in p.todo : p.found[g] # None
  BY <1>0, <1>1 DEF PassStates, PassFits, Between, OnListed, OnKnown, OnGone, Replacing
<1> HIDE DEF p
<1>7. /\ pass' \in [Syncers -> PassStates] /\ pass'[s] = p /\ Alone'
      /\ \A t \in Syncers \ {s} : pass'[t] = pass[t] /\ pass[t].pc = "idle"
  BY <1>1, <1>6, PassMoves
<1>8. \A t \in Syncers : PassFits(pass[t])'
  <2>1. PassFits(pass[s])'
    BY <1>6, <1>7 DEF PassFits, Between, OnListed, OnKnown, OnGone, Replacing
  <2> QED
    BY <1>7, <2>1, FitsAgain
<1>9. \A t \in Syncers : Tracks(pass[t])'
  BY <1>6, <1>7 DEF Tracks, Replacing
<1>10. DriveTypes' /\ Known'
  BY <1>1, <1>5, <1>7 DEF DriveBase, DriveTypes, Known, docVars, lifeVars, handVars, counts
<1>11. InOrder'
  <2>1. UNCHANGED <<life, rows>>
    BY <1>1 DEF docVars, lifeVars
  <2>2. \A e \in Docs : versions'[e].file # None =>
           /\ rows'[versions'[e].file].doc # None /\ e <= rows'[versions'[e].file].doc
           /\ life'[e] # "absent"
    <3> HIDE DEF f, d
    <3>1. d <= d /\ d # None
      BY <1>2, DriveAssumption
    <3> QED
      BY <1>2, <1>3, <1>4, <1>5, <2>1, <3>1 DEF DriveBase, InOrder
  <2>3. \A e \in Docs : versions'[e].file # None <=> versions'[e].state # "none"
    BY <1>2, <1>4, <1>5, DriveAssumption DEF DriveBase, InOrder
  <2>4. \A t \in Syncers : pass'[t].pc \notin {"received", "recorded"}
    BY <1>6, <1>7
  <2> QED
    BY <2>1, <2>2, <2>3, <2>4 DEF DriveBase, InOrder
<1>12. /\ p.todo = pass[s].todo \ {f} /\ p.found = pass[s].found /\ p.limited = pass[s].limited
       /\ v.mark = Item(s, f).mark
  BY <1>0 DEF p, PassStates, v
<1> QED
  BY <1>1, <1>2, <1>3, <1>4, <1>5, <1>6, <1>7, <1>8, <1>9, <1>10, <1>11, <1>12 DEF DriveBase

(***************************************************************************)
(* Every step, by kind.                                                    *)
(***************************************************************************)
\* An import of a listed file: the document, the record, the version.
Imports(s) ==
    \/ \E f \in Files : sync_receives(s, f)
    \/ sync_records(s) \/ sync_adds_version(s)

\* A file that is back.
Restores(s) == _restore_version(s) \/ \E f \in Files : _restore_document(s, f)

\* A file that is gone.
Retires(s) == _retire_marks(s) \/ \E f \in Files : _retire_vanished(s, f)

\* The versions of a file settled.
SettlesAll(s) ==
    \/ _reconcile_file(s) \/ _reconcile_replaces(s)
    \/ _supersede(s) \/ _supersede_hides(s) \/ _reconcile_settles(s)

\* A step of the pass of s.
PassKinds(s) ==
    \/ Turns(s) \/ (\E f \in Files : FileEnds(s, f) \/ _reclassify(s, f))
    \/ Imports(s) \/ Restores(s) \/ Retires(s) \/ SettlesAll(s)

\* There are no other steps.
LEMMA Kinds ==
    ASSUME DriveBase, [DriveNext]_driveVars
    PROVE  Outside \/ \E s \in Syncers : PassKinds(s)
<1>1. ASSUME NEW s \in Syncers, _record_unchanged(s)
      PROVE  \E f \in Files : FileEnds(s, f)
  <2>1. pass[s].file \in Files
    BY <1>1 DEF _record_unchanged, At, DriveBase, DriveTypes, PassStates, PassFits, Between
  <2> QED
    BY <1>1, <2>1 DEF FileEnds
<1>2. ASSUME NEW s \in Syncers, PassStep(s) \/ PassFails(s)
      PROVE  PassKinds(s)
  BY <1>1, <1>2
  DEF PassStep, PassFails, PassKinds, Turns, FileEnds, Imports, Restores, Retires, SettlesAll
<1>3. ASSUME NEW s \in Syncers, NEW limited \in BOOLEAN, sync_once(s, limited)
      PROVE  PassKinds(s)
  BY <1>3 DEF PassKinds, Turns
<1>4. CASE UNCHANGED driveVars
  BY <1>4 DEF Outside
<1>5. CASE DriveNext
  <2>1. CASE \E s \in Syncers : \/ \E limited \in BOOLEAN : sync_once(s, limited)
                                \/ PassStep(s) \/ PassFails(s)
    BY <1>2, <1>3, <2>1
  <2>2. CASE ~\E s \in Syncers : \/ \E limited \in BOOLEAN : sync_once(s, limited)
                                 \/ PassStep(s) \/ PassFails(s)
    <3>1. CASE \E f \in Files : \/ \E c \in Contents : edits(f, c)
                                \/ \E folders \in SUBSET Tiers : moves(f, folders)
      BY <3>1 DEF Outside
    <3>2. CASE \E d \in Docs : \/ \E t \in Tiers : reclassify_document(d, t)
                               \/ restore_checks(d) \/ restore_writes(d)
                               \/ delete_document(d)
                               \/ PipelineStep(d) \/ ScanStalls(d) \/ StageWritesBack(d)
      BY <3>2 DEF Outside
    <3> QED
      BY <1>5, <2>2, <3>1, <3>2 DEF DriveNext
  <2> QED
    BY <2>1, <2>2
<1> QED
  BY <1>4, <1>5

\* The base is kept by every step.
LEMMA BaseStep ==
    ASSUME DriveBase, [DriveNext]_driveVars
    PROVE  DriveBase'
<1>1. ASSUME NEW s \in Syncers, PassKinds(s)
      PROVE  DriveBase'
  BY <1>1, TurnsBase, FileEndsBase, ReclassifiesBase, ReceivesBase, RecordsBase, AddsBase,
     RestoresVersionBase, RestoresBase, RetireMarksBase, RetiresBase, SettlesBase, ReplacesBase,
     SupersedesBase, HidesBase, CurrentBase
  DEF PassKinds, Imports, Restores, Retires, SettlesAll
<1> QED
  BY <1>1, Kinds, OutsideBase

\* and holds at first.
LEMMA BaseInit ==
    ASSUME DriveInit
    PROVE  DriveBase
<1>1. /\ \A s \in Syncers : pass[s] = NoPass
      /\ \A f \in Files : rows[f] = NoRow
      /\ \A d \in Docs : versions[d] = NoVersion /\ life[d] = "absent"
  BY DEF DriveInit, LifeInit
<1>2. NoPass \in PassStates /\ PassFits(NoPass) /\ Tracks(NoPass) /\ NoPass.pc = "idle"
  BY DEF NoPass, Tracks, PassStates, PassFits, Between, OnListed, OnKnown, OnGone, Replacing
<1>3. DriveTypes
  <2>1. NoRow \in FileRows /\ NoVersion \in VersionRows
    BY DEF NoRow, NoVersion, FileRows, VersionRows
  <2>2. drive \in [Files -> DriveFiles]
    BY DEF DriveInit, DriveFiles
  <2> QED
    BY <1>2, <2>1, <2>2 DEF DriveInit, LifeInit, DriveTypes, Lives
<1>4. Alone /\ Known /\ InOrder
  BY <1>1, <1>2 DEF Alone, Known, InOrder, NoRow, NoVersion
<1> QED
  BY <1>1, <1>2, <1>3, <1>4 DEF DriveBase

\* The base holds throughout.
THEOREM DriveBaseHolds == DriveSpec => []DriveBase
<1>1. DriveBase /\ [DriveNext]_driveVars => DriveBase'
  BY BaseStep
<1> QED
  BY <1>1, BaseInit, PTL DEF DriveSpec

\* Every other step of a pass is one of a pass that was begun.
LEMMA Begun ==
    ASSUME DriveBase, NEW s \in Syncers,
           \/ \E f \in Files : FileEnds(s, f) \/ _reclassify(s, f)
           \/ Imports(s) \/ Restores(s) \/ Retires(s) \/ SettlesAll(s)
    PROVE  pass[s].pc # "idle"
  BY DEF FileEnds, Imports, Restores, Retires, SettlesAll, At, sync_unchanged,
         sync_skips, sync_fails, _record_unchanged, _reclassify, MayReclassify, sync_receives,
         sync_records, sync_adds_version, _restore_version, _restore_document, _retire_marks,
         _retire_vanished, _reconcile_file, _reconcile_replaces, _supersede, _supersede_hides,
         _reconcile_settles

\* While one syncer takes a step of its pass the others are idle.
LEMMA OthersIdle ==
    ASSUME DriveBase, NEW s \in Syncers, PassKinds(s)
    PROVE  \A t \in Syncers \ {s} : pass'[t] = pass[t] /\ pass[t].pc = "idle"
<1>1. pass[s].pc # "idle" \/ sync_lock(s)
  BY Begun, TurnsTo DEF PassKinds
<1>2. \E p : Goes(s, p)
  <2>1. CASE Turns(s)
    BY <2>1, TurnsTo
  <2>2. CASE \E f \in Files : FileEnds(s, f) \/ _reclassify(s, f)
    BY <2>2 DEF FileEnds, sync_unchanged, sync_skips, sync_fails, _record_unchanged, FileDone,
                _reclassify
  <2>3. CASE Imports(s) \/ Restores(s)
    BY <2>3 DEF Imports, Restores, sync_receives, sync_records, sync_adds_version, FileDone,
                _restore_version, _restore_document
  <2>4. CASE Retires(s)
    BY <2>4 DEF Retires, _retire_marks, _retire_vanished
  <2>5. CASE SettlesAll(s)
    BY <2>5 DEF SettlesAll, _reconcile_file, _reconcile_replaces, _supersede, _supersede_hides,
                _reconcile_settles, Reconciled, Supersedes, AfterHiding
  <2> QED
    BY <2>1, <2>2, <2>3, <2>4, <2>5 DEF PassKinds
<1>3. \A t \in Syncers \ {s} : pass'[t] = pass[t]
  BY <1>2 DEF Goes, DriveBase, DriveTypes
<1> QED
  BY <1>1, <1>3 DEF DriveBase, Alone, sync_lock, At

\* What people and the pipeline do to documents, apart from what was done by hand: they only
\* hide what they erase and show none, lower no tier, and a verdict stays.
LEMMA OutsideDoes ==
    ASSUME DriveBase, Outside
    PROVE  /\ byHand \subseteq byHand'
           /\ \A d \in Docs : hidden[d] => hidden'[d] \/ d \in byHand'
           /\ \A d \in Docs : hidden'[d] => hidden[d] \/ Erased(d)'
           /\ \A d \in Docs \ byHand' : tier'[d] = tier[d] \/ tier'[d] = "RESTRICTED"
           /\ \A d \in Docs : life[d] \in {"live", "duplicate"} => life'[d] = life[d]
           /\ \A f \in Native : drive[f].mark <= drive'[f].mark
<1>0. DriveTypes
  BY DEF DriveBase
<1>1. ASSUME NEW f \in Files,
             \/ \E c \in Contents : edits(f, c)
             \/ \E folders \in SUBSET Tiers : moves(f, folders)
      PROVE  /\ UNCHANGED <<docVars, handVars>>
             /\ \A g \in Native : drive[g].mark <= drive'[g].mark
  <2>1. drive[f] \in DriveFiles /\ \A g \in Files : drive[g].mark \in Nat
    BY <1>0 DEF DriveTypes, DriveFiles
  <2>2. \A g \in Files \ {f} : drive'[g] = drive[g]
    BY <1>0, <1>1 DEF edits, moves, Changes, DriveTypes
  <2>3. f \in Native => drive'[f].mark \in {drive[f].mark, drive[f].mark + 1}
    <3>1. ASSUME NEW c \in Contents, edits(f, c), f \in Native
          PROVE  drive'[f].mark = drive[f].mark + 1
      <4> DEFINE now == [drive[f] EXCEPT !.content = c, !.mark = drive[f].mark + 1]
      <4>1. now.mark = drive[f].mark + 1
        BY <2>1 DEF DriveFiles
      <4>2. drive' = [drive EXCEPT ![f] = now]
        BY <3>1 DEF edits, Changes
      <4> HIDE DEF now
      <4> QED
        BY <1>0, <4>1, <4>2 DEF DriveTypes
    <3>2. ASSUME NEW folders \in SUBSET Tiers, moves(f, folders)
          PROVE  drive'[f].mark = drive[f].mark
      <4> DEFINE now == [drive[f] EXCEPT !.folders = folders]
      <4>1. now.mark = drive[f].mark
        BY <2>1 DEF DriveFiles
      <4>2. drive' = [drive EXCEPT ![f] = now]
        BY <3>2 DEF moves, Changes
      <4> HIDE DEF now
      <4> QED
        BY <1>0, <4>1, <4>2 DEF DriveTypes
    <3> QED
      BY <1>1, <3>1, <3>2
  <2>4. UNCHANGED <<docVars, handVars>>
    BY <1>1 DEF edits, moves, Changes
  <2> QED
    BY <2>1, <2>2, <2>3, <2>4, DriveAssumption
<1>2. \A g \in Native : drive[g].mark <= drive[g].mark
  BY <1>0, DriveAssumption DEF DriveTypes, DriveFiles
<1>3. ASSUME NEW d \in Docs, PipelineStep(d) \/ ScanStalls(d) \/ StageWritesBack(d)
      PROVE  /\ UNCHANGED <<hidden, byHand, drive>>
             /\ \A e \in Docs : tier'[e] = tier[e] \/ tier'[e] = "RESTRICTED"
             /\ \A e \in Docs : life[e] \in {"live", "duplicate"} => life'[e] = life[e]
  <2>1. CASE scan_finds_duplicate(d)
    <3>1. PICK e \in Docs :
             tier' = [tier EXCEPT ![e] = IF is_stricter(tier[d], @) THEN tier[d] ELSE @]
      BY <2>1 DEF scan_finds_duplicate, Originals
    <3>2. \A g \in Docs : tier'[g] = tier[g] \/ tier'[g] = "RESTRICTED"
      BY <1>0, <3>1 DEF is_stricter, DriveTypes
    <3> QED
      BY <1>0, <2>1, <3>2 DEF scan_finds_duplicate, Duplicates, Moves, DriveTypes, handVars
  <2>2. CASE ScanStalls(d) \/ StageWritesBack(d) \/ Piped(Accepts(d) \/ Fails(d) \/ GoesLive(d))
    <3>1. UNCHANGED <<tier, hidden, byHand, drive>>
      BY <2>2 DEF ScanStalls, StageWritesBack, Piped, handVars
    <3>2. \E from, to : Moves(d, from, to) /\ from \cap {"live", "duplicate"} = {}
      BY <2>2 DEF ScanStalls, StageWritesBack, Piped, Accepts, Fails, GoesLive, Stalls
    <3> QED
      BY <1>0, <3>1, <3>2 DEF Moves, DriveTypes
  <2> QED
    BY <1>3, <2>1, <2>2 DEF PipelineStep
<1>4. ASSUME NEW d \in Docs,
             \/ \E t \in Tiers : reclassify_document(d, t)
             \/ restore_checks(d) \/ restore_writes(d)
      PROVE  /\ UNCHANGED <<life, drive>> /\ byHand \subseteq byHand'
             /\ \A e \in Docs : hidden[e] => hidden'[e] \/ e \in byHand'
             /\ \A e \in Docs : hidden'[e] => hidden[e]
             /\ \A e \in Docs \ byHand' : tier'[e] = tier[e]
  BY <1>0, <1>4 DEF reclassify_document, restore_checks, restore_writes, DriveTypes, lifeVars,
                    docVars
<1>6. ASSUME NEW d \in Docs, delete_document(d)
      PROVE  /\ UNCHANGED <<life, tier, drive>> /\ byHand \subseteq byHand'
             /\ \A e \in Docs : hidden[e] => hidden'[e]
             /\ \A e \in Docs : hidden'[e] => hidden[e] \/ Erased(e)'
  <2>1. /\ UNCHANGED <<life, tier, drive>> /\ byHand \subseteq byHand' /\ life[d] # "absent"
        /\ \A e \in Docs : hidden'[e] = (hidden[e] \/ e \in ErasedAlong(d))
        /\ \A e \in ErasedAlong(d) : e \in Docs => content'[e] = None
    BY <1>6 DEF delete_document
  <2>2. \A e \in ErasedAlong(d) : life[e] # "absent"
    BY <2>1 DEF ErasedAlong
  <2> QED
    BY <2>1, <2>2 DEF Erased
<1>5. CASE UNCHANGED driveVars
  BY <1>2, <1>5 DEF driveVars, lifeVars, handVars
<1> QED
  BY <1>1, <1>2, <1>3, <1>4, <1>5, <1>6 DEF Outside, docVars, lifeVars, handVars

\* Only an import changes which documents are a file's.
LEMMA Keeps ==
    ASSUME DriveBase, NEW s \in Syncers, PassKinds(s), ~Imports(s)
    PROVE  /\ pass'[s].pc \notin {"received", "recorded"}
           /\ \A f \in Files : rows'[f].doc = rows[f].doc
           /\ \A d \in Docs : SameVersion(versions'[d], versions[d])
<1>0. \A d \in Docs : SameVersion(versions[d], versions[d])
  BY DEF SameVersion
<1>1. CASE Turns(s) \/ \E f \in Files : FileEnds(s, f)
  BY <1>0, <1>1, TurnsBase, FileEndsBase DEF Between
<1>2. CASE \E f \in Files : _reclassify(s, f) \/ _restore_document(s, f) \/ _retire_vanished(s, f)
  <2>1. \/ \E f \in Files : _reclassify(s, f)
        \/ \E f \in Files : _restore_document(s, f)
        \/ \E f \in Files : _retire_vanished(s, f)
    BY <1>2
  <2>2. UNCHANGED <<rows, versions>>
    BY <2>1 DEF _reclassify, _restore_document, _retire_vanished
  <2>3. pass'[s].pc \notin {"received", "recorded"}
    BY <2>1, ReclassifiesBase, RestoresBase, RetiresBase
  <2> QED
    BY <1>0, <2>2, <2>3
<1>3. CASE _restore_version(s)
  <2>1. \A d \in Docs : versions[d] \in VersionRows
    BY DEF DriveBase, DriveTypes
  <2>2. \A d \in Docs : SameVersion(versions'[d], versions[d])
    BY <1>0, <1>3, <2>1, RestoresVersionBase DEF SameVersion, VersionRows
  <2> QED
    BY <1>3, <2>2, RestoresVersionBase
<1>4. CASE _retire_marks(s)
  <2>1. \A f \in Files : rows'[f].doc = rows[f].doc
    BY <1>4, RetireMarksBase
  <2> QED
    BY <1>4, <2>1, RetireMarksBase
<1>5. CASE SettlesAll(s)
  <2>1. /\ pass[s] \in PassStates
        /\ \A f \in Files : \A d \in Docs : SameVersion(SettledIn(f)[d], versions[d])
    BY Settles DEF DriveBase, DriveTypes
  <2>2. CASE _reconcile_file(s)
    BY <2>1, <2>2, SettlesBase DEF PassStates
  <2>3. CASE _reconcile_replaces(s)
    BY <2>1, <2>3, ReplacesBase DEF PassStates
  <2>4. CASE _supersede(s)
    BY <2>1, <2>4, SupersedesBase DEF PassStates
  <2>5. CASE _supersede_hides(s)
    BY <1>0, <2>1, <2>5, HidesBase DEF PassStates
  <2>6. CASE _reconcile_settles(s)
    BY <2>1, <2>6, CurrentBase DEF PassStates
  <2> QED
    BY <1>5, <2>2, <2>3, <2>4, <2>5, <2>6 DEF SettlesAll
<1> QED
  BY <1>1, <1>2, <1>3, <1>4, <1>5 DEF PassKinds, Restores, Retires

\* A document that was received stays so.
LEMMA LivesStay ==
    ASSUME DriveBase, [DriveNext]_driveVars, NEW d \in Docs, life[d] # "absent"
    PROVE  life'[d] # "absent"
<1>1. CASE Outside
  BY <1>1, OutsideMoves DEF DriveBase
<1>2. ASSUME NEW s \in Syncers, PassKinds(s)
      PROVE  \/ life' = life
             \/ \E e \in Docs, l \in Lives \ {"absent"} : life' = [life EXCEPT ![e] = l]
  <2>1. CASE Turns(s) \/ \E f \in Files : FileEnds(s, f) \/ _reclassify(s, f)
    BY <2>1, TurnsBase, FileEndsBase, ReclassifiesBase DEF lifeVars
  <2>2. CASE Imports(s)
    BY <2>2, ReceivesBase, RecordsBase, AddsBase DEF Imports, docVars, lifeVars, Lives
  <2>3. CASE Restores(s) \/ Retires(s)
    BY <2>3, RestoresBase, RestoresVersionBase, RetiresBase, RetireMarksBase
    DEF Restores, Retires, docVars, lifeVars
  <2>4. CASE SettlesAll(s)
    <3>1. CASE _reconcile_replaces(s) \/ _supersede(s)
      <4>1. PICK e \in Docs :
               life' = [life EXCEPT ![e] = IF Erased(e) THEN @ ELSE "superseded"]
        BY <3>1, ReplacesBase, SupersedesBase
      <4> DEFINE l == IF Erased(e) THEN life[e] ELSE "superseded"
      <4>2. l \in Lives \ {"absent"}
        BY DEF DriveBase, DriveTypes, Lives, Erased
      <4>3. life' = [life EXCEPT ![e] = l]
        BY <4>1
      <4> QED
        BY <4>2, <4>3
    <3>2. CASE _reconcile_file(s) \/ _supersede_hides(s) \/ _reconcile_settles(s)
      BY <3>2, SettlesBase, HidesBase, CurrentBase DEF docVars, lifeVars
    <3> QED
      BY <2>4, <3>1, <3>2 DEF SettlesAll
  <2> QED
    BY <1>2, <2>1, <2>2, <2>3, <2>4 DEF PassKinds
<1>3. ASSUME NEW s \in Syncers, PassKinds(s)
      PROVE  life'[d] # "absent"
  BY <1>2, <1>3 DEF DriveBase, DriveTypes
<1> QED
  BY <1>1, <1>3, Kinds

(***************************************************************************)
(* What is erased.                                                         *)
(***************************************************************************)
\* An erased document is in a user's hands.
ErasedInv ==
    /\ content \in [Docs -> Contents \cup {None}]
    /\ \A d \in Docs : Erased(d) => d \in byHand

\* A pass leaves what documents hold alone, but for a new one, and what people did.
LEMMA PassContent ==
    ASSUME DriveBase, NEW s \in Syncers, PassKinds(s)
    PROVE  /\ byHand' = byHand
           /\ \/ /\ content' = content
                 /\ \A d \in Docs : life'[d] # "absent" => life[d] # "absent"
              \/ \E d \in Docs, f \in Files :
                    /\ life[d] = "absent"
                    /\ content' = [content EXCEPT ![d] = drive[f].content]
                    /\ life' = [life EXCEPT ![d] = "received"]
<1>1. CASE Turns(s) \/ \E f \in Files : FileEnds(s, f) \/ _reclassify(s, f)
  BY <1>1
  DEF Turns, FileEnds, sync_once, list_public, list_restricted, files_done, sync_ends, sync_dies,
      sync_unchanged, sync_skips, sync_fails, _record_unchanged, _reclassify, docVars, lifeVars,
      handVars
<1>2. CASE Restores(s) \/ Retires(s)
  BY <1>2 DEF Restores, Retires, _restore_version, _restore_document, _retire_marks,
              _retire_vanished, docVars, lifeVars, handVars
<1>3. CASE _reconcile_file(s) \/ _supersede_hides(s) \/ _reconcile_settles(s)
  BY <1>3 DEF _reconcile_file, _supersede_hides, _reconcile_settles, docVars, lifeVars, handVars
<1>4. ASSUME _reconcile_replaces(s) \/ _supersede(s)
      PROVE  /\ UNCHANGED <<content, byHand>>
             /\ \A d \in Docs : life'[d] # "absent" => life[d] # "absent"
  <2>1. \E e \in Docs : /\ life[e] # "absent"
                        /\ \E l : life' = [life EXCEPT ![e] = l]
    <3>1. CASE _reconcile_replaces(s)
      <4>1. PICK f \in Files :
               /\ Min(Older(f)) \in Older(f) /\ Min(Older(f)) \in Docs
               /\ life' = [life EXCEPT ![Min(Older(f))] =
                              IF Erased(Min(Older(f))) THEN @ ELSE "superseded"]
        BY <3>1, ReplacesBase
      <4>2. life[Min(Older(f))] # "absent"
        BY <4>1, DriveAssumption DEF Older, Versions, DriveBase, InOrder
      <4> QED
        BY <4>1, <4>2
    <3>2. CASE _supersede(s)
      <4>1. /\ Min(pass[s].left) \in pass[s].left /\ Min(pass[s].left) \in Docs
            /\ pass[s].pc = "supersede" /\ pass[s].file \in Files
            /\ life' = [life EXCEPT ![Min(pass[s].left)] =
                           IF Erased(Min(pass[s].left)) THEN @ ELSE "superseded"]
        BY <3>2, SupersedesBase
      <4>2. pass[s].left \subseteq Versions(pass[s].file)
        BY <4>1 DEF DriveBase, Tracks, Replacing
      <4>3. life[Min(pass[s].left)] # "absent"
        BY <4>1, <4>2, DriveAssumption DEF Versions, DriveBase, InOrder
      <4> QED
        BY <4>1, <4>3
    <3> QED
      BY <1>4, <3>1, <3>2
  <2> QED
    BY <1>4, <2>1, ReplacesBase, SupersedesBase DEF DriveBase, DriveTypes
<1>5. CASE sync_records(s) \/ sync_adds_version(s)
  BY <1>5 DEF sync_records, sync_adds_version, docVars, lifeVars, handVars
<1>6. ASSUME NEW f \in Files, sync_receives(s, f)
      PROVE  /\ byHand' = byHand
             /\ \E d \in Docs :
                   /\ life[d] = "absent"
                   /\ content' = [content EXCEPT ![d] = drive[f].content]
                   /\ life' = [life EXCEPT ![d] = "received"]
  <2> DEFINE free == {e \in Docs : life[e] = "absent"}
  <2>1. Min(free) \in free
    <3>1. free # {} /\ free \subseteq Nat
      BY <1>6, DriveAssumption DEF sync_receives
    <3> QED
      BY <3>1, MinIn
  <2>2. Receives_(Min(free), drive[f].content) /\ UNCHANGED handVars
    BY <1>6 DEF sync_receives
  <2> QED
    BY <2>1, <2>2 DEF Receives_, Moves, handVars
<1> QED
  BY <1>1, <1>2, <1>3, <1>4, <1>5, <1>6 DEF PassKinds, Imports, SettlesAll

\* What is erased stays so.
LEMMA ErasedStep ==
    ASSUME DriveBase, ErasedInv, [DriveNext]_driveVars
    PROVE  /\ ErasedInv'
           /\ \A d \in Docs : Erased(d) => Erased(d)'
<1>0. /\ \A d \in Docs : life[d] # "absent" => life'[d] # "absent"
      /\ life \in [Docs -> Lives] /\ \A f \in Files : drive[f].content \in Contents
  BY LivesStay DEF DriveBase, DriveTypes, DriveFiles
<1>1. CASE Outside
  <2>1. \A d \in Docs : life'[d] # "absent" <=> life[d] # "absent"
    BY <1>1, OutsideMoves DEF DriveBase
  <2>2. byHand \subseteq byHand'
    BY <1>1, OutsideDoes
  <2>3. CASE \E d \in Docs : delete_document(d)
    <3>1. PICK d \in Docs : delete_document(d)
      BY <2>3
    <3>2. /\ content' = [e \in Docs |-> IF e \in ErasedAlong(d) THEN None ELSE content[e]]
          /\ byHand' = byHand \cup ErasedAlong(d)
      BY <3>1 DEF delete_document
    <3>3. content' \in [Docs -> Contents \cup {None}]
      BY <3>2 DEF ErasedInv
    <3> QED
      BY <2>1, <3>2, <3>3 DEF ErasedInv, Erased
  <2>4. CASE UNCHANGED content
    BY <2>1, <2>2, <2>4 DEF ErasedInv, Erased
  <2>5. UNCHANGED content \/ \E d \in Docs : delete_document(d)
    BY <1>1
    DEF Outside, edits, moves, Changes, reclassify_document, restore_checks, restore_writes,
        PipelineStep, scan_finds_duplicate, Duplicates, Piped, Accepts, Fails, GoesLive, ScanStalls,
        Stalls, StageWritesBack, driveVars, docVars, lifeVars
  <2> QED
    BY <2>3, <2>4, <2>5
<1>2. ASSUME NEW s \in Syncers, PassKinds(s)
      PROVE  /\ ErasedInv'
             /\ \A d \in Docs : Erased(d) => Erased(d)'
  <2>1. byHand' = byHand
    BY <1>2, PassContent
  <2>2. CASE /\ content' = content
             /\ \A d \in Docs : life'[d] # "absent" => life[d] # "absent"
    BY <1>0, <2>1, <2>2 DEF ErasedInv, Erased
  <2>3. CASE \E d \in Docs, f \in Files :
                /\ life[d] = "absent"
                /\ content' = [content EXCEPT ![d] = drive[f].content]
                /\ life' = [life EXCEPT ![d] = "received"]
    <3>1. PICK d \in Docs, f \in Files :
             /\ life[d] = "absent"
             /\ content' = [content EXCEPT ![d] = drive[f].content]
             /\ life' = [life EXCEPT ![d] = "received"]
      BY <2>3
    <3>2. drive[f].content \in Contents /\ drive[f].content # None
      BY <1>0, DriveAssumption
    <3>3. /\ content' \in [Docs -> Contents \cup {None}] /\ content'[d] # None
          /\ \A e \in Docs \ {d} : content'[e] = content[e] /\ life'[e] = life[e]
      BY <1>0, <3>1, <3>2 DEF ErasedInv
    <3>4. ~Erased(d)' /\ ~Erased(d)
      BY <3>1, <3>3 DEF Erased
    <3>5. \A e \in Docs \ {d} : Erased(e)' <=> Erased(e)
      BY <3>3 DEF Erased
    <3> QED
      BY <2>1, <3>3, <3>4, <3>5 DEF ErasedInv
  <2> QED
    BY <1>2, <2>2, <2>3, PassContent
<1> QED
  BY <1>1, <1>2, Kinds

\* Whoever has erased a document had it in hand.
LEMMA ErasedHolds == DriveSpec => []ErasedInv
<1>1. DriveInit => ErasedInv
  BY DEF DriveInit, LifeInit, ErasedInv, Erased
<1>2. DriveBase /\ ErasedInv /\ [DriveNext]_driveVars => ErasedInv'
  BY ErasedStep
<1> QED
  BY <1>1, <1>2, DriveBaseHolds, PTL DEF DriveSpec

(***************************************************************************)
(* Whose document is whose.                                                *)
(***************************************************************************)
\* A document is named by one file's row at most, and is a version of that file or not yet one.
Owned ==
    /\ \A f, g \in Files : rows[f].doc # None /\ rows[f].doc = rows[g].doc => f = g
    /\ \A f \in Files : rows[f].doc # None => versions[rows[f].doc].file \in {None, f}
    /\ \A s \in Syncers : pass[s].pc = "received" => \A f \in Files : rows[f].doc # pass[s].doc

\* No two files have a document in common.
LEMMA OwnedStep ==
    ASSUME DriveBase, Owned, [DriveNext]_driveVars
    PROVE  Owned'
<1>0. /\ \A f \in Files : rows[f].doc # None => rows[f].doc \in Docs
      /\ \A t \in Syncers : pass[t] \in PassStates /\ PassFits(pass[t])
  BY DEF DriveBase, DriveTypes, FileRows
<1>1. CASE Outside
  <2>1. UNCHANGED <<rows, versions, pass>>
    BY <1>1, OutsideMoves DEF DriveBase
  <2> QED
    BY <2>1 DEF Owned
<1>2. ASSUME NEW s \in Syncers, PassKinds(s)
      PROVE  Owned'
  <2>0. \A t \in Syncers \ {s} : pass'[t] = pass[t] /\ pass[t].pc = "idle"
    BY <1>2, OthersIdle
  <2>1. CASE ~Imports(s)
    <3>1. /\ \A f \in Files : rows'[f].doc = rows[f].doc
          /\ \A d \in Docs : versions'[d].file = versions[d].file
          /\ pass'[s].pc # "received"
      BY <1>2, <2>1, Keeps DEF SameVersion
    <3> QED
      BY <1>0, <2>0, <3>1 DEF Owned
  <2>2. ASSUME NEW f \in Files, sync_receives(s, f)
        PROVE  Owned'
    <3>1. PICK d \in Docs :
             /\ life[d] = "absent"
             /\ pass'[s].doc = d
      BY <2>2, ReceivesBase
    <3>2. \A g \in Files : rows[g].doc # d
      BY <3>1, DriveAssumption DEF DriveBase, InOrder
    <3>3. UNCHANGED <<rows, versions>>
      BY <2>2, ReceivesBase
    <3> QED
      BY <2>0, <3>1, <3>2, <3>3 DEF Owned
  <2>3. CASE sync_records(s)
    <3>1. pass'[s].pc # "received"
      BY <1>0, <2>3, RecordsBase DEF PassStates
    <3>2. versions[pass[s].doc].file = None /\ pass[s].doc \in Docs /\ pass[s].file \in Files
      BY <2>3, RecordsBase DEF DriveBase, InOrder
    <3>3. /\ UNCHANGED versions
          /\ \A g \in Files \ {pass[s].file} : rows'[g] = rows[g]
          /\ rows'[pass[s].file].doc = pass[s].doc /\ pass[s].pc = "received"
      BY <2>3, RecordsBase
    <3> QED
      BY <2>0, <3>1, <3>2, <3>3 DEF Owned
  <2>4. CASE sync_adds_version(s)
    <3>1. /\ UNCHANGED rows /\ pass'[s].pc = "files"
          /\ rows[pass[s].file].doc = pass[s].doc /\ pass[s].doc \in Docs /\ pass[s].file \in Files
          /\ \A d \in Docs \ {pass[s].doc} : versions'[d] = versions[d]
          /\ versions'[pass[s].doc].file = pass[s].file
      BY <2>4, AddsBase
    <3>2. \A f \in Files : rows[f].doc # None => versions'[rows[f].doc].file \in {None, f}
      <4> SUFFICES ASSUME NEW f \in Files, rows[f].doc # None
                   PROVE  versions'[rows[f].doc].file \in {None, f}
        OBVIOUS
      <4>1. CASE rows[f].doc = pass[s].doc
        BY <3>1, <4>1 DEF Owned
      <4>2. CASE rows[f].doc # pass[s].doc
        BY <1>0, <3>1, <4>2 DEF Owned
      <4> QED
        BY <4>1, <4>2
    <3>3. \A t \in Syncers : pass'[t].pc # "received"
      BY <2>0, <3>1
    <3> QED
      BY <3>1, <3>2, <3>3 DEF Owned
  <2> QED
    BY <2>1, <2>2, <2>3, <2>4 DEF Imports
<1> QED
  BY <1>1, <1>2, Kinds

(***************************************************************************)
(* What is replaced.                                                       *)
(***************************************************************************)
\* Hidden, or in a user's hands.
Gone(d) == hidden[d] \/ d \in byHand

\* A superseded version is hidden and no row names it; of the versions a pass is replacing,
\* those it is through with are hidden, but for the one it has just written the status of.
ReplacedInv ==
    /\ \A d \in Docs : versions[d].state = "SUPERSEDED" =>
          Gone(d) /\ \A f \in Files : rows[f].doc # d
    /\ \A s \in Syncers : pass[s].pc \in Replacing =>
          \A d \in StillOlder(pass[s].file) \ pass[s].left :
              Gone(d) \/ (pass[s].pc = "superseded" /\ d = pass[s].doc)

\* No row names a version that is not its file's newest.
LEMMA OlderUnnamed ==
    ASSUME DriveBase, Owned, NEW f \in Files, NEW d \in StillOlder(f)
    PROVE  d \in Docs /\ \A g \in Files : rows[g].doc # d
<1>1. d \in Versions(f) /\ d # Newest(f) /\ d \in Docs /\ versions[d].file = f
  BY DEF StillOlder, InState, Versions
<1>2. Newest(f) \in Nat /\ d <= Newest(f) /\ Newest(f) \in Docs /\ versions[Newest(f)].file = f
  BY <1>1, NewestVersion
<1>3. Newest(f) <= rows[f].doc /\ rows[f].doc \in Nat
  <2>1. Newest(f) \in Versions(f)
    BY <1>2 DEF Versions
  <2> QED
    BY <2>1, NewestIs DEF DriveBase
<1>4. rows[f].doc # d
  BY <1>1, <1>2, <1>3, DriveAssumption
<1> QED
  BY <1>1, <1>4, DriveAssumption DEF Owned

\* Versions stay replaced, and hidden.
LEMMA ReplacedStep ==
    ASSUME DriveBase, Owned, ReplacedInv, [DriveNext]_driveVars
    PROVE  ReplacedInv'
<1>0. \A t \in Syncers : pass[t] \in PassStates /\ PassFits(pass[t])
  BY DEF DriveBase, DriveTypes
<1>1. CASE Outside
  <2>1. UNCHANGED <<rows, versions, pass>>
    BY <1>1, OutsideMoves DEF DriveBase
  <2>2. \A d \in Docs : Gone(d) => Gone(d)'
    BY <1>1, OutsideDoes DEF Gone
  <2>3. \A f : StillOlder(f)' = StillOlder(f) /\ StillOlder(f) \subseteq Docs
    BY <2>1 DEF StillOlder, InState, Newest, Versions
  <2> QED
    BY <2>1, <2>2, <2>3 DEF ReplacedInv
<1>2. ASSUME NEW s \in Syncers, PassKinds(s)
      PROVE  ReplacedInv'
  <2>0. \A t \in Syncers \ {s} : pass'[t] = pass[t] /\ pass[t].pc = "idle"
    BY <1>2, OthersIdle
  <2>1. ASSUME pass'[s].pc \notin Replacing,
               \A d \in Docs : versions'[d].state = "SUPERSEDED" =>
                   /\ versions[d].state = "SUPERSEDED"
                   /\ Gone(d) => Gone(d)'
                   /\ \A f \in Files : rows[f].doc # d => rows'[f].doc # d
        PROVE  ReplacedInv'
    <3>1. \A t \in Syncers : pass'[t].pc \notin Replacing
      BY <2>0, <2>1 DEF Replacing
    <3> QED
      BY <2>1, <3>1 DEF ReplacedInv
  <2>2. CASE Turns(s) \/ \E f \in Files : FileEnds(s, f)
    <3>1. /\ pass'[s].pc \notin Replacing /\ UNCHANGED <<versions, hidden, byHand>>
          /\ \A f \in Files : rows'[f].doc = rows[f].doc
      BY <2>2, TurnsBase, FileEndsBase DEF Between, Replacing, handVars
    <3> QED
      BY <2>1, <3>1 DEF Gone
  <2>3. CASE \E f \in Files : _reclassify(s, f) \/ sync_receives(s, f)
    <3>1. UNCHANGED <<versions, hidden, byHand, rows>>
      BY <2>3 DEF _reclassify, sync_receives, handVars
    <3>2. pass'[s].pc \notin Replacing
      BY <2>3, ReclassifiesBase, ReceivesBase DEF Replacing
    <3> QED
      BY <2>1, <3>1, <3>2 DEF Gone
  <2>4. CASE sync_records(s)
    <3>1. /\ pass'[s].pc = "recorded" /\ versions[pass[s].doc].state = "none"
      BY <1>0, <2>4, RecordsBase DEF PassStates, DriveBase, InOrder
    <3>2. /\ UNCHANGED <<versions, hidden, byHand>>
          /\ \A f \in Files : rows'[f].doc \in {rows[f].doc, pass[s].doc}
      BY <2>4, RecordsBase DEF docVars, handVars
    <3> QED
      BY <2>1, <3>1, <3>2 DEF Gone, Replacing
  <2>5. CASE sync_adds_version(s)
    <3>1. /\ pass'[s].pc = "files" /\ UNCHANGED <<hidden, byHand, rows>>
          /\ \A d \in Docs \ {pass[s].doc} : versions'[d] = versions[d]
          /\ versions'[pass[s].doc].state = "PENDING"
      BY <2>5, AddsBase DEF docVars, handVars
    <3> QED
      BY <2>1, <3>1 DEF Gone, Replacing
  <2>6. ASSUME NEW f \in Files, _restore_document(s, f)
        PROVE  ReplacedInv'
    <3>1. /\ RemovedDoc(f) \in Docs
          /\ pass'[s].pc = "restored"
          /\ hidden' = [hidden EXCEPT ![RemovedDoc(f)] = @ /\ Erased(RemovedDoc(f))]
          /\ UNCHANGED <<versions, byHand, rows>>
      BY <2>6, RestoresBase
    <3>2. pass'[s].pc \notin Replacing
      BY <3>1 DEF Replacing
    <3>3. versions[RemovedDoc(f)].state # "SUPERSEDED"
      <4>1. CASE InState(f, {"REMOVED"}) # {}
        <5>1. InState(f, {"REMOVED"}) \subseteq Versions(f)
          BY DEF InState
        <5> QED
          BY <4>1, <5>1, NewestIs DEF DriveBase, RemovedDoc, InState
      <4>2. CASE InState(f, {"REMOVED"}) = {}
        BY <3>1, <4>2 DEF RemovedDoc, ReplacedInv
      <4> QED
        BY <4>1, <4>2
    <3> QED
      BY <2>1, <3>1, <3>2, <3>3 DEF Gone, DriveBase, DriveTypes
  <2>7. CASE _restore_version(s)
    <3>1. /\ pass'[s].pc \notin Replacing /\ UNCHANGED <<hidden, byHand, rows>>
          /\ \A d \in Docs : versions'[d] =
                 IF d = pass[s].doc /\ versions[d].state = "REMOVED"
                 THEN [versions[d] EXCEPT !.state = "PENDING"] ELSE versions[d]
      BY <2>7, RestoresVersionBase DEF docVars, handVars, Replacing
    <3>2. \A d \in Docs : versions'[d].state = "SUPERSEDED" => versions[d].state = "SUPERSEDED"
      BY <3>1 DEF DriveBase, DriveTypes, VersionRows
    <3> QED
      BY <2>1, <3>1, <3>2 DEF Gone
  <2>8. CASE _retire_marks(s)
    <3>1. /\ pass'[s].pc \notin Replacing /\ UNCHANGED <<hidden, byHand>>
          /\ \A d \in Docs : versions'[d].state = "SUPERSEDED" => versions[d].state = "SUPERSEDED"
      BY <2>8, RetireMarksBase DEF docVars, handVars, Replacing
    <3>2. \A f \in Files : rows'[f].doc = rows[f].doc
      BY <1>2, <2>8, Keeps DEF Imports, sync_receives, sync_records, sync_adds_version, At,
                               _retire_marks
    <3> QED
      BY <2>1, <3>1, <3>2 DEF Gone
  <2>9. ASSUME NEW f \in Files, _retire_vanished(s, f)
        PROVE  ReplacedInv'
    <3>1. UNCHANGED <<versions, byHand, rows>> /\ pass'[s].pc \notin Replacing
      BY <2>9, RetiresBase DEF handVars, Replacing
    <3>2. \A d \in Docs : hidden[d] => hidden'[d]
      BY <2>9, RetiresBase DEF DriveBase, DriveTypes
    <3> QED
      BY <2>1, <3>1, <3>2 DEF Gone
  <2>10. CASE _reconcile_file(s)
    <3>1. PICK f \in Files :
             \A d \in Docs : versions'[d].state =
                 IF TakesOver(f) /\ d = Newest(f) THEN "CURRENT" ELSE SettledIn(f)[d].state
      BY <2>10, SettlesBase
    <3>2. \A d \in Docs : versions'[d].state = "SUPERSEDED" => versions[d].state = "SUPERSEDED"
      BY <3>1, Settles
    <3>3. pass'[s].pc \notin Replacing /\ UNCHANGED <<rows, hidden, byHand>>
      BY <2>10, SettlesBase DEF docVars, handVars, Replacing
    <3> QED
      BY <2>1, <3>2, <3>3 DEF Gone
  <2>11. CASE _reconcile_replaces(s)
    <3>1. PICK f \in Files :
             /\ Versions(f) # {}
             /\ pass'[s].file = f /\ pass'[s].doc = Min(Older(f))
             /\ pass'[s].left = Older(f) \ {Min(Older(f))}
             /\ versions' = SettledIn(f)
      BY <2>11, ReplacesBase
    <3>2. UNCHANGED <<rows, hidden, byHand>> /\ pass'[s].pc = "superseded"
      BY <2>11, ReplacesBase
    <3>3. \A d \in Docs : versions'[d].state = "SUPERSEDED" => versions[d].state = "SUPERSEDED"
      BY <3>1, Settles
    <3>4. StillOlder(f)' \subseteq Older(f)
      <4>1. /\ \A d \in Docs : SameVersion(versions'[d], versions[d])
            /\ \A d \in Versions(f) : versions'[d] = Settled(d)
        BY <3>1, Settles
      <4>2. Versions(f)' = Versions(f)
        BY <4>1 DEF Versions, SameVersion
      <4> QED
        BY <4>1, <4>2 DEF StillOlder, InState, Newest, Older
    <3>5. \A t \in Syncers : pass'[t].pc \in Replacing => t = s
      BY <2>0 DEF Replacing
    <3> QED
      BY <3>1, <3>2, <3>3, <3>4, <3>5 DEF ReplacedInv, Gone
  <2>12. CASE _supersede(s)
    <3>0. pass[s].file \in Files /\ pass[s].left \subseteq Docs
      BY <1>0, <2>12, SupersedesBase DEF PassStates
    <3>1. PICK f \in Files, left \in SUBSET Docs : f = pass[s].file /\ left = pass[s].left
      BY <3>0
    <3>2. /\ UNCHANGED <<rows, hidden, byHand>> /\ pass[s].pc = "supersede"
          /\ pass'[s].pc = "superseded" /\ pass'[s].file = f /\ pass'[s].doc = Min(left)
          /\ pass'[s].left = left \ {Min(left)}
          /\ \A d \in Docs :
                /\ SameVersion(versions'[d], versions[d])
                /\ versions'[d].state = IF d \in StillOlder(f) \ left THEN "SUPERSEDED"
                                        ELSE versions[d].state
      BY <2>12, <3>1, SupersedesBase
    <3>3. \A d \in StillOlder(f) \ left : Gone(d) /\ \A g \in Files : rows[g].doc # d
      <4>1. \A d \in StillOlder(f) \ left : Gone(d)
        BY <3>1, <3>2 DEF ReplacedInv, Replacing
      <4> QED
        BY <4>1, OlderUnnamed
    <3>4. StillOlder(f)' \subseteq left
      <4>1. Versions(f)' = Versions(f) /\ Versions(f) \subseteq Docs
        BY <3>2 DEF Versions, SameVersion
      <4>2. Newest(f)' = Newest(f)
        BY <4>1 DEF Newest
      <4> QED
        BY <3>2, <4>1, <4>2 DEF StillOlder, InState
    <3>5. \A t \in Syncers : pass'[t].pc \in Replacing => t = s
      BY <2>0 DEF Replacing
    <3>6. \A d \in Docs : versions'[d].state = "SUPERSEDED" =>
             Gone(d)' /\ \A g \in Files : rows'[g].doc # d
      BY <3>2, <3>3 DEF ReplacedInv, Gone
    <3> QED
      BY <3>2, <3>4, <3>5, <3>6 DEF ReplacedInv
  <2>13. CASE _supersede_hides(s)
    <3>1. /\ UNCHANGED <<rows, versions, byHand>> /\ pass[s].pc = "superseded"
          /\ hidden' = [hidden EXCEPT ![pass[s].doc] = TRUE]
      BY <2>13, HidesBase DEF handVars
    <3>2. pass'[s].file = pass[s].file /\ pass'[s].left = pass[s].left
      BY <2>13, HidesBase
    <3>3. \A d \in Docs : Gone(d) \/ d = pass[s].doc => Gone(d)'
      BY <3>1 DEF Gone, DriveBase, DriveTypes
    <3>4. \A f : StillOlder(f)' = StillOlder(f) /\ StillOlder(f) \subseteq Docs
      BY <3>1 DEF StillOlder, InState, Newest, Versions
    <3>5. \A t \in Syncers : pass'[t].pc \in Replacing => t = s
      BY <2>0 DEF Replacing
    <3> QED
      BY <3>1, <3>2, <3>3, <3>4, <3>5 DEF ReplacedInv, Replacing
  <2>14. CASE _reconcile_settles(s)
    <3>0. PICK f \in Files : f = pass[s].file
      BY <2>14, CurrentBase
    <3>1. /\ UNCHANGED <<rows, hidden, byHand>> /\ pass[s].pc = "settle"
          /\ \A d \in Docs : versions'[d].state =
                 IF d = Newest(f) THEN "CURRENT"
                 ELSE IF d \in StillOlder(f) THEN "SUPERSEDED" ELSE versions[d].state
      BY <2>14, <3>0, CurrentBase DEF docVars, handVars
    <3>2. pass'[s].pc = "reconcile" /\ pass[s].left = {}
      BY <1>0, <2>14, <3>1, CurrentBase DEF PassFits
    <3>3. \A d \in StillOlder(f) : Gone(d) /\ \A g \in Files : rows[g].doc # d
      <4>1. \A d \in StillOlder(f) : Gone(d)
        BY <3>0, <3>1, <3>2 DEF ReplacedInv, Replacing
      <4> QED
        BY <4>1, OlderUnnamed
    <3>4. \A t \in Syncers : pass'[t].pc \notin Replacing
      BY <2>0, <3>2 DEF Replacing
    <3> QED
      BY <3>1, <3>3, <3>4 DEF ReplacedInv, Gone
  <2> QED
    BY <1>2, <2>2, <2>3, <2>4, <2>5, <2>6, <2>7, <2>8, <2>9, <2>10, <2>11, <2>12, <2>13, <2>14
    DEF PassKinds, Imports, Restores, Retires, SettlesAll
<1> QED
  BY <1>1, <1>2, Kinds

\* What holds of owners and of what is replaced, at all times.
LEMMA ReplacedHolds == DriveSpec => [](DriveBase /\ Owned /\ ReplacedInv)
<1>1. DriveInit => DriveBase /\ Owned /\ ReplacedInv
  <2> SUFFICES ASSUME DriveInit PROVE DriveBase /\ Owned /\ ReplacedInv
    OBVIOUS
  <2>1. /\ \A s \in Syncers : pass[s].pc = "idle"
        /\ \A f \in Files : rows[f].doc = None
        /\ \A d \in Docs : versions[d].state = "none"
    BY DEF DriveInit, NoPass, NoRow, NoVersion
  <2> QED
    BY <2>1, BaseInit DEF Owned, ReplacedInv, Replacing
<1>2. DriveBase /\ Owned /\ ReplacedInv /\ [DriveNext]_driveVars
          => (DriveBase /\ Owned /\ ReplacedInv)'
  BY BaseStep, OwnedStep, ReplacedStep
<1> QED
  BY <1>1, <1>2, PTL DEF DriveSpec

\* Once a version is CURRENT, nothing it replaced is seen again, unless by hand.
THEOREM ReplacedHiddenHolds == DriveSpec => []ReplacedStaysHidden
<1>1. ReplacedInv => ReplacedStaysHidden
  BY DEF ReplacedInv, ReplacedStaysHidden, InState, Versions, Visible, Gone
<1> QED
  BY <1>1, ReplacedHolds, PTL

(***************************************************************************)
(* What is imported once.                                                  *)
(***************************************************************************)

\* Turns of a pass: where it is before and after, and what it lists.
LEMMA TurnsWhere ==
    ASSUME DriveBase, NEW s \in Syncers, Turns(s)
    PROVE  \/ /\ pass'[s].pc \in {"idle", "PUBLIC"}
              /\ \A f \in Files : pass'[s].found[f] = None
           \/ /\ pass'[s].pc = "RESTRICTED" /\ pass[s].pc = "PUBLIC"
              /\ pass'[s].found = Listed(pass[s].found, "PUBLIC")
           \/ /\ pass'[s].pc = "files" /\ pass[s].pc = "RESTRICTED"
              /\ pass'[s].found = Listed(pass[s].found, "RESTRICTED")
              /\ ~pass'[s].limited => pass'[s].todo = {f \in Files : pass'[s].found[f] # None}
           \/ /\ pass'[s].pc \in {"retire", "reconcile"} /\ pass[s].pc = "files"
              /\ pass[s].todo = {}
              /\ pass'[s].found = pass[s].found /\ pass'[s].limited = pass[s].limited
              /\ pass'[s].pc = "reconcile" => Vanished(s) = {}
<1>0. pass[s] \in PassStates /\ pass \in [Syncers -> PassStates]
  BY DEF DriveBase, DriveTypes
<1>1. CASE sync_ends(s) \/ sync_dies(s) \/ \E limited \in BOOLEAN : sync_once(s, limited)
  <2>1. \E p : Goes(s, p) /\ p.pc \in {"idle", "PUBLIC"} /\ p.found = [f \in Files |-> None]
    <3>1. CASE sync_ends(s) \/ sync_dies(s)
      BY <3>1 DEF sync_ends, sync_dies, NoPass
    <3>2. ASSUME NEW limited \in BOOLEAN, sync_once(s, limited)
          PROVE  \E p : /\ Goes(s, p) /\ p.pc \in {"idle", "PUBLIC"}
                        /\ p.found = [f \in Files |-> None]
      <4> DEFINE p == [NoPass EXCEPT !.pc = "PUBLIC", !.limited = limited]
      <4>1. Goes(s, p)
        BY <3>2 DEF sync_once
      <4>2. p.pc = "PUBLIC" /\ p.found = [f \in Files |-> None]
        BY DEF NoPass
      <4> HIDE DEF p
      <4> QED
        BY <4>1, <4>2
    <3> QED
      BY <1>1, <3>1, <3>2
  <2> QED
    BY <1>0, <2>1 DEF Goes
<1>2. CASE list_public(s)
  BY <1>0, <1>2 DEF list_public, Goes, At, PassStates
<1>3. CASE list_restricted(s)
  <2> DEFINE found == Listed(pass[s].found, "RESTRICTED")
  <2>1. PICK todo \in Taken(found, pass[s].limited) :
           pass' = [pass EXCEPT ![s] =
                       [pass[s] EXCEPT !.pc = "files", !.found = found, !.todo = todo]]
    BY <1>3 DEF list_restricted, Goes
  <2>2. ~pass[s].limited => todo = {f \in Files : found[f] # None}
    BY DEF Taken
  <2> HIDE DEF found
  <2>3. /\ pass'[s].pc = "files" /\ pass'[s].found = found /\ pass'[s].todo = todo
        /\ pass'[s].limited = pass[s].limited
    BY <1>0, <2>1 DEF PassStates
  <2>4. pass[s].pc = "RESTRICTED"
    BY <1>3 DEF list_restricted, At
  <2> QED
    BY <2>2, <2>3, <2>4 DEF found
<1>4. CASE files_done(s)
  BY <1>0, <1>4 DEF files_done, AfterRetiring, Goes, At, PassStates
<1> QED
  BY <1>1, <1>2, <1>3, <1>4 DEF Turns

\* The other steps of a pass leave the rows' marks and tiers, and its listing.
LEMMA Steady ==
    ASSUME DriveBase, NEW s \in Syncers,
           \/ \E f \in Files : _reclassify(s, f)
           \/ Restores(s) \/ Retires(s) \/ SettlesAll(s)
    PROVE  /\ pass'[s].found = pass[s].found /\ pass'[s].limited = pass[s].limited
           /\ pass'[s].pc \notin {"received", "recorded"}
           /\ UNCHANGED <<drive, errors, crashes, byHand>>
           /\ \A f \in Files : /\ rows'[f].mark = rows[f].mark /\ rows'[f].tier = rows[f].tier
                               /\ rows'[f].doc = rows[f].doc
                               /\ \/ rows'[f].state = rows[f].state
                                  \/ /\ _retire_marks(s) /\ f = pass[s].file
                                     /\ rows[f].state = "IMPORTED" /\ rows'[f].state = "REMOVED"
           /\ \A d \in Docs : SameVersion(versions'[d], versions[d])
<1>1. CASE \E f \in Files : _reclassify(s, f) \/ _restore_document(s, f) \/ _retire_vanished(s, f)
  <2>1. \/ \E f \in Files : _reclassify(s, f)
        \/ \E f \in Files : _restore_document(s, f)
        \/ \E f \in Files : _retire_vanished(s, f)
    BY <1>1
  <2>2. UNCHANGED <<rows, versions, drive, errors, crashes, byHand>>
    BY <2>1 DEF _reclassify, _restore_document, _retire_vanished, counts, handVars
  <2>3. /\ pass'[s].pc \notin {"received", "recorded"} /\ SamePass(pass'[s], pass[s])
    BY <2>1, ReclassifiesBase, RestoresBase, RetiresBase
  <2> QED
    BY <2>2, <2>3 DEF SameVersion, SamePass
<1>2. CASE _restore_version(s)
  <2>1. \A d \in Docs : SameVersion(versions'[d], versions[d])
    BY <1>2, Keeps DEF PassKinds, Restores, Imports, _restore_version, sync_receives, sync_records,
                       sync_adds_version, At
  <2> QED
    BY <1>2, <2>1, RestoresVersionBase DEF SamePass, counts, handVars
<1>3. CASE _retire_marks(s)
  <2>1. rows[pass[s].file].state = "IMPORTED"
    BY <1>3 DEF _retire_marks, At, DriveBase, PassFits, OnGone
  <2> QED
    BY <1>3, <2>1, RetireMarksBase DEF counts, handVars
<1>4. CASE SettlesAll(s)
  <2>1. /\ \A d \in Docs : SameVersion(versions'[d], versions[d])
        /\ pass'[s].pc \notin {"received", "recorded"}
    BY <1>4, Keeps DEF PassKinds, SettlesAll, Imports, _reconcile_file, _reconcile_replaces,
       _supersede, _supersede_hides, _reconcile_settles, sync_receives, sync_records,
       sync_adds_version, At
  <2>2. UNCHANGED <<drive, errors, crashes, byHand, rows>>
    BY <1>4 DEF SettlesAll, _reconcile_file, _reconcile_replaces, _supersede, _supersede_hides,
                _reconcile_settles, Supersedes, counts, handVars
  <2>3. pass'[s].found = pass[s].found /\ pass'[s].limited = pass[s].limited
    BY <1>4, SettlesBase, ReplacesBase, SupersedesBase, HidesBase, CurrentBase
    DEF SettlesAll, SamePass
  <2> QED
    BY <2>1, <2>2, <2>3
<1> QED
  BY <1>1, <1>2, <1>3, <1>4 DEF Restores, Retires

\* Versions and records have a mark.
Marked ==
    /\ \A d \in Docs : versions[d].file # None => versions[d].mark \in Marks
    /\ \A f \in Files : rows[f].state # "none" => rows[f].mark \in Marks

\* Of a Google-native file: versions are of different times, none later than the row's, which
\* is none later than the listing's; one that is imported now is later than all.
TimesInOrder(f) ==
    /\ \A d, e \in Versions(f) : d # e => versions[d].mark[2] # versions[e].mark[2]
    /\ rows[f].state # "FAILED"
    /\ \A d \in Versions(f) :
          /\ rows[f].state # "none"
          /\ versions[d].mark[2] <= rows[f].mark[2]
          /\ rows[f].state = "SKIPPED" => versions[d].mark[2] < rows[f].mark[2]
    /\ rows[f].state # "none" => rows[f].mark[2] <= drive[f].mark
    /\ \A s \in Syncers : pass[s].pc # "idle" /\ Item(s, f) # None =>
          /\ Item(s, f).mark[2] <= drive[f].mark
          /\ rows[f].state # "none" => rows[f].mark[2] <= Item(s, f).mark[2]
    /\ \A s \in Syncers : pass[s].pc \in {"received", "recorded"} /\ pass[s].file = f =>
          \A d \in Versions(f) : versions[d].mark[2] < Item(s, f).mark[2]

\* With no failed calls, the times of a Google-native file are in order.
MarksInv == Marked /\ (errors = 0 => \A f \in Native : TimesInOrder(f))

\* Times are numbers.
LEMMA Times ==
    ASSUME DriveBase, Marked
    PROVE  /\ \A d \in Docs : versions[d].file # None => versions[d].mark[2] \in Nat
           /\ \A f \in Files : rows[f].state # "none" => rows[f].mark[2] \in Nat
           /\ \A f \in Files : drive[f].mark \in Nat
           /\ \A s \in Syncers, f \in Files : Item(s, f) # None =>
                 Item(s, f).mark \in Marks /\ Item(s, f).mark[2] \in Nat
<1>1. \A m \in Marks : m[2] \in Nat
  BY DEF Marks
<1>2. \A s \in Syncers, f \in Files : Item(s, f) # None => Item(s, f).mark \in Marks
  BY DEF DriveBase, DriveTypes, PassStates, Items, Item
<1>3. \A f \in Files : drive[f].mark \in Nat
  BY DEF DriveBase, DriveTypes, DriveFiles
<1> QED
  BY <1>1, <1>2, <1>3 DEF Marked

\* What is not unchanged is later than every version there is.
LEMMA Later ==
    ASSUME DriveBase, Marked, NEW f \in Native, TimesInOrder(f), NEW s \in Syncers,
           pass[s].pc # "idle", Item(s, f) # None, ~IsUnchanged(f, Item(s, f)),
           NEW d \in Versions(f)
    PROVE  versions[d].mark[2] < Item(s, f).mark[2]
<1>0. f \in Files /\ d \in Docs /\ versions[d].file = f /\ versions[d].file # None
  BY DriveAssumption DEF Versions
<1>1. /\ rows[f].doc # None /\ rows[f].state # "none" /\ rows[f].state # "FAILED"
      /\ versions[d].mark[2] <= rows[f].mark[2]
      /\ rows[f].mark[2] <= Item(s, f).mark[2]
  BY <1>0 DEF TimesInOrder, DriveBase, InOrder
<1>2. versions[d].mark[2] \in Nat /\ rows[f].mark[2] \in Nat /\ Item(s, f).mark[2] \in Nat
  BY <1>0, <1>1, Times
<1>3. CASE rows[f].state = "SKIPPED"
  BY <1>1, <1>2, <1>3 DEF TimesInOrder
<1>4. CASE rows[f].state \in {"IMPORTED", "REMOVED"}
  <2>1. Item(s, f).mark[2] # rows[f].mark[2]
    BY <1>1, <1>4 DEF IsUnchanged, IsKnown, _content_changed
  <2> QED
    BY <1>1, <1>2, <2>1
<1>5. rows[f].state \in DriveFileState \cup {"none"}
  BY <1>0 DEF DriveBase, DriveTypes, FileRows
<1> QED
  BY <1>1, <1>3, <1>4, <1>5 DEF DriveFileState

\* Marks stay marks.
LEMMA MarkedStep ==
    ASSUME DriveBase, Marked, [DriveNext]_driveVars
    PROVE  Marked'
<1>0. \A s \in Syncers, f \in Files : Item(s, f) # None => Item(s, f).mark \in Marks
  BY Times
<1>1. CASE Outside
  BY <1>1, OutsideMoves DEF Marked, DriveBase
<1>2. ASSUME NEW s \in Syncers, PassKinds(s)
      PROVE  Marked'
  <2>1. CASE Turns(s)
    BY <2>1, TurnsBase DEF Marked
  <2>2. ASSUME NEW f \in Files, FileEnds(s, f)
        PROVE  Marked'
    BY <1>0, <2>2, FileEndsBase DEF Marked
  <2>3. CASE \/ \E f \in Files : _reclassify(s, f)
             \/ Restores(s) \/ Retires(s) \/ SettlesAll(s)
    BY <2>3, Steady DEF Marked, SameVersion
  <2>4. CASE \E f \in Files : sync_receives(s, f)
    BY <2>4, ReceivesBase DEF Marked
  <2>5. CASE sync_records(s)
    BY <1>0, <2>5, RecordsBase DEF Marked
  <2>6. CASE sync_adds_version(s)
    BY <1>0, <2>6, AddsBase DEF Marked
  <2> QED
    BY <1>2, <2>1, <2>2, <2>3, <2>4, <2>5, <2>6 DEF PassKinds, Imports
<1> QED
  BY <1>1, <1>2, Kinds

\* Times stay in order, as long as no file fails.
LEMMA TimesStep ==
    ASSUME DriveBase, Marked, [DriveNext]_driveVars, errors' = 0,
           errors = 0 => \A g \in Native : TimesInOrder(g), NEW f \in Native
    PROVE  TimesInOrder(f)'
<1>0. f \in Files /\ Marked'
  BY DriveAssumption, MarkedStep
<1>1. /\ \A d \in Docs : versions[d].file # None => versions[d].mark[2] \in Nat
      /\ \A g \in Files : rows[g].state # "none" => rows[g].mark[2] \in Nat
      /\ drive[f].mark \in Nat
      /\ \A s \in Syncers : Item(s, f) # None => Item(s, f).mark[2] \in Nat
  BY <1>0, Times
<1>2. CASE Outside
  <2>1. UNCHANGED <<rows, versions, pass, errors>>
    BY <1>2, OutsideMoves DEF DriveBase
  <2>2. TimesInOrder(f)
    BY <2>1
  <2>3. drive[f].mark <= drive'[f].mark /\ drive'[f].mark \in Nat
    BY <1>0, <1>2, OutsideDoes, OutsideBase DEF DriveBase, DriveTypes, DriveFiles
  <2>4. Versions(f)' = Versions(f) /\ \A s \in Syncers : Item(s, f)' = Item(s, f)
    BY <2>1 DEF Versions, Item
  <2>5. rows[f].state # "none" => rows[f].mark[2] <= drive'[f].mark
    BY <1>0, <1>1, <2>2, <2>3 DEF TimesInOrder
  <2>6. \A s \in Syncers : pass[s].pc # "idle" /\ Item(s, f) # None =>
           Item(s, f).mark[2] <= drive'[f].mark
    BY <1>1, <2>2, <2>3 DEF TimesInOrder
  <2> QED
    BY <2>1, <2>2, <2>4, <2>5, <2>6 DEF TimesInOrder
<1>3. ASSUME NEW s \in Syncers, PassKinds(s)
      PROVE  TimesInOrder(f)'
  <2>0. /\ \A t \in Syncers \ {s} : pass'[t] = pass[t] /\ pass[t].pc = "idle"
    BY <1>3, OthersIdle
  <2>1. CASE Turns(s)
    <3>1. UNCHANGED <<drive, rows, versions, errors>> /\ TimesInOrder(f)
      BY <2>1, TurnsBase
    <3>2. Versions(f)' = Versions(f)
      BY <3>1 DEF Versions
    <3>3. /\ pass'[s].pc \notin {"received", "recorded"}
          /\ pass'[s].pc # "idle" /\ Item(s, f)' # None =>
                \/ pass[s].pc # "idle" /\ Item(s, f)' = Item(s, f)
                \/ Item(s, f)'.mark = Mark(f)
      <4>1. \A t : LET found == Listed(pass[s].found, t)
                   IN  found[f] = pass[s].found[f] \/ found[f].mark = Mark(f)
        BY <1>0 DEF Listed
      <4>2. pass'[s].pc \notin {"received", "recorded"}
        BY <2>1, TurnsBase DEF Between
      <4> QED
        BY <1>0, <2>1, <4>1, <4>2, TurnsWhere DEF Item
    <3>4. pass'[s].pc # "idle" /\ Item(s, f)' # None =>
             /\ Item(s, f)'.mark[2] <= drive[f].mark
             /\ rows[f].state # "none" => rows[f].mark[2] <= Item(s, f)'.mark[2]
      <4>1. Mark(f)[2] = drive[f].mark
        BY DEF Mark
      <4>2. drive[f].mark <= drive[f].mark
        BY <1>1
      <4> QED
        BY <3>1, <3>3, <4>1, <4>2 DEF TimesInOrder
    <3> QED
      BY <2>0, <3>1, <3>2, <3>3, <3>4 DEF TimesInOrder, Item
  <2>2. ASSUME NEW g \in Files, FileEnds(s, g)
        PROVE  TimesInOrder(f)'
    <3>1. /\ UNCHANGED <<drive, versions>> /\ errors' = errors
          /\ pass'[s].pc = "files" /\ pass'[s].found = pass[s].found
          /\ Item(s, g) # None /\ pass[s].pc # "idle"
      BY <2>2, FileEndsBase, Begun DEF DriveBase, DriveTypes
    <3>2. TimesInOrder(f) /\ Versions(f)' = Versions(f) /\ Item(s, f)' = Item(s, f)
      BY <3>1 DEF Versions, Item
    <3>3. CASE f # g
      <4>1. rows'[f] = rows[f]
        BY <1>0, <2>2, <3>3, FileEndsBase
      <4> QED
        BY <2>0, <3>1, <3>2, <4>1 DEF TimesInOrder, Item
    <3>4. CASE f = g
      <4>1. rows'[f].mark = Item(s, f).mark /\ rows'[f].state \in {"IMPORTED", "SKIPPED"}
        BY <2>2, <3>1, <3>4, FileEndsBase DEF DriveBase, DriveTypes
      <4>2. /\ Item(s, f).mark[2] <= drive[f].mark
            /\ Item(s, f).mark[2] \in Nat /\ Item(s, f).mark[2] <= Item(s, f).mark[2]
        BY <1>1, <3>1, <3>2, <3>4 DEF TimesInOrder
      <4>3. \A d \in Versions(f) : versions[d].mark[2] <= Item(s, f).mark[2]
        <5> SUFFICES ASSUME NEW d \in Versions(f) PROVE versions[d].mark[2] <= Item(s, f).mark[2]
          OBVIOUS
        <5>1. versions[d].mark[2] \in Nat
          BY <1>0, <1>1, DriveAssumption DEF Versions
        <5>2. /\ rows[f].state # "none" /\ versions[d].mark[2] <= rows[f].mark[2]
              /\ rows[f].mark[2] <= Item(s, f).mark[2]
          BY <3>1, <3>2, <3>4 DEF TimesInOrder
        <5> QED
          BY <1>0, <1>1, <4>2, <5>1, <5>2
      <4>4. rows'[f].state = "SKIPPED" =>
                \A d \in Versions(f) : versions[d].mark[2] < Item(s, f).mark[2]
        <5>1. rows'[f].state = "SKIPPED" => sync_skips(s, f)
          BY <2>2, <3>4, FileEndsBase
        <5>2. sync_skips(s, f) => ~IsUnchanged(f, Item(s, f))
          BY DEF sync_skips
        <5> QED
          BY <3>1, <3>2, <3>4, <5>1, <5>2, Later
      <4> QED
        BY <2>0, <3>1, <3>2, <4>1, <4>2, <4>3, <4>4 DEF TimesInOrder, Item
    <3> QED
      BY <3>3, <3>4
  <2>3. CASE \/ \E g \in Files : _reclassify(s, g)
             \/ Restores(s) \/ Retires(s) \/ SettlesAll(s)
    <3>1. /\ UNCHANGED <<drive, errors>> /\ pass[s].pc # "idle"
          /\ pass'[s].pc \notin {"received", "recorded"}
          /\ pass'[s].found = pass[s].found
          /\ rows'[f].mark = rows[f].mark
          /\ \/ rows'[f].state = rows[f].state
             \/ rows[f].state = "IMPORTED" /\ rows'[f].state = "REMOVED"
          /\ \A d \in Docs : /\ versions'[d].file = versions[d].file
                             /\ versions'[d].mark = versions[d].mark
      BY <1>0, <2>3, Steady, Begun DEF SameVersion
    <3>2. TimesInOrder(f) /\ Versions(f)' = Versions(f) /\ Item(s, f)' = Item(s, f)
      BY <3>1 DEF Versions, Item
    <3>3. Versions(f) \subseteq Docs
      BY DEF Versions
    <3> QED
      BY <2>0, <3>1, <3>2, <3>3 DEF TimesInOrder, Item
  <2>4. ASSUME NEW g \in Files, sync_receives(s, g)
        PROVE  TimesInOrder(f)'
    <3>1. /\ UNCHANGED <<drive, rows, versions, errors>> /\ pass[s].pc = "files"
          /\ pass'[s].pc = "received" /\ pass'[s].file = g /\ pass'[s].found = pass[s].found
          /\ Item(s, g) # None /\ ~IsUnchanged(g, Item(s, g))
      BY <2>4, ReceivesBase DEF counts, SamePass
    <3>2. TimesInOrder(f) /\ Versions(f)' = Versions(f) /\ Item(s, f)' = Item(s, f)
      BY <3>1 DEF Versions, Item
    <3>3. f = g => \A d \in Versions(f) : versions[d].mark[2] < Item(s, f).mark[2]
      BY <3>1, <3>2, Later
    <3> QED
      BY <2>0, <3>1, <3>2, <3>3 DEF TimesInOrder, Item
  <2>5. CASE sync_records(s)
    <3>0. PICK g \in Files : g = pass[s].file
      BY <2>5, RecordsBase
    <3>1. /\ UNCHANGED <<drive, versions, errors>> /\ pass[s].pc = "received"
          /\ pass'[s].pc = "recorded" /\ pass'[s].file = g /\ pass'[s].found = pass[s].found
          /\ Item(s, g) # None
          /\ \A h \in Files \ {g} : rows'[h] = rows[h]
          /\ rows'[g].state = "IMPORTED" /\ rows'[g].mark = Item(s, g).mark
      BY <2>5, <3>0, RecordsBase DEF counts, SamePass
    <3>2. TimesInOrder(f) /\ Versions(f)' = Versions(f) /\ Item(s, f)' = Item(s, f)
      BY <3>1 DEF Versions, Item
    <3>3. CASE f # g
      BY <1>0, <2>0, <3>1, <3>2, <3>3 DEF TimesInOrder, Item
    <3>4. CASE f = g
      <4>1. /\ Item(s, f).mark[2] <= drive[f].mark
            /\ Item(s, f).mark[2] \in Nat /\ Item(s, f).mark[2] <= Item(s, f).mark[2]
        BY <1>1, <3>1, <3>2, <3>4 DEF TimesInOrder
      <4>2. \A d \in Versions(f) : /\ versions[d].mark[2] < Item(s, f).mark[2]
                                   /\ versions[d].mark[2] <= Item(s, f).mark[2]
        <5>1. \A d \in Versions(f) : versions[d].mark[2] < Item(s, f).mark[2]
          BY <3>0, <3>1, <3>2, <3>4 DEF TimesInOrder
        <5>2. \A d \in Versions(f) : versions[d].mark[2] \in Nat
          BY <1>0, <1>1, DriveAssumption DEF Versions
        <5> QED
          BY <4>1, <5>1, <5>2
      <4> QED
        BY <2>0, <3>1, <3>2, <3>4, <4>1, <4>2 DEF TimesInOrder, Item
    <3> QED
      BY <3>3, <3>4
  <2>6. CASE sync_adds_version(s)
    <3>0. PICK g \in Files, d \in Docs : g = pass[s].file /\ d = pass[s].doc
      BY <2>6, AddsBase
    <3>1. /\ UNCHANGED <<drive, rows, errors>> /\ pass[s].pc = "recorded"
          /\ pass'[s].pc = "files" /\ pass'[s].found = pass[s].found
          /\ Item(s, g) # None /\ versions[d].state = "none"
          /\ rows[g].state = "IMPORTED" /\ rows[g].mark = Item(s, g).mark
          /\ \A e \in Docs \ {d} : versions'[e] = versions[e]
          /\ versions'[d].file = g /\ versions'[d].mark = Item(s, g).mark
      BY <2>6, <3>0, AddsBase DEF counts
    <3>2. TimesInOrder(f) /\ Item(s, f)' = Item(s, f) /\ d \notin Versions(f)
      BY <1>0, <3>1, DriveAssumption DEF Item, DriveBase, InOrder, Versions
    <3>3. CASE f # g
      <4>1. Versions(f)' = Versions(f) /\ \A e \in Versions(f) : versions'[e] = versions[e]
        BY <3>1, <3>2, <3>3 DEF Versions
      <4> QED
        BY <2>0, <3>1, <3>2, <4>1 DEF TimesInOrder, Item
    <3>4. CASE f = g
      <4>1. /\ Versions(f)' = Versions(f) \cup {d}
            /\ \A e \in Versions(f) : versions'[e] = versions[e]
            /\ \A e \in Versions(f) : e # d
        BY <3>0, <3>1, <3>2, <3>4 DEF Versions
      <4>2. \A e \in Versions(f) : /\ versions[e].mark[2] < Item(s, f).mark[2]
                                   /\ versions[e].mark[2] # Item(s, f).mark[2]
        <5>1. \A e \in Versions(f) : versions[e].mark[2] < Item(s, f).mark[2]
          BY <3>0, <3>1, <3>2, <3>4 DEF TimesInOrder
        <5>2. \A e \in Versions(f) : versions[e].mark[2] \in Nat
          BY <1>0, <1>1, DriveAssumption DEF Versions
        <5>3. Item(s, f).mark[2] \in Nat
          BY <1>1, <3>1, <3>4
        <5> QED
          BY <5>1, <5>2, <5>3
      <4>3. \A x, y \in Versions(f)' : x # y => versions'[x].mark[2] # versions'[y].mark[2]
        BY <3>1, <3>2, <3>4, <4>1, <4>2 DEF TimesInOrder
      <4>4. \A x \in Versions(f)' : versions'[x].mark[2] <= rows'[f].mark[2]
        <5>1. Item(s, f).mark[2] <= Item(s, f).mark[2]
          BY <1>1, <3>1, <3>4
        <5> QED
          BY <3>1, <3>2, <3>4, <4>1, <5>1 DEF TimesInOrder
      <4> QED
        BY <2>0, <3>1, <3>2, <3>4, <4>3, <4>4 DEF TimesInOrder, Item
    <3> QED
      BY <3>3, <3>4
  <2> QED
    BY <1>3, <2>1, <2>2, <2>3, <2>4, <2>5, <2>6 DEF PassKinds, Imports
<1> QED
  BY <1>2, <1>3, Kinds

\* No two passes import one revision of a Google-native file twice.
THEOREM ImportedOnceHolds == DriveSpec => []ImportedOnce
<1>1. DriveInit => MarksInv
  <2> SUFFICES ASSUME DriveInit PROVE MarksInv
    OBVIOUS
  <2>1. /\ \A s \in Syncers : pass[s].pc = "idle"
        /\ \A f \in Files : rows[f].state = "none"
        /\ \A d \in Docs : versions[d].file = None
    BY DEF DriveInit, NoPass, NoRow, NoVersion
  <2>2. \A f \in Native : Versions(f) = {} /\ rows[f].state = "none"
    BY <2>1, DriveAssumption DEF Versions
  <2> QED
    BY <2>1, <2>2 DEF MarksInv, Marked, TimesInOrder
<1>2. DriveBase /\ MarksInv /\ [DriveNext]_driveVars => MarksInv'
  BY MarkedStep, TimesStep DEF MarksInv
<1>3. MarksInv => ImportedOnce
  BY DEF MarksInv, TimesInOrder, ImportedOnce
<1> QED
  BY <1>1, <1>2, <1>3, DriveBaseHolds, PTL DEF DriveSpec

(***************************************************************************)
(* What is retired.                                                        *)
(***************************************************************************)
\* The versions of f that are, or may become, visible.
Waiting(f) == InState(f, {"CURRENT", "PENDING"})

\* What a pass is about to retire, to bring back or to replace.
RetireInv ==
    /\ \A d \in Docs : versions[d].state = "DUPLICATE" => life[d] = "duplicate"
    /\ \A s \in Syncers :
          /\ pass[s].pc = "restored" => versions[pass[s].doc].file \in {None, pass[s].file}
          /\ pass[s].pc \in OnGone => \A d \in Waiting(pass[s].file) \ pass[s].left : Gone(d)
          /\ pass[s].pc \in Replacing =>
                /\ versions[Newest(pass[s].file)].state = "PENDING"
                /\ \A d \in pass[s].left : versions[d].state \in {"CURRENT", "PENDING"}

\* The versions of a file depend on the file alone.
LEMMA SameFiles ==
    ASSUME \A d \in Docs : SameVersion(versions'[d], versions[d]), NEW f
    PROVE  /\ Versions(f)' = Versions(f) /\ Newest(f)' = Newest(f)
           /\ Versions(f) \subseteq Docs
<1>1. Versions(f)' = Versions(f)
  BY DEF Versions, SameVersion
<1> QED
  BY <1>1 DEF Newest, Versions

\* Only the pass that moved is anywhere.
LEMMA RetireMoves ==
    ASSUME NEW s \in Syncers, \A t \in Syncers \ {s} : pass'[t] = pass[t] /\ pass[t].pc = "idle",
           \A d \in Docs : versions'[d].state = "DUPLICATE" => life'[d] = "duplicate",
           pass'[s].pc = "restored" => versions'[pass'[s].doc].file \in {None, pass'[s].file},
           pass'[s].pc \in OnGone =>
               \A d \in Waiting(pass[s].file)' \ pass'[s].left : Gone(d)',
           pass'[s].pc \in Replacing =>
               /\ versions'[Newest(pass[s].file)'].state = "PENDING"
               /\ \A d \in pass'[s].left : versions'[d].state \in {"CURRENT", "PENDING"}
    PROVE  RetireInv'
  BY DEF RetireInv, OnGone, Replacing

\* A pass goes on retiring, bringing back and replacing as it began.
LEMMA RetireStep ==
    ASSUME DriveBase, Owned, RetireInv, [DriveNext]_driveVars
    PROVE  RetireInv'
<1>0. \A t \in Syncers : pass[t] \in PassStates /\ PassFits(pass[t]) /\ Tracks(pass[t])
  BY DEF DriveBase, DriveTypes
<1>1. CASE Outside
  <2>1. UNCHANGED <<rows, versions, pass>>
    BY <1>1, OutsideMoves DEF DriveBase
  <2>2. /\ \A d \in Docs : Gone(d) => Gone(d)'
        /\ \A d \in Docs : life[d] = "duplicate" => life'[d] = "duplicate"
    BY <1>1, OutsideDoes DEF Gone
  <2>3. \A f : Waiting(f)' = Waiting(f) /\ Newest(f)' = Newest(f) /\ Waiting(f) \subseteq Docs
    BY <2>1 DEF Waiting, InState, Newest, Versions
  <2> QED
    BY <2>1, <2>2, <2>3 DEF RetireInv
<1>2. ASSUME NEW s \in Syncers, PassKinds(s)
      PROVE  RetireInv'
  <2>0. \A t \in Syncers \ {s} : pass'[t] = pass[t] /\ pass[t].pc = "idle"
    BY <1>2, OthersIdle
  <2>1. ASSUME pass'[s].pc \notin {"restored"} \cup OnGone \cup Replacing,
               \A d \in Docs : versions'[d].state = "DUPLICATE" => life'[d] = "duplicate"
        PROVE  RetireInv'
    BY <2>0, <2>1, RetireMoves
  <2>2. CASE Turns(s) \/ \E f \in Files : FileEnds(s, f)
    <3>1. UNCHANGED <<life, versions>> /\ pass'[s].pc \in Between
      BY <2>2, TurnsBase, FileEndsBase DEF Between
    <3> QED
      BY <2>1, <3>1 DEF RetireInv, Between, OnGone, Replacing
  <2>3. CASE \E f \in Files : _reclassify(s, f)
    <3>1. UNCHANGED <<life, versions>> /\ pass'[s].pc \in {"record", "reclassify"}
      BY <2>3, ReclassifiesBase DEF lifeVars
    <3> QED
      BY <2>1, <3>1 DEF RetireInv, OnGone, Replacing
  <2>4. CASE Imports(s)
    <3>1. CASE \E f \in Files : sync_receives(s, f)
      <4>1. /\ UNCHANGED versions /\ pass'[s].pc = "received"
            /\ \E d \in Docs : life[d] = "absent" /\ life' = [life EXCEPT ![d] = "received"]
        BY <3>1, ReceivesBase
      <4>2. \A d \in Docs : life[d] = "duplicate" => life'[d] = "duplicate"
        BY <4>1 DEF DriveBase, DriveTypes
      <4> QED
        BY <2>1, <4>1, <4>2 DEF RetireInv, OnGone, Replacing
    <3>2. CASE sync_records(s)
      <4>1. UNCHANGED <<life, versions>> /\ pass'[s].pc = "recorded"
        BY <3>2, RecordsBase DEF docVars, lifeVars
      <4> QED
        BY <2>1, <4>1 DEF RetireInv, OnGone, Replacing
    <3>3. CASE sync_adds_version(s)
      <4>1. /\ UNCHANGED life /\ pass'[s].pc = "files"
            /\ \A d \in Docs \ {pass[s].doc} : versions'[d] = versions[d]
            /\ versions'[pass[s].doc].state = "PENDING"
        BY <3>3, AddsBase DEF docVars, lifeVars
      <4> QED
        BY <2>1, <4>1 DEF RetireInv, OnGone, Replacing
    <3> QED
      BY <2>4, <3>1, <3>2, <3>3 DEF Imports
  <2>5. ASSUME NEW f \in Files, _restore_document(s, f)
        PROVE  RetireInv'
    <3>1. /\ UNCHANGED <<life, versions>> /\ RemovedDoc(f) \in Docs
          /\ pass'[s].pc = "restored" /\ pass'[s].file = f /\ pass'[s].doc = RemovedDoc(f)
      BY <2>5, RestoresBase
    <3>2. versions[RemovedDoc(f)].file \in {None, f}
      <4>1. CASE InState(f, {"REMOVED"}) # {}
        <5>1. InState(f, {"REMOVED"}) \subseteq Versions(f)
          BY DEF InState
        <5> QED
          BY <4>1, <5>1, NewestIs DEF DriveBase, RemovedDoc, Versions
      <4>2. CASE InState(f, {"REMOVED"}) = {}
        BY <3>1, <4>2, DriveAssumption DEF RemovedDoc, Owned
      <4> QED
        BY <4>1, <4>2
    <3>3. \A d \in Docs : versions'[d].state = "DUPLICATE" => life'[d] = "duplicate"
      BY <3>1 DEF RetireInv
    <3> QED
      BY <2>0, <3>1, <3>2, <3>3, RetireMoves DEF OnGone, Replacing
  <2>6. CASE _restore_version(s)
    <3>1. /\ UNCHANGED life /\ pass'[s].pc \in {"record", "targets"}
          /\ \A d \in Docs : versions'[d].state \in {versions[d].state, "PENDING"}
      <4>1. /\ UNCHANGED life /\ pass'[s].pc \in {"record", "targets"}
            /\ \A d \in Docs : versions'[d] =
                   IF d = pass[s].doc /\ versions[d].state = "REMOVED"
                   THEN [versions[d] EXCEPT !.state = "PENDING"] ELSE versions[d]
        BY <2>6, RestoresVersionBase DEF docVars, lifeVars
      <4> QED
        BY <4>1 DEF DriveBase, DriveTypes, VersionRows
    <3> QED
      BY <2>1, <3>1 DEF RetireInv, OnGone, Replacing
  <2>7. CASE _retire_marks(s)
    <3>1. /\ UNCHANGED life /\ pass'[s].pc \in {"retire", "reconcile"}
          /\ \A d \in Docs : versions'[d].state \in {versions[d].state, "REMOVED"}
      BY <2>7, RetireMarksBase DEF docVars, lifeVars
    <3> QED
      BY <2>1, <3>1 DEF RetireInv, OnGone, Replacing
  <2>8. ASSUME NEW f \in Files, _retire_vanished(s, f)
        PROVE  RetireInv'
    <3>1. /\ UNCHANGED <<life, versions, byHand>> /\ pass[s].pc \in {"retire", "hide"}
          /\ pass[s].pc # "retire" => f = pass[s].file
          /\ pass'[s].pc \in OnGone /\ pass'[s].file = f
      BY <2>8, RetiresBase DEF lifeVars, handVars, OnGone
    <3>2. PICK d \in Docs :
             /\ hidden' = [hidden EXCEPT ![d] = TRUE]
             /\ pass[s].pc = "hide" => pass'[s].left = pass[s].left \ {d}
             /\ pass[s].pc = "retire" => pass'[s].left = Visibles(f) \ {d}
      BY <2>8, RetiresBase
    <3>3. \A e \in Docs : Gone(e) \/ e = d => Gone(e)'
      BY <3>1, <3>2 DEF Gone, DriveBase, DriveTypes
    <3>4. \A e \in Waiting(f) \ pass'[s].left : Gone(e) \/ e = d
      <4>1. CASE pass[s].pc = "hide"
        BY <3>1, <3>2, <4>1 DEF RetireInv, OnGone
      <4>2. CASE pass[s].pc = "retire"
        BY <3>2, <4>2 DEF Waiting, Visibles
      <4> QED
        BY <3>1, <4>1, <4>2
    <3>5. Waiting(f)' = Waiting(f) /\ Waiting(f) \subseteq Docs
      BY <3>1 DEF Waiting, InState, Versions
    <3>6. \A e \in Docs : versions'[e].state = "DUPLICATE" => life'[e] = "duplicate"
      BY <3>1 DEF RetireInv
    <3>7. \A e \in Waiting(pass[s].file)' \ pass'[s].left : Gone(e)'
      BY <3>1, <3>3, <3>4, <3>5
    <3> QED
      BY <2>0, <3>1, <3>6, <3>7, RetireMoves DEF OnGone, Replacing
  <2>9. CASE _reconcile_file(s)
    <3>1. UNCHANGED life /\ pass'[s].pc = "reconcile"
      BY <2>9, SettlesBase DEF docVars, lifeVars
    <3>2. \A d \in Docs : versions'[d].state = "DUPLICATE" => life[d] = "duplicate"
      <4>1. PICK f \in Files : \A d \in Docs : versions'[d].state =
                 IF TakesOver(f) /\ d = Newest(f) THEN "CURRENT" ELSE SettledIn(f)[d].state
        BY <2>9, SettlesBase
      <4> QED
        BY <4>1, Settles DEF RetireInv
    <3> QED
      BY <2>1, <3>1, <3>2 DEF OnGone, Replacing
  <2>10. CASE _reconcile_replaces(s)
    <3>1. PICK f \in Files :
             /\ Versions(f) # {} /\ TakesOver(f)
             /\ Min(Older(f)) \in Older(f) /\ Min(Older(f)) \in Docs
             /\ life' = [life EXCEPT ![Min(Older(f))] =
                               IF Erased(Min(Older(f))) THEN @ ELSE "superseded"]
             /\ pass'[s].file = f /\ pass'[s].left = Older(f) \ {Min(Older(f))}
             /\ versions' = SettledIn(f)
      BY <2>10, ReplacesBase
    <3>2. pass'[s].pc = "superseded"
      BY <2>10, ReplacesBase
    <3>3. /\ \A d \in Docs : SameVersion(versions'[d], versions[d])
          /\ \A d \in Docs : versions'[d].state = "DUPLICATE" => life[d] = "duplicate"
          /\ \A d \in Versions(f) : versions'[d] = Settled(d)
      BY <3>1, Settles DEF RetireInv
    <3>4. \A d \in Older(f) : versions'[d].state \in {"CURRENT", "PENDING"}
      BY <3>3 DEF Older
    <3>5. versions'[Newest(f)].state = "PENDING" /\ Newest(f)' = Newest(f)
      <4>1. Newest(f) \in Versions(f)
        BY <3>1, NewestVersion DEF Versions
      <4> QED
        BY <3>1, <3>3, <4>1, SameFiles DEF TakesOver
    <3>6. \A d \in Docs : versions'[d].state = "DUPLICATE" => life'[d] = "duplicate"
      BY <3>1, <3>3, <3>4 DEF DriveBase, DriveTypes
    <3> QED
      BY <2>0, <3>1, <3>2, <3>4, <3>5, <3>6, RetireMoves DEF OnGone, Replacing
  <2>11. CASE _supersede(s)
    <3>0. pass[s].file \in Files /\ pass[s].left \subseteq Docs
      BY <1>0, <2>11, SupersedesBase DEF PassStates
    <3>1. PICK f \in Files, left \in SUBSET Docs : f = pass[s].file /\ left = pass[s].left
      BY <3>0
    <3>2. /\ pass[s].pc = "supersede" /\ Min(left) \in left /\ Min(left) \in Docs
          /\ life' = [life EXCEPT ![Min(left)] =
                            IF Erased(Min(left)) THEN @ ELSE "superseded"]
          /\ pass'[s].pc = "superseded" /\ pass'[s].file = f /\ pass'[s].left = left \ {Min(left)}
          /\ \A d \in Docs :
                /\ SameVersion(versions'[d], versions[d])
                /\ versions'[d].state = IF d \in StillOlder(f) \ left THEN "SUPERSEDED"
                                        ELSE versions[d].state
      BY <2>11, <3>1, SupersedesBase
    <3>3. /\ versions[Newest(f)].state = "PENDING"
          /\ \A d \in left : versions[d].state \in {"CURRENT", "PENDING"}
      BY <3>1, <3>2 DEF RetireInv, Replacing
    <3>4. Newest(f)' = Newest(f) /\ Newest(f) \in Docs
      <4>1. Versions(f) # {}
        BY <1>0, <3>1, <3>2 DEF Tracks, PassFits, Replacing
      <4> QED
        BY <3>2, <4>1, SameFiles, NewestVersion
    <3>5. Newest(f) \notin StillOlder(f)
      BY DEF StillOlder
    <3>6. \A d \in Docs : versions'[d].state = "DUPLICATE" => life'[d] = "duplicate"
      BY <3>2, <3>3 DEF RetireInv, DriveBase, DriveTypes
    <3>7. /\ versions'[Newest(f)'].state = "PENDING"
          /\ \A d \in pass'[s].left : versions'[d].state \in {"CURRENT", "PENDING"}
      BY <3>2, <3>3, <3>4, <3>5
    <3>8. Newest(pass[s].file)' = Newest(f)'
      BY <3>2
    <3> QED
      BY <2>0, <3>2, <3>6, <3>7, <3>8, RetireMoves DEF OnGone, Replacing
  <2>12. CASE _supersede_hides(s)
    <3>0. PICK f \in Files : f = pass[s].file
      BY <2>12, HidesBase
    <3>1. /\ UNCHANGED <<life, versions>> /\ pass[s].pc = "superseded"
          /\ pass'[s].pc \in Replacing /\ pass'[s].file = f /\ pass'[s].left = pass[s].left
      BY <2>12, <3>0, HidesBase DEF lifeVars, Replacing
    <3>2. /\ versions[Newest(f)].state = "PENDING"
          /\ \A d \in pass[s].left : versions[d].state \in {"CURRENT", "PENDING"}
      BY <3>0, <3>1 DEF RetireInv, Replacing
    <3>3. Newest(f)' = Newest(f) /\ Newest(pass[s].file)' = Newest(f)'
      BY <3>1 DEF Newest, Versions
    <3>4. \A d \in Docs : versions'[d].state = "DUPLICATE" => life'[d] = "duplicate"
      BY <3>1 DEF RetireInv
    <3> QED
      BY <2>0, <3>1, <3>2, <3>3, <3>4, RetireMoves DEF OnGone, Replacing
  <2>13. CASE _reconcile_settles(s)
    <3>1. /\ UNCHANGED life /\ pass'[s].pc = "reconcile"
          /\ \A d \in Docs : versions'[d].state \in {versions[d].state, "CURRENT", "SUPERSEDED"}
      BY <2>13, CurrentBase DEF docVars, lifeVars
    <3> QED
      BY <2>1, <3>1 DEF RetireInv, OnGone, Replacing
  <2> QED
    BY <1>2, <2>2, <2>3, <2>4, <2>5, <2>6, <2>7, <2>8, <2>9, <2>10, <2>11, <2>12, <2>13
    DEF PassKinds, Restores, Retires, SettlesAll
<1> QED
  BY <1>1, <1>2, Kinds

\* While no pass was cut short and no file has failed: a version that was retired with its file
\* is hidden, and a file that is gone has none that is waiting or CURRENT, except in the middle
\* of bringing it back.
RemovedInv ==
    Smooth =>
        /\ \A d \in Docs : versions[d].state = "REMOVED" =>
              \/ Gone(d)
              \/ \E s \in Syncers : /\ pass[s].pc = "restored" /\ pass[s].doc = d
                                    /\ pass[s].file = versions[d].file
        /\ \A f \in Files : rows[f].state = "REMOVED" =>
              \/ Waiting(f) = {}
              \/ \E s \in Syncers : /\ pass[s].pc \in {"targets", "reclassify", "record"}
                                    /\ pass[s].file = f

\* A turn is one of a pass between files, or cuts it short.
LEMMA TurnsBetween ==
    ASSUME DriveBase, NEW s \in Syncers, Turns(s)
    PROVE  (pass[s].pc \in Between /\ crashes' = crashes) \/ crashes' = crashes + 1
<1>1. CASE sync_dies(s)
  BY <1>1 DEF sync_dies
<1>2. CASE files_done(s)
  BY <1>2 DEF files_done, counts, At, Between
<1>3. CASE sync_ends(s)
  BY <1>3 DEF sync_ends, counts, At, Between
<1>4. CASE list_public(s) \/ list_restricted(s)
  BY <1>4 DEF list_public, list_restricted, counts, At, Between
<1>5. CASE \E limited \in BOOLEAN : sync_once(s, limited)
  BY <1>5 DEF sync_once, counts, At, Between
<1> QED
  BY <1>1, <1>2, <1>3, <1>4, <1>5 DEF Turns

\* What is retired stays hidden.
LEMMA RemovedStep ==
    ASSUME DriveBase, Owned, RetireInv, RemovedInv, [DriveNext]_driveVars
    PROVE  RemovedInv'
<1>0. /\ \A t \in Syncers : pass[t] \in PassStates /\ PassFits(pass[t]) /\ Tracks(pass[t])
      /\ errors \in Nat /\ crashes \in Nat
  BY DEF DriveBase, DriveTypes
<1> DEFINE Back(d) == \E s \in Syncers : /\ pass[s].pc = "restored" /\ pass[s].doc = d
                                         /\ pass[s].file = versions[d].file
           Busy(f) == \E s \in Syncers : /\ pass[s].pc \in {"targets", "reclassify", "record"}
                                         /\ pass[s].file = f
<1>1. CASE Outside
  <2>1. UNCHANGED <<rows, versions, pass, errors, crashes>>
    BY <1>1, OutsideMoves DEF DriveBase
  <2>2. \A d \in Docs : Gone(d) => Gone(d)'
    BY <1>1, OutsideDoes DEF Gone
  <2>3. \A f : Waiting(f)' = Waiting(f)
    BY <2>1 DEF Waiting, InState, Versions
  <2> QED
    BY <2>1, <2>2, <2>3 DEF RemovedInv, Smooth
<1>2. ASSUME NEW s \in Syncers, PassKinds(s), Smooth'
      PROVE  RemovedInv'
  <2>0. \A t \in Syncers \ {s} : pass'[t] = pass[t] /\ pass[t].pc = "idle"
    BY <1>2, OthersIdle
  <2>1. ASSUME Smooth,
               \A d \in Docs : versions'[d].state = "REMOVED" =>
                   \/ Gone(d)'
                   \/ pass'[s].pc = "restored" /\ pass'[s].doc = d
                         /\ pass'[s].file = versions'[d].file,
               \A f \in Files : rows'[f].state = "REMOVED" =>
                   \/ Waiting(f)' = {}
                   \/ /\ pass'[s].pc \in {"targets", "reclassify", "record"}
                      /\ pass'[s].file = f
        PROVE  RemovedInv'
    BY <2>1 DEF RemovedInv
  <2>2. ASSUME Smooth, pass[s].pc # "restored"
        PROVE  \A d \in Docs : versions[d].state = "REMOVED" => Gone(d)
    BY <2>0, <2>2 DEF RemovedInv
  <2>3. ASSUME Smooth, NEW f \in Files, rows[f].state = "REMOVED", Waiting(f) # {}
        PROVE  pass[s].pc \in {"targets", "reclassify", "record"} /\ pass[s].file = f
    BY <2>0, <2>3 DEF RemovedInv
  <2>4. CASE Turns(s)
    <3>1. UNCHANGED <<rows, versions, hidden, byHand, errors>>
      BY <2>4, TurnsBase DEF handVars
    <3>2. Smooth /\ pass[s].pc \in Between
      BY <1>0, <1>2, <2>4, <3>1, TurnsBetween DEF Smooth
    <3>3. \A f : Waiting(f)' = Waiting(f)
      BY <3>1 DEF Waiting, InState, Versions
    <3> QED
      BY <2>1, <2>2, <2>3, <3>1, <3>2, <3>3 DEF Between, Gone
  <2>5. ASSUME NEW f \in Files, FileEnds(s, f)
        PROVE  RemovedInv'
    <3>1. /\ UNCHANGED <<versions, hidden, byHand, crashes>>
          /\ \A g \in Files \ {f} : rows'[g] = rows[g]
      BY <2>5, FileEndsBase
    <3>2. /\ Smooth /\ rows'[f].state # "REMOVED"
          /\ (pass[s].pc = "files" \/ (pass[s].pc = "record" /\ pass[s].file = f))
      <4>1. ~sync_fails(s, f)
        BY <1>0, <1>2 DEF Smooth, sync_fails
      <4>2. rows'[f].state # "REMOVED" /\ errors' = errors
        BY <2>5, <4>1, FileEndsBase
      <4>3. pass[s].pc = "files" \/ (pass[s].pc = "record" /\ pass[s].file = f)
        <5>1. CASE sync_unchanged(s, f) \/ sync_skips(s, f)
          BY <5>1 DEF sync_unchanged, sync_skips, At
        <5>2. CASE _record_unchanged(s) /\ f = pass[s].file
          BY <5>2 DEF _record_unchanged, At
        <5> QED
          BY <2>5, <4>1, <5>1, <5>2 DEF FileEnds
      <4> QED
        BY <1>2, <3>1, <4>2, <4>3 DEF Smooth
    <3>3. \A g : Waiting(g)' = Waiting(g)
      BY <3>1 DEF Waiting, InState, Versions
    <3> QED
      BY <2>1, <2>2, <2>3, <3>1, <3>2, <3>3 DEF Gone
  <2>6. ASSUME NEW f \in Files, _reclassify(s, f)
        PROVE  RemovedInv'
    <3>1. /\ UNCHANGED <<rows, versions, hidden, byHand, errors, crashes>>
          /\ pass[s].pc \in {"files", "targets", "reclassify"}
          /\ pass[s].pc # "files" => f = pass[s].file
          /\ pass'[s].pc \in {"record", "reclassify"} /\ pass'[s].file = f
      BY <2>6, ReclassifiesBase DEF handVars, counts
    <3>2. \A g : Waiting(g)' = Waiting(g)
      BY <3>1 DEF Waiting, InState, Versions
    <3>3. Smooth
      BY <1>2, <3>1 DEF Smooth
    <3> QED
      BY <2>1, <2>2, <2>3, <3>1, <3>2, <3>3 DEF Gone
  <2>7. ASSUME NEW f \in Files, sync_receives(s, f)
        PROVE  RemovedInv'
    <3>1. UNCHANGED <<rows, versions, hidden, byHand, errors, crashes>> /\ pass[s].pc = "files"
      BY <2>7, ReceivesBase DEF handVars, counts
    <3>2. \A g : Waiting(g)' = Waiting(g)
      BY <3>1 DEF Waiting, InState, Versions
    <3>3. Smooth
      BY <1>2, <3>1 DEF Smooth
    <3> QED
      BY <2>1, <2>2, <2>3, <3>1, <3>2, <3>3 DEF Gone
  <2>8. CASE sync_records(s)
    <3>1. /\ UNCHANGED <<versions, hidden, byHand, errors, crashes>> /\ pass[s].pc = "received"
          /\ \A g \in Files : rows'[g].state = "REMOVED" => rows[g].state = "REMOVED"
      BY <2>8, RecordsBase DEF docVars, handVars, counts
    <3>2. \A g : Waiting(g)' = Waiting(g)
      BY <3>1 DEF Waiting, InState, Versions
    <3>3. Smooth
      BY <1>2, <3>1 DEF Smooth
    <3> QED
      BY <2>1, <2>2, <2>3, <3>1, <3>2, <3>3 DEF Gone
  <2>9. CASE sync_adds_version(s)
    <3>0. PICK g \in Files, d \in Docs : g = pass[s].file /\ d = pass[s].doc
      BY <2>9, AddsBase
    <3>1. /\ UNCHANGED <<rows, hidden, byHand, errors, crashes>> /\ pass[s].pc = "recorded"
          /\ rows[g].state = "IMPORTED"
          /\ \A e \in Docs \ {d} : versions'[e] = versions[e]
          /\ versions'[d].file = g /\ versions'[d].state = "PENDING"
      BY <2>9, <3>0, AddsBase DEF docVars, handVars, counts
    <3>2. \A f \in Files : f # g => Waiting(f)' \subseteq Waiting(f)
      BY <3>1 DEF Waiting, InState, Versions
    <3>3. Smooth
      BY <1>2, <3>1 DEF Smooth
    <3> QED
      BY <2>1, <2>2, <2>3, <3>1, <3>2, <3>3 DEF Gone
  <2>10. ASSUME NEW f \in Files, _restore_document(s, f)
         PROVE  RemovedInv'
    <3>0. PICK d \in Docs : d = RemovedDoc(f)
      BY <2>10, RestoresBase
    <3>1. /\ UNCHANGED <<rows, versions, byHand, errors, crashes>> /\ pass[s].pc = "files"
          /\ hidden' = [hidden EXCEPT ![d] = @ /\ Erased(d)]
          /\ pass'[s].pc = "restored" /\ pass'[s].file = f /\ pass'[s].doc = d
      BY <2>10, <3>0, RestoresBase
    <3>2. versions[d].state = "REMOVED" => versions[d].file = f
      <4>1. RetireInv'
        BY RetireStep
      <4>2. versions'[d].file \in {None, f}
        BY <3>1, <4>1 DEF RetireInv
      <4> QED
        BY <3>1, <4>2 DEF DriveBase, InOrder
    <3>3. Smooth /\ \A g : Waiting(g)' = Waiting(g)
      BY <1>2, <3>1 DEF Smooth, Waiting, InState, Versions
    <3>4. \A e \in Docs \ {d} : Gone(e) => Gone(e)'
      BY <3>1 DEF Gone, DriveBase, DriveTypes
    <3> QED
      BY <2>1, <2>2, <2>3, <3>1, <3>2, <3>3, <3>4
  <2>11. CASE _restore_version(s)
    <3>0. PICK g \in Files, d \in Docs : g = pass[s].file /\ d = pass[s].doc
      BY <2>11, RestoresVersionBase
    <3>1. /\ UNCHANGED <<rows, hidden, byHand, errors, crashes>> /\ pass[s].pc = "restored"
          /\ pass'[s].pc \in {"record", "targets"} /\ pass'[s].file = g
          /\ \A e \in Docs \ {d} : versions'[e] = versions[e]
          /\ versions'[d] = IF versions[d].state = "REMOVED"
                            THEN [versions[d] EXCEPT !.state = "PENDING"] ELSE versions[d]
      BY <2>11, <3>0, RestoresVersionBase DEF docVars, handVars, counts
    <3>2. /\ versions'[d].file = versions[d].file
          /\ versions'[d].state = IF versions[d].state = "REMOVED" THEN "PENDING"
                                  ELSE versions[d].state
      BY <3>1 DEF DriveBase, DriveTypes, VersionRows
    <3>3. \A f \in Files : f # g => Waiting(f)' = Waiting(f)
      <4>1. versions[d].state = "REMOVED" => versions[d].file = g
        BY <3>0, <3>1 DEF RetireInv, DriveBase, InOrder
      <4> QED
        BY <3>1, <3>2, <4>1 DEF Waiting, InState, Versions
    <3>4. Smooth
      BY <1>2, <3>1 DEF Smooth
    <3>5. \A e \in Docs : versions[e].state = "REMOVED" /\ e # d => Gone(e)
      BY <2>0, <3>0, <3>4 DEF RemovedInv
    <3>6. \A e \in Docs : versions'[e].state = "REMOVED" => Gone(e)'
      BY <3>1, <3>2, <3>5 DEF Gone
    <3>7. \A f \in Files : rows[f].state = "REMOVED" /\ f # g => Waiting(f) = {}
      BY <2>3, <3>1, <3>4
    <3> QED
      BY <2>1, <3>1, <3>3, <3>4, <3>6, <3>7
  <2>12. CASE _retire_marks(s)
    <3>0. PICK f \in Files : f = pass[s].file
      BY <2>12, RetireMarksBase
    <3>1. /\ UNCHANGED <<hidden, byHand, errors, crashes>> /\ pass[s].pc = "retired"
          /\ \A g \in Files \ {f} : rows'[g] = rows[g]
          /\ \A d \in Docs :
                /\ SameVersion(versions'[d], versions[d])
                /\ versions'[d].state = IF d \in Waiting(f) THEN "REMOVED" ELSE versions[d].state
      BY <2>12, <3>0, RetireMarksBase DEF docVars, handVars, counts, Waiting
    <3>2. Smooth
      BY <1>2, <3>1 DEF Smooth
    <3>3. \A d \in Waiting(f) : Gone(d)
      BY <1>0, <3>0, <3>1 DEF RetireInv, OnGone, PassFits
    <3>4. \A d \in Docs : versions'[d].state = "REMOVED" => Gone(d)'
      BY <2>2, <3>1, <3>2, <3>3 DEF Gone
    <3>5. Waiting(f)' = {}
      BY <3>1 DEF Waiting, InState, Versions, SameVersion
    <3>6. \A g \in Files : Waiting(g)' \subseteq Waiting(g)
      BY <3>1 DEF Waiting, InState, Versions, SameVersion
    <3>7. \A g \in Files \ {f} : rows[g].state = "REMOVED" => Waiting(g) = {}
      BY <2>3, <3>1, <3>2
    <3> QED
      BY <2>1, <3>1, <3>2, <3>4, <3>5, <3>6, <3>7
  <2>13. ASSUME NEW f \in Files, _retire_vanished(s, f)
         PROVE  RemovedInv'
    <3>1. /\ UNCHANGED <<rows, versions, byHand, errors, crashes>>
          /\ pass[s].pc \in {"retire", "hide"}
      BY <2>13, RetiresBase DEF handVars, counts
    <3>2. \A d \in Docs : hidden[d] => hidden'[d]
      BY <2>13, RetiresBase DEF DriveBase, DriveTypes
    <3>3. \A g : Waiting(g)' = Waiting(g)
      BY <3>1 DEF Waiting, InState, Versions
    <3>4. Smooth
      BY <1>2, <3>1 DEF Smooth
    <3> QED
      BY <2>1, <2>2, <2>3, <3>1, <3>2, <3>3, <3>4 DEF Gone
  <2>14. CASE _reconcile_file(s)
    <3>0. PICK f \in Files :
             /\ Versions(f) # {}
             /\ \A d \in Docs :
                   /\ SameVersion(versions'[d], versions[d])
                   /\ versions'[d].state = IF TakesOver(f) /\ d = Newest(f) THEN "CURRENT"
                                           ELSE SettledIn(f)[d].state
      BY <2>14, SettlesBase
    <3>1. UNCHANGED <<rows, hidden, byHand, errors, crashes>> /\ pass[s].pc = "reconcile"
      BY <2>14, SettlesBase DEF docVars, handVars, counts
    <3>2. Smooth
      BY <1>2, <3>1 DEF Smooth
    <3>3. \A d \in Docs : versions'[d].state = "REMOVED" => versions[d].state = "REMOVED"
      BY <3>0, Settles
    <3>4. TakesOver(f) => Newest(f) \in Waiting(f)
      <4>1. Newest(f) \in Versions(f) /\ Newest(f) \in Docs
        BY <3>0, NewestVersion DEF Versions
      <4> QED
        BY <4>1, Settles DEF TakesOver, Waiting, InState, Versions
    <3>5. \A g \in Files : Waiting(g)' \subseteq Waiting(g)
      BY <3>0, <3>4, Settles DEF Waiting, InState, Versions, SameVersion
    <3> QED
      BY <2>1, <2>2, <2>3, <3>1, <3>2, <3>3, <3>5 DEF Gone
  <2>15. CASE _reconcile_replaces(s)
    <3>0. PICK f \in Files : versions' = SettledIn(f)
      BY <2>15, ReplacesBase
    <3>1. UNCHANGED <<rows, hidden, byHand, errors, crashes>> /\ pass[s].pc = "reconcile"
      BY <2>15, ReplacesBase DEF counts
    <3>2. Smooth
      BY <1>2, <3>1 DEF Smooth
    <3>3. \A d \in Docs : versions'[d].state = "REMOVED" => versions[d].state = "REMOVED"
      BY <3>0, Settles
    <3>4. \A g \in Files : Waiting(g)' \subseteq Waiting(g)
      BY <3>0, Settles DEF Waiting, InState, Versions, SameVersion
    <3> QED
      BY <2>1, <2>2, <2>3, <3>1, <3>2, <3>3, <3>4 DEF Gone
  <2>16. CASE _supersede(s)
    <3>1. /\ UNCHANGED <<rows, hidden, byHand, errors, crashes>> /\ pass[s].pc = "supersede"
          /\ \A d \in Docs :
                /\ SameVersion(versions'[d], versions[d])
                /\ versions'[d].state \in {versions[d].state, "SUPERSEDED"}
      BY <2>16, SupersedesBase DEF counts
    <3>2. Smooth
      BY <1>2, <3>1 DEF Smooth
    <3>3. \A g \in Files : Waiting(g)' \subseteq Waiting(g)
      BY <3>1 DEF Waiting, InState, Versions, SameVersion
    <3> QED
      BY <2>1, <2>2, <2>3, <3>1, <3>2, <3>3 DEF Gone
  <2>17. CASE _supersede_hides(s)
    <3>1. UNCHANGED <<rows, versions, byHand, errors, crashes>> /\ pass[s].pc = "superseded"
      BY <2>17, HidesBase DEF handVars, counts
    <3>2. \A d \in Docs : hidden[d] => hidden'[d]
      BY <2>17, HidesBase DEF DriveBase, DriveTypes
    <3>3. Smooth /\ \A g : Waiting(g)' = Waiting(g)
      BY <1>2, <3>1 DEF Smooth, Waiting, InState, Versions
    <3> QED
      BY <2>1, <2>2, <2>3, <3>1, <3>2, <3>3 DEF Gone
  <2>18. CASE _reconcile_settles(s)
    <3>0. PICK f \in Files : f = pass[s].file /\ Versions(f) # {}
      BY <2>18, CurrentBase
    <3>1. /\ UNCHANGED <<rows, hidden, byHand, errors, crashes>> /\ pass[s].pc = "settle"
          /\ \A d \in Docs :
                /\ SameVersion(versions'[d], versions[d])
                /\ versions'[d].state = IF d = Newest(f) THEN "CURRENT"
                                        ELSE IF d \in StillOlder(f) THEN "SUPERSEDED"
                                        ELSE versions[d].state
      BY <2>18, <3>0, CurrentBase DEF docVars, handVars, counts
    <3>2. Smooth
      BY <1>2, <3>1 DEF Smooth
    <3>3. \A d \in Docs : versions'[d].state = "REMOVED" => versions[d].state = "REMOVED"
      BY <3>1
    <3>4. Newest(f) \in Waiting(f)
      <4>1. versions[Newest(f)].state = "PENDING"
        BY <3>0, <3>1 DEF RetireInv, Replacing
      <4> QED
        BY <3>0, <4>1, NewestVersion DEF Waiting, InState, Versions
    <3>5. \A g \in Files : Waiting(g)' \subseteq Waiting(g)
      BY <3>1, <3>4 DEF Waiting, InState, Versions, SameVersion
    <3> QED
      BY <2>1, <2>2, <2>3, <3>1, <3>2, <3>3, <3>5 DEF Gone
  <2> QED
    BY <1>2, <2>4, <2>5, <2>6, <2>7, <2>8, <2>9, <2>10, <2>11, <2>12, <2>13, <2>14, <2>15, <2>16,
       <2>17, <2>18 DEF PassKinds, Imports, Restores, Retires, SettlesAll
<1> QED
  BY <1>1, <1>2, Kinds DEF RemovedInv

\* Nothing of a file that is gone is seen, for as long as everything goes smoothly.
THEOREM RetiredHiddenHolds == DriveSpec => []RetiredIsHidden
<1>1. DriveInit => RetireInv /\ RemovedInv
  <2> SUFFICES ASSUME DriveInit PROVE RetireInv /\ RemovedInv
    OBVIOUS
  <2>1. /\ \A s \in Syncers : pass[s].pc = "idle"
        /\ \A f \in Files : rows[f].state = "none"
        /\ \A d \in Docs : versions[d].state = "none"
    BY DEF DriveInit, NoPass, NoRow, NoVersion
  <2> QED
    BY <2>1 DEF RetireInv, RemovedInv, OnGone, Replacing
<1>2. DriveBase /\ Owned /\ RetireInv /\ RemovedInv /\ [DriveNext]_driveVars
          => RetireInv' /\ RemovedInv'
  BY RetireStep, RemovedStep
<1>3. DriveBase /\ ReplacedInv /\ RetireInv /\ RemovedInv => RetiredIsHidden
  <2> SUFFICES ASSUME DriveBase, ReplacedInv, RetireInv, RemovedInv, NEW f \in Files,
                      rows[f].state = "REMOVED", Smooth, \A s \in Syncers : pass[s].file # f,
                      NEW d \in Versions(f) \ (byHand \cup InState(f, {"FAILED"}))
               PROVE  ~Visible(d)
    BY DEF RetiredIsHidden
  <2>1. d \in Docs /\ versions[d].file = f /\ d \notin byHand /\ versions[d].state # "FAILED"
    BY DEF Versions, InState
  <2>2. versions[d].state \in VersionState
    BY <2>1, DriveAssumption DEF DriveBase, DriveTypes, VersionRows, InOrder
  <2>3. CASE versions[d].state \in {"CURRENT", "PENDING"}
    BY <2>1, <2>3 DEF RemovedInv, Waiting, InState, Versions
  <2>4. CASE versions[d].state = "SUPERSEDED"
    BY <2>1, <2>4 DEF ReplacedInv, Gone, Visible
  <2>5. CASE versions[d].state = "REMOVED"
    BY <2>1, <2>5 DEF RemovedInv, Gone, Visible
  <2>6. CASE versions[d].state = "DUPLICATE"
    BY <2>1, <2>6 DEF RetireInv, Visible
  <2> QED
    BY <2>1, <2>2, <2>3, <2>4, <2>5, <2>6 DEF VersionState
<1> QED
  BY <1>1, <1>2, <1>3, ReplacedHolds, PTL DEF DriveSpec
(***************************************************************************)
(* What a pass takes away.                                                 *)
(***************************************************************************)

\* What a pass hides of a file that is gone was received, and is no other file's.
LEMMA VisiblesOwned ==
    ASSUME DriveBase, Owned, NEW f \in Files, rows[f].state = "IMPORTED", NEW d \in Visibles(f)
    PROVE  d \in Docs /\ life[d] # "absent" /\ versions[d].file \in {None, f}
<1>1. rows[f].doc # None /\ rows[f].doc \in Docs
  BY DEF DriveBase, Known, DriveTypes, FileRows
<1>2. CASE d = rows[f].doc
  BY <1>1, <1>2 DEF DriveBase, InOrder, Owned
<1>3. CASE d \in InState(f, {"CURRENT", "PENDING"})
  BY <1>3, DriveAssumption DEF InState, Versions, DriveBase, InOrder
<1> QED
  BY <1>2, <1>3 DEF Visibles

\* What has not been received is not hidden.  What a pass is about to hide is a document of
\* its file, and when it makes room for the newest version, not that one.
TargetsInv ==
    /\ \A d \in Docs : life[d] = "absent" => ~hidden[d]
    /\ \A s \in Syncers :
          /\ pass[s].pc = "hide" =>
                \A d \in pass[s].left :
                    life[d] # "absent" /\ versions[d].file \in {None, pass[s].file}
          /\ pass[s].pc \in Replacing => Newest(pass[s].file) \notin pass[s].left
          /\ pass[s].pc = "superseded" =>
                /\ versions[pass[s].doc].file = pass[s].file
                /\ pass[s].doc # Newest(pass[s].file)

\* It holds on.
LEMMA TargetsStep ==
    ASSUME DriveBase, Owned, TargetsInv, [DriveNext]_driveVars
    PROVE  TargetsInv'
<1>0. \A t \in Syncers : pass[t] \in PassStates /\ PassFits(pass[t]) /\ Tracks(pass[t])
  BY DEF DriveBase, DriveTypes
<1>1. \A d \in Docs : life[d] # "absent" => life'[d] # "absent"
  BY LivesStay
<1>2. CASE Outside
  <2>1. UNCHANGED <<rows, versions, pass>>
    BY <1>2, OutsideMoves DEF DriveBase
  <2>2. \A d \in Docs : hidden'[d] => hidden[d] \/ life'[d] # "absent"
    BY <1>2, OutsideDoes DEF Erased
  <2>3. \A f : Newest(f)' = Newest(f)
    BY <2>1 DEF Newest, Versions
  <2>4. \A s \in Syncers : pass[s].left \subseteq Docs
    BY <1>0 DEF PassStates
  <2> QED
    BY <1>1, <2>1, <2>2, <2>3, <2>4 DEF TargetsInv
<1>3. ASSUME NEW s \in Syncers, PassKinds(s)
      PROVE  TargetsInv'
  <2>0. \A t \in Syncers \ {s} : pass'[t] = pass[t] /\ pass[t].pc = "idle"
    BY <1>3, OthersIdle
  <2>1. ASSUME \A d \in Docs : hidden'[d] => hidden[d] \/ life[d] # "absent",
               pass'[s].pc = "hide" =>
                   \A d \in pass'[s].left :
                       life'[d] # "absent" /\ versions'[d].file \in {None, pass'[s].file},
               pass'[s].pc \in Replacing => Newest(pass[s].file)' \notin pass'[s].left,
               pass'[s].pc = "superseded" =>
                   /\ versions'[pass'[s].doc].file = pass'[s].file
                   /\ pass'[s].doc # Newest(pass[s].file)'
        PROVE  TargetsInv'
    BY <1>1, <2>0, <2>1 DEF TargetsInv, Replacing
  <2>2. ASSUME \A d \in Docs : hidden'[d] => hidden[d], pass'[s].pc \notin {"hide"} \cup Replacing
        PROVE  TargetsInv'
    BY <2>1, <2>2 DEF Replacing
  <2>3. CASE Turns(s) \/ \E f \in Files : FileEnds(s, f) \/ _reclassify(s, f)
    <3>1. UNCHANGED hidden /\ pass'[s].pc \in Between \cup {"record", "reclassify"}
      BY <2>3, TurnsBase, FileEndsBase, ReclassifiesBase DEF Between
    <3> QED
      BY <2>2, <3>1 DEF Between, Replacing
  <2>4. CASE Imports(s)
    <3>1. UNCHANGED hidden /\ pass'[s].pc \in {"received", "recorded", "files"}
      BY <2>4, ReceivesBase, RecordsBase, AddsBase DEF Imports, docVars
    <3> QED
      BY <2>2, <3>1 DEF Replacing
  <2>5. ASSUME NEW f \in Files, _restore_document(s, f)
        PROVE  TargetsInv'
    <3>1. /\ hidden' = [hidden EXCEPT ![RemovedDoc(f)] = @ /\ Erased(RemovedDoc(f))]
          /\ pass'[s].pc = "restored"
      BY <2>5, RestoresBase
    <3> QED
      BY <2>2, <3>1 DEF Replacing, DriveBase, DriveTypes
  <2>6. CASE _restore_version(s) \/ _retire_marks(s) \/ _reconcile_file(s) \/ _reconcile_settles(s)
    <3>1. UNCHANGED hidden /\ pass'[s].pc \in {"record", "targets", "retire", "reconcile"}
      BY <2>6, RestoresVersionBase, RetireMarksBase, SettlesBase, CurrentBase DEF docVars
    <3> QED
      BY <2>2, <3>1 DEF Replacing
  <2>7. ASSUME NEW f \in Files, _retire_vanished(s, f)
        PROVE  TargetsInv'
    <3>1. /\ UNCHANGED <<life, versions>> /\ rows[f].state = "IMPORTED"
          /\ pass[s].pc \in {"retire", "hide"}
          /\ pass[s].pc # "retire" => f = pass[s].file
          /\ pass'[s].pc \in {"retired", "hide"} /\ pass'[s].file = f
      BY <2>7, RetiresBase DEF lifeVars
    <3>2. PICK d \in Docs :
             /\ hidden' = [hidden EXCEPT ![d] = TRUE]
             /\ pass[s].pc = "hide" => d \in pass[s].left /\ pass'[s].left = pass[s].left \ {d}
             /\ pass[s].pc = "retire" => d \in Visibles(f) /\ pass'[s].left = Visibles(f) \ {d}
      BY <2>7, RetiresBase
    <3>3. \A e \in pass'[s].left \cup {d} : life[e] # "absent" /\ versions[e].file \in {None, f}
      <4>1. CASE pass[s].pc = "hide"
        BY <3>1, <3>2, <4>1 DEF TargetsInv
      <4>2. CASE pass[s].pc = "retire"
        <5>1. \A e \in Visibles(f) : life[e] # "absent" /\ versions[e].file \in {None, f}
          BY <3>1, VisiblesOwned
        <5> QED
          BY <3>2, <4>2, <5>1
      <4> QED
        BY <3>1, <4>1, <4>2
    <3>4. \A e \in Docs : hidden'[e] => hidden[e] \/ life[e] # "absent"
      BY <3>2, <3>3 DEF DriveBase, DriveTypes
    <3> QED
      BY <2>1, <3>1, <3>3, <3>4 DEF Replacing
  <2>8. CASE _reconcile_replaces(s)
    <3>1. PICK f \in Files :
             /\ Versions(f) # {} /\ Min(Older(f)) \in Older(f)
             /\ pass'[s].file = f /\ pass'[s].doc = Min(Older(f))
             /\ pass'[s].left = Older(f) \ {Min(Older(f))}
             /\ versions' = SettledIn(f)
      BY <2>8, ReplacesBase
    <3>2. UNCHANGED hidden /\ pass'[s].pc = "superseded"
      BY <2>8, ReplacesBase
    <3>3. \A d \in Docs : SameVersion(versions'[d], versions[d])
      BY <3>1, Settles
    <3>4. Newest(f)' = Newest(f) /\ Newest(pass[s].file)' = Newest(f)'
      BY <3>1, <3>3, SameFiles
    <3>5. Newest(f) \notin Older(f) /\ \A d \in Older(f) : d \in Docs /\ versions[d].file = f
      BY DEF Older, Versions
    <3>6. versions'[pass'[s].doc].file = f
      BY <3>1, <3>3, <3>5 DEF SameVersion
    <3> QED
      BY <2>1, <3>1, <3>2, <3>4, <3>5, <3>6
  <2>9. CASE _supersede(s)
    <3>0. pass[s].file \in Files /\ pass[s].left \subseteq Docs
      BY <1>0, <2>9, SupersedesBase DEF PassStates
    <3>1. PICK f \in Files, left \in SUBSET Docs : f = pass[s].file /\ left = pass[s].left
      BY <3>0
    <3>2. /\ UNCHANGED hidden /\ pass[s].pc = "supersede" /\ pass'[s].pc = "superseded"
          /\ Min(left) \in left /\ pass'[s].file = f /\ pass'[s].doc = Min(left)
          /\ pass'[s].left = left \ {Min(left)}
          /\ \A d \in Docs : SameVersion(versions'[d], versions[d])
      BY <2>9, <3>1, SupersedesBase
    <3>3. Newest(f) \notin left /\ left \subseteq Versions(f)
      BY <1>0, <3>1, <3>2 DEF TargetsInv, Tracks, Replacing
    <3>4. Newest(f)' = Newest(f) /\ Newest(pass[s].file)' = Newest(f)'
      BY <3>2, SameFiles
    <3>5. versions'[pass'[s].doc].file = f
      BY <3>2, <3>3 DEF SameVersion, Versions
    <3> QED
      BY <2>1, <3>2, <3>3, <3>4, <3>5
  <2>10. CASE _supersede_hides(s)
    <3>0. PICK f \in Files, d \in Docs : f = pass[s].file /\ d = pass[s].doc
      BY <2>10, HidesBase
    <3>1. /\ UNCHANGED versions /\ hidden' = [hidden EXCEPT ![d] = TRUE]
          /\ pass[s].pc = "superseded" /\ pass'[s].pc \in {"settle", "supersede"}
          /\ pass'[s].file = f /\ pass'[s].left = pass[s].left
      BY <2>10, <3>0, HidesBase
    <3>2. versions[d].file = f /\ Newest(f) \notin pass[s].left
      BY <3>0, <3>1 DEF TargetsInv, Replacing
    <3>3. life[d] # "absent"
      BY <3>2, DriveAssumption DEF DriveBase, InOrder
    <3>4. \A e \in Docs : hidden'[e] => hidden[e] \/ life[e] # "absent"
      BY <3>1, <3>3 DEF DriveBase, DriveTypes
    <3>5. Newest(f)' = Newest(f) /\ Newest(pass[s].file)' = Newest(f)'
      BY <3>1 DEF Newest, Versions
    <3> QED
      BY <2>1, <3>1, <3>2, <3>4, <3>5
  <2> QED
    BY <1>3, <2>3, <2>4, <2>5, <2>6, <2>7, <2>8, <2>9, <2>10
    DEF PassKinds, Restores, Retires, SettlesAll
<1> QED
  BY <1>2, <1>3, Kinds

\* Hidden, and might come back.
Away(d) == hidden[d] /\ ~Erased(d)

\* What room is made for.
TakenOver(d) == Visible(d) \/ Erased(d)

\* While no pass was cut short: nothing that is waiting or CURRENT is hidden, unless it is erased,
\* its file is being retired or it is making room; and when it makes room, the newest version is
\* visible or erased.
BlankInv ==
    crashes = 0 =>
        /\ \A d \in Docs : versions[d].state \in {"CURRENT", "PENDING"} /\ Away(d) =>
              \E s \in Syncers :
                  /\ pass[s].file = versions[d].file
                  /\ \/ pass[s].pc \in OnGone
                     \/ pass[s].pc \in Replacing /\ d # Newest(pass[s].file)
        /\ \A s \in Syncers :
              /\ pass[s].pc \in {"received", "recorded", "restored"} => ~Away(pass[s].doc)
              /\ pass[s].pc \in Replacing => TakenOver(Newest(pass[s].file))

\* It holds on.
LEMMA BlankStep ==
    ASSUME DriveBase, ErasedInv, Owned, RetireInv, TargetsInv, BlankInv, [DriveNext]_driveVars
    PROVE  BlankInv'
<1>0. /\ \A t \in Syncers : pass[t] \in PassStates /\ PassFits(pass[t]) /\ Tracks(pass[t])
      /\ crashes \in Nat /\ life \in [Docs -> Lives] /\ hidden \in [Docs -> BOOLEAN]
  BY DEF DriveBase, DriveTypes
<1>e. \A d \in Docs : Erased(d) => life'[d] # "absent" /\ content'[d] = None
  BY ErasedStep DEF Erased
<1>1. CASE Outside
  <2>1. UNCHANGED <<rows, versions, pass, crashes>>
    BY <1>1, OutsideMoves DEF DriveBase
  <2>2. /\ \A d \in Docs : Away(d)' => Away(d)
        /\ \A d \in Docs : TakenOver(d) => TakenOver(d)'
    <3>1. /\ \A d \in Docs : hidden'[d] => hidden[d] \/ Erased(d)'
          /\ \A d \in Docs : life[d] = "live" => life'[d] = "live"
      BY <1>1, OutsideDoes
    <3> QED
      BY <1>e, <3>1 DEF Away, TakenOver, Visible, Erased
  <2>3. \A f : Newest(f)' = Newest(f)
    BY <2>1 DEF Newest, Versions
  <2>4. ASSUME NEW s \in Syncers, pass[s].pc \in {"received", "recorded", "restored"}
        PROVE  pass[s].doc \in Docs
    BY <1>0, <2>4 DEF PassStates, PassFits
  <2>5. ASSUME NEW s \in Syncers, pass[s].pc \in Replacing PROVE Newest(pass[s].file) \in Docs
    <3>1. PICK f \in Files : f = pass[s].file /\ Versions(f) # {}
      BY <1>0, <2>5 DEF PassStates, PassFits, Tracks, Between, Replacing
    <3> QED
      BY <3>1, NewestVersion
  <2>6. ASSUME crashes = 0, NEW s \in Syncers
        PROVE  /\ pass[s].pc \in {"received", "recorded", "restored"} => ~Away(pass[s].doc)'
               /\ pass[s].pc \in Replacing => TakenOver(Newest(pass[s].file))'
    <3>1. pass[s].pc \in {"received", "recorded", "restored"} => ~Away(pass[s].doc)'
      <4>1. \A d \in Docs : ~Away(d) => ~Away(d)'
        BY <2>2
      <4>2. ASSUME NEW d \in Docs, d = pass[s].doc, ~Away(d)
            PROVE  ~Away(pass[s].doc)'
        BY <2>1, <4>1, <4>2 DEF Away, Erased
      <4> QED
        BY <2>4, <2>6, <4>2 DEF BlankInv
    <3>2. ASSUME pass[s].pc \in Replacing PROVE TakenOver(Newest(pass[s].file))'
      <4>1. PICK f \in Files : f = pass[s].file
        BY <1>0, <3>2 DEF PassStates, PassFits, Between, Replacing
      <4>2. Newest(pass[s].file)' = Newest(f)
        BY <2>1, <2>3, <4>1
      <4>3. TakenOver(Newest(f)) /\ Newest(f) \in Docs
        BY <2>5, <2>6, <3>2, <4>1 DEF BlankInv
      <4>4. PICK n \in Docs : n = Newest(f)
        BY <4>3
      <4>5. TakenOver(n)'
        BY <2>2, <4>3, <4>4
      <4> QED
        BY <4>2, <4>4, <4>5 DEF TakenOver, Visible, Erased
    <3> QED
      BY <3>1, <3>2
  <2>7. ASSUME crashes = 0, NEW d \in Docs, versions[d].state \in {"CURRENT", "PENDING"},
               Away(d)'
        PROVE  \E s \in Syncers :
                  /\ pass[s].file = versions[d].file
                  /\ \/ pass[s].pc \in OnGone
                     \/ pass[s].pc \in Replacing /\ d # Newest(pass[s].file)'
    <3>1. PICK s \in Syncers : /\ pass[s].file = versions[d].file
                               /\ \/ pass[s].pc \in OnGone
                                  \/ pass[s].pc \in Replacing /\ d # Newest(pass[s].file)
      BY <2>2, <2>7 DEF BlankInv
    <3>2. Newest(pass[s].file)' = Newest(pass[s].file)
      BY <2>1 DEF Newest, Versions
    <3> QED
      BY <3>1, <3>2
  <2> QED
    BY <2>1, <2>6, <2>7 DEF BlankInv
<1>2. ASSUME NEW s \in Syncers, PassKinds(s), crashes' = 0
      PROVE  BlankInv'
  <2>0. \A t \in Syncers \ {s} : pass'[t] = pass[t] /\ pass[t].pc = "idle"
    BY <1>2, OthersIdle
  <2>1. ASSUME \A d \in Docs : versions'[d].state \in {"CURRENT", "PENDING"} /\ hidden'[d]
                                    /\ ~Erased(d) =>
                   /\ pass'[s].file = versions'[d].file
                   /\ \/ pass'[s].pc \in OnGone
                      \/ pass'[s].pc \in Replacing /\ d # Newest(pass[s].file)',
               pass'[s].pc \in {"received", "recorded", "restored"} =>
                   \E d \in Docs : d = pass'[s].doc /\ (hidden'[d] => Erased(d)),
               pass'[s].pc \in Replacing => TakenOver(Newest(pass[s].file))'
        PROVE  BlankInv'
    <3>1. \A d \in Docs : versions'[d].state \in {"CURRENT", "PENDING"} /\ Away(d)' =>
                   /\ pass'[s].file = versions'[d].file
                   /\ \/ pass'[s].pc \in OnGone
                      \/ pass'[s].pc \in Replacing /\ d # Newest(pass[s].file)'
      BY <1>e, <2>1 DEF Away, Erased
    <3>2. pass'[s].pc \in {"received", "recorded", "restored"} => ~Away(pass[s].doc)'
      <4>1. ASSUME NEW d \in Docs, d = pass'[s].doc, hidden'[d] => Erased(d)
            PROVE  ~Away(pass[s].doc)'
        <5>1. ~hidden'[d] \/ Erased(d)'
          BY <1>e, <4>1 DEF Erased
        <5> QED
          BY <4>1, <5>1 DEF Away, Erased
      <4> QED
        BY <2>1, <4>1
    <3> QED
      BY <2>0, <2>1, <3>1, <3>2 DEF BlankInv, Replacing
  <2>2. ASSUME crashes = 0, NEW d \in Docs, versions[d].state \in {"CURRENT", "PENDING"},
               hidden[d], ~Erased(d)
        PROVE  /\ pass[s].file = versions[d].file
               /\ pass[s].pc \in OnGone \cup Replacing
               /\ pass[s].pc \in Replacing => d # Newest(pass[s].file)
    BY <2>0, <2>2 DEF BlankInv, Away, OnGone, Replacing
  <2>3. ASSUME crashes = 0, pass[s].pc \notin OnGone \cup Replacing,
               pass'[s].pc \notin {"received", "recorded", "restored"} \cup Replacing,
               \A d \in Docs : hidden'[d] => hidden[d],
               \A d \in Docs : versions'[d].state \in {"CURRENT", "PENDING"} =>
                                   \/ versions[d].state \in {"CURRENT", "PENDING"}
                                   \/ ~hidden'[d] \/ Erased(d)
        PROVE  BlankInv'
    BY <2>1, <2>2, <2>3
  <2>4. CASE Turns(s)
    <3>1. /\ UNCHANGED <<hidden, versions>> /\ pass'[s].pc \in Between
          /\ crashes = 0 /\ pass[s].pc \in Between
      BY <1>0, <1>2, <2>4, TurnsBase, TurnsBetween
    <3> QED
      BY <2>3, <3>1 DEF Between, OnGone, Replacing
  <2>5. CASE \E f \in Files : FileEnds(s, f) \/ _reclassify(s, f)
    <3>1. /\ UNCHANGED <<hidden, versions, crashes>>
          /\ pass'[s].pc \in {"files", "record", "reclassify"}
          /\ pass[s].pc \in {"files"} \cup OnListed
      BY <2>5, FileEndsBase, ReclassifiesBase DEF OnListed, counts
    <3> QED
      BY <1>2, <2>3, <3>1 DEF OnListed, OnGone, Replacing
  <2>6. ASSUME NEW f \in Files, sync_receives(s, f)
        PROVE  BlankInv'
    <3>1. /\ UNCHANGED <<hidden, versions, crashes>>
          /\ pass[s].pc = "files" /\ pass'[s].pc = "received"
          /\ life[pass'[s].doc] = "absent" /\ pass'[s].doc \in Docs
      BY <2>6, ReceivesBase DEF counts
    <3>2. \E d \in Docs : d = pass'[s].doc /\ (hidden'[d] => Erased(d))
      BY <3>1 DEF TargetsInv
    <3> QED
      BY <1>2, <2>1, <2>2, <3>1, <3>2 DEF OnGone, Replacing
  <2>7. CASE sync_records(s)
    <3>1. /\ UNCHANGED <<hidden, versions, crashes>>
          /\ pass[s].pc = "received" /\ pass'[s].pc = "recorded" /\ pass'[s].doc = pass[s].doc
      BY <2>7, RecordsBase DEF docVars, counts
    <3>2. \E d \in Docs : d = pass'[s].doc /\ (hidden'[d] => Erased(d))
      <4>1. pass[s].doc \in Docs
        BY <2>7, RecordsBase
      <4> QED
        BY <1>2, <3>1, <4>1 DEF BlankInv, Away
    <3> QED
      BY <1>2, <2>1, <2>2, <3>1, <3>2 DEF OnGone, Replacing
  <2>8. CASE sync_adds_version(s)
    <3>1. /\ UNCHANGED <<hidden, crashes>> /\ pass[s].pc = "recorded" /\ pass'[s].pc = "files"
          /\ \A d \in Docs \ {pass[s].doc} : versions'[d] = versions[d]
      BY <2>8, AddsBase DEF docVars, counts
    <3>2. hidden'[pass[s].doc] => Erased(pass[s].doc)
      BY <1>2, <3>1 DEF BlankInv, Away
    <3> QED
      BY <1>2, <2>3, <3>1, <3>2 DEF OnGone, Replacing
  <2>9. ASSUME NEW f \in Files, _restore_document(s, f)
        PROVE  BlankInv'
    <3>0. PICK d \in Docs : d = RemovedDoc(f)
      BY <2>9, RestoresBase
    <3>1. /\ UNCHANGED <<versions, crashes>> /\ hidden' = [hidden EXCEPT ![d] = @ /\ Erased(d)]
          /\ pass[s].pc = "files" /\ pass'[s].pc = "restored" /\ pass'[s].doc = d
      BY <2>9, <3>0, RestoresBase
    <3>2. (hidden'[d] => Erased(d)) /\ \A e \in Docs : hidden'[e] => hidden[e]
      BY <1>0, <3>1
    <3> QED
      BY <1>2, <2>1, <2>2, <3>1, <3>2 DEF OnGone, Replacing
  <2>10. CASE _restore_version(s)
    <3>0. PICK d \in Docs : d = pass[s].doc
      BY <2>10, RestoresVersionBase
    <3>1. /\ UNCHANGED <<hidden, crashes>>
          /\ pass[s].pc = "restored" /\ pass'[s].pc \in {"record", "targets"}
          /\ \A e \in Docs \ {d} : versions'[e] = versions[e]
      BY <2>10, <3>0, RestoresVersionBase DEF docVars, counts
    <3>2. hidden'[d] => Erased(d)
      BY <1>2, <3>0, <3>1 DEF BlankInv, Away
    <3> QED
      BY <1>2, <2>3, <3>1, <3>2 DEF OnGone, Replacing
  <2>11. ASSUME NEW f \in Files, _retire_vanished(s, f)
         PROVE  BlankInv'
    <3>1. /\ UNCHANGED <<versions, crashes>> /\ rows[f].state = "IMPORTED"
          /\ pass[s].pc \in {"retire", "hide"}
          /\ pass[s].pc # "retire" => f = pass[s].file
          /\ pass'[s].pc \in OnGone /\ pass'[s].file = f
      BY <2>11, RetiresBase DEF counts, OnGone
    <3>2. PICK d \in Docs :
             /\ hidden' = [hidden EXCEPT ![d] = TRUE]
             /\ pass[s].pc = "hide" => d \in pass[s].left
             /\ pass[s].pc = "retire" => d \in Visibles(f)
      BY <2>11, RetiresBase
    <3>3. versions[d].file \in {None, f}
      <4>1. CASE pass[s].pc = "hide"
        BY <3>1, <3>2, <4>1 DEF TargetsInv
      <4>2. CASE pass[s].pc = "retire"
        BY <3>1, <3>2, <4>2, VisiblesOwned
      <4> QED
        BY <3>1, <4>1, <4>2
    <3>4. \A e \in Docs : hidden'[e] => hidden[e] \/ e = d
      BY <1>0, <3>2
    <3>5. ASSUME NEW e \in Docs, versions[e].state \in {"CURRENT", "PENDING"}, hidden'[e],
                 ~Erased(e)
          PROVE  versions[e].file = f
      <4>1. CASE e = d
        BY <3>3, <3>5, <4>1 DEF DriveBase, InOrder
      <4>2. CASE hidden[e]
        BY <1>2, <2>2, <3>1, <3>5, <4>2 DEF OnGone, Replacing
      <4> QED
        BY <3>4, <3>5, <4>1, <4>2
    <3> QED
      BY <2>1, <3>1, <3>5 DEF OnGone, Replacing
  <2>12. CASE _retire_marks(s)
    <3>0. PICK f \in Files : f = pass[s].file
      BY <2>12, RetireMarksBase
    <3>1. /\ UNCHANGED <<hidden, crashes>>
          /\ pass[s].pc = "retired" /\ pass'[s].pc \in {"retire", "reconcile"}
          /\ \A d \in Docs : versions'[d].state = IF d \in InState(f, {"CURRENT", "PENDING"})
                                                  THEN "REMOVED" ELSE versions[d].state
      BY <2>12, <3>0, RetireMarksBase DEF docVars, counts
    <3>2. ASSUME NEW d \in Docs, versions'[d].state \in {"CURRENT", "PENDING"}, hidden[d],
                 ~Erased(d)
          PROVE  FALSE
      <4>1. d \notin InState(f, {"CURRENT", "PENDING"})
            /\ versions[d].state \in {"CURRENT", "PENDING"}
        BY <3>1, <3>2
      <4>2. versions[d].file = f
        BY <1>2, <2>2, <3>0, <3>1, <3>2, <4>1
      <4> QED
        BY <4>1, <4>2 DEF InState, Versions
    <3> QED
      BY <2>1, <3>1, <3>2 DEF OnGone, Replacing
  <2>13. CASE _reconcile_file(s)
    <3>1. PICK f \in Files :
             /\ Versions(f) # {}
             /\ \A d \in Docs : versions'[d].state = IF TakesOver(f) /\ d = Newest(f)
                                                     THEN "CURRENT" ELSE SettledIn(f)[d].state
      BY <2>13, SettlesBase
    <3>2. /\ UNCHANGED <<hidden, crashes>>
          /\ pass[s].pc = "reconcile" /\ pass'[s].pc = "reconcile"
      BY <2>13, SettlesBase DEF docVars, counts
    <3>3. TakesOver(f) => versions[Newest(f)].state = "PENDING"
      <4>1. Newest(f) \in Versions(f) /\ Newest(f) \in Docs
        BY <3>1, NewestVersion DEF Versions
      <4> QED
        BY <4>1, Settles DEF TakesOver
    <3>4. \A d \in Docs : versions'[d].state \in {"CURRENT", "PENDING"} =>
                             versions[d].state \in {"CURRENT", "PENDING"}
      BY <3>1, <3>3, Settles
    <3> QED
      BY <1>2, <2>3, <3>2, <3>4 DEF OnGone, Replacing
  <2>14. CASE _reconcile_replaces(s)
    <3>1. PICK f \in Files :
             /\ Versions(f) # {} /\ TakesOver(f)
             /\ Min(Older(f)) \in Older(f) /\ Min(Older(f)) \in Docs
             /\ life' = [life EXCEPT ![Min(Older(f))] =
                               IF Erased(Min(Older(f))) THEN @ ELSE "superseded"]
             /\ pass'[s].file = f /\ versions' = SettledIn(f)
      BY <2>14, ReplacesBase
    <3>2. /\ UNCHANGED <<hidden, crashes>>
          /\ pass[s].pc = "reconcile" /\ pass'[s].pc = "superseded"
      BY <2>14, ReplacesBase DEF counts
    <3>3. \A d \in Docs : /\ SameVersion(versions'[d], versions[d])
                          /\ versions'[d].state = "PENDING" => versions[d].state = "PENDING"
                          /\ versions'[d].state = "CURRENT" => versions[d].state = "CURRENT"
      BY <3>1, Settles
    <3>4. Newest(f)' = Newest(f) /\ Newest(pass[s].file)' = Newest(f)'
      BY <3>1, <3>3, SameFiles
    <3>5. \A d \in Docs : versions'[d].state \in {"CURRENT", "PENDING"} =>
                             ~hidden[d] \/ Erased(d)
      BY <1>2, <2>2, <3>2, <3>3 DEF OnGone, Replacing
    <3>6. Newest(f) \in Versions(f) /\ Newest(f) \in Docs
      BY <3>1, NewestVersion DEF Versions
    <3>7. versions'[Newest(f)].state = "PENDING" /\ life[Newest(f)] = "live"
      BY <3>1, <3>6, Settles DEF TakesOver
    <3>8. Newest(f) # Min(Older(f))
      BY <3>1 DEF Older
    <3>9. TakenOver(Newest(pass[s].file))'
      <4>1. PICK n \in Docs : n = Newest(f)
        BY <3>6
      <4>2. life'[n] = "live" /\ (~hidden'[n] \/ Erased(n)')
        <5>1. life'[n] = "live"
          BY <1>0, <3>1, <3>2, <3>7, <3>8, <4>1
        <5>2. ~hidden[n] \/ Erased(n)
          BY <3>5, <3>7, <4>1
        <5>3. Erased(n) => Erased(n)'
          BY <1>e DEF Erased
        <5> QED
          BY <3>2, <5>1, <5>2, <5>3
      <4>3. n = Newest(pass[s].file)'
        BY <3>1, <3>4, <4>1
      <4> QED
        BY <4>2, <4>3 DEF TakenOver, Visible, Erased
    <3> QED
      BY <2>1, <3>2, <3>5, <3>9
  <2>15. CASE _supersede(s)
    <3>0. pass[s].file \in Files /\ pass[s].left \subseteq Docs
      BY <1>0, <2>15, SupersedesBase DEF PassStates
    <3>1. PICK f \in Files, left \in SUBSET Docs : f = pass[s].file /\ left = pass[s].left
      BY <3>0
    <3>2. /\ UNCHANGED <<hidden, crashes>>
          /\ pass[s].pc = "supersede" /\ pass'[s].pc = "superseded" /\ pass'[s].file = f
          /\ Min(left) \in left /\ Min(left) \in Docs
          /\ life' = [life EXCEPT ![Min(left)] =
                            IF Erased(Min(left)) THEN @ ELSE "superseded"]
          /\ \A d \in Docs : /\ SameVersion(versions'[d], versions[d])
                             /\ versions'[d].state = IF d \in StillOlder(f) \ left
                                                     THEN "SUPERSEDED" ELSE versions[d].state
      BY <2>15, <3>1, SupersedesBase DEF counts
    <3>3. Newest(f)' = Newest(f) /\ Newest(pass[s].file)' = Newest(f)'
      BY <3>2, SameFiles
    <3>4. /\ Newest(f) \notin left /\ TakenOver(Newest(f))
          /\ Versions(f) # {}
      BY <1>0, <1>2, <3>1, <3>2 DEF TargetsInv, BlankInv, Tracks, PassFits, Replacing
    <3>5. Newest(f) \in Docs
      BY <3>4, NewestVersion
    <3>6. TakenOver(Newest(pass[s].file))'
      <4>1. PICK n \in Docs : n = Newest(f)
        BY <3>5
      <4>2. Visible(n)' \/ Erased(n)'
        <5>1. Erased(n) => Erased(n)'
          BY <1>e DEF Erased
        <5>2. Visible(n) => Visible(n)'
          BY <1>0, <3>2, <3>4, <4>1 DEF Visible
        <5> QED
          BY <3>4, <4>1, <5>1, <5>2 DEF TakenOver
      <4>3. n = Newest(pass[s].file)'
        BY <3>3, <4>1
      <4> QED
        BY <4>2, <4>3 DEF TakenOver, Visible, Erased
    <3>7. ASSUME NEW d \in Docs, versions'[d].state \in {"CURRENT", "PENDING"}, hidden[d],
                 ~Erased(d)
          PROVE  f = versions'[d].file /\ d # Newest(f)
      <4>1. versions[d].state \in {"CURRENT", "PENDING"} /\ versions'[d].file = versions[d].file
        BY <3>2, <3>7 DEF SameVersion
      <4> QED
        BY <1>2, <2>2, <3>1, <3>2, <3>7, <4>1 DEF Replacing
    <3> QED
      BY <2>1, <3>2, <3>3, <3>6, <3>7 DEF Replacing
  <2>16. CASE _supersede_hides(s)
    <3>0. PICK f \in Files, e \in Docs : f = pass[s].file /\ e = pass[s].doc
      BY <2>16, HidesBase
    <3>1. /\ UNCHANGED <<life, versions, crashes>> /\ hidden' = [hidden EXCEPT ![e] = TRUE]
          /\ pass[s].pc = "superseded" /\ pass'[s].pc \in {"settle", "supersede"}
          /\ pass'[s].file = f
      BY <2>16, <3>0, HidesBase DEF lifeVars, counts
    <3>2. /\ versions[e].file = f /\ e # Newest(f) /\ TakenOver(Newest(f))
      BY <1>2, <3>0, <3>1 DEF TargetsInv, BlankInv, Replacing
    <3>3. Newest(f)' = Newest(f) /\ Newest(pass[s].file)' = Newest(f)'
      BY <3>1 DEF Newest, Versions
    <3>4. Newest(f) \in Docs
      <4>1. Versions(f) # {}
        BY <1>0, <3>0, <3>1 DEF Tracks, PassFits, Replacing
      <4> QED
        BY <4>1, NewestVersion
    <3>5. TakenOver(Newest(pass[s].file))'
      <4>1. PICK n \in Docs : n = Newest(f)
        BY <3>4
      <4>2. Visible(n)' \/ Erased(n)'
        <5>1. Erased(n) => Erased(n)'
          BY <1>e DEF Erased
        <5>2. Visible(n) => Visible(n)'
          BY <1>0, <3>1, <3>2, <4>1 DEF Visible
        <5> QED
          BY <3>2, <4>1, <5>1, <5>2 DEF TakenOver
      <4>3. n = Newest(pass[s].file)'
        BY <3>3, <4>1
      <4> QED
        BY <4>2, <4>3 DEF TakenOver, Visible, Erased
    <3>6. ASSUME NEW d \in Docs, versions[d].state \in {"CURRENT", "PENDING"}, hidden'[d],
                 ~Erased(d)
          PROVE  f = versions[d].file /\ d # Newest(f)
      <4>1. CASE d = e
        BY <3>2, <4>1
      <4>2. CASE hidden[d]
        BY <1>2, <2>2, <3>0, <3>1, <3>6, <4>2 DEF Replacing
      <4> QED
        BY <1>0, <3>1, <3>6, <4>1, <4>2
    <3> QED
      BY <2>1, <3>1, <3>3, <3>5, <3>6 DEF Replacing
  <2>17. CASE _reconcile_settles(s)
    <3>0. PICK f \in Files : f = pass[s].file /\ Versions(f) # {}
      BY <2>17, CurrentBase
    <3>1. /\ UNCHANGED <<hidden, crashes>> /\ pass[s].pc = "settle" /\ pass'[s].pc = "reconcile"
          /\ \A d \in Docs : versions'[d].state = IF d = Newest(f) THEN "CURRENT"
                                                  ELSE IF d \in StillOlder(f) THEN "SUPERSEDED"
                                                  ELSE versions[d].state
      BY <2>17, <3>0, CurrentBase DEF docVars, counts
    <3>2. ASSUME NEW d \in Docs, versions'[d].state \in {"CURRENT", "PENDING"}, hidden[d],
                 ~Erased(d)
          PROVE  FALSE
      <4>1. TakenOver(Newest(f))
        BY <1>2, <3>0, <3>1 DEF BlankInv, Replacing
      <4>2. d # Newest(f)
        BY <3>2, <4>1 DEF TakenOver, Visible
      <4>3. d \notin StillOlder(f) /\ versions[d].state \in {"CURRENT", "PENDING"}
        BY <3>1, <3>2, <4>2
      <4>4. versions[d].file = f
        BY <1>2, <2>2, <3>0, <3>1, <3>2, <4>3
      <4> QED
        BY <4>2, <4>3, <4>4 DEF StillOlder, InState, Versions
    <3> QED
      BY <2>1, <3>1, <3>2 DEF OnGone, Replacing
  <2> QED
    BY <1>2, <2>4, <2>5, <2>6, <2>7, <2>8, <2>9, <2>10, <2>11, <2>12, <2>13, <2>14, <2>15, <2>16,
       <2>17 DEF PassKinds, Imports, Restores, Retires, SettlesAll
<1> QED
  BY <1>1, <1>2, Kinds DEF BlankInv

\* A version is only taken away when it is erased, when its file is not in the listing, or when
\* the newest version of the file is visible or erased.
LEMMA BlankNever ==
    ASSUME DriveBase, Owned, TargetsInv, BlankInv, [DriveNext]_driveVars, NEW f \in Files,
           NEW d \in Versions(f), crashes = 0, ~hidden[d], hidden'[d]
    PROVE  \/ Erased(d)'
           \/ \E s \in Syncers : pass[s].pc \in {"retire", "hide"} /\ Item(s, f) = None
           \/ \E e \in Versions(f) \ {d} : Visible(e)
           \/ Erased(Newest(f))
<1> SUFFICES ASSUME ~Erased(d)'
             PROVE  \/ \E s \in Syncers : pass[s].pc \in {"retire", "hide"} /\ Item(s, f) = None
                    \/ \E e \in Versions(f) \ {d} : Visible(e)
                    \/ Erased(Newest(f))
  OBVIOUS
<1>0. /\ d \in Docs /\ versions[d].file = f /\ hidden \in [Docs -> BOOLEAN] /\ f # None
      /\ \A t \in Syncers : pass[t] \in PassStates /\ PassFits(pass[t]) /\ Tracks(pass[t])
  BY DriveAssumption DEF Versions, DriveBase, DriveTypes
<1>1. ~Outside
  BY <1>0, OutsideDoes
<1>2. PICK s \in Syncers : PassKinds(s)
  BY <1>1, Kinds
<1>3. (\E g \in Files : _retire_vanished(s, g)) \/ _supersede_hides(s)
  <2>1. ~(Turns(s) \/ \E g \in Files : FileEnds(s, g) \/ _reclassify(s, g))
    <3>1. UNCHANGED hidden => FALSE
      OBVIOUS
    <3> QED
      BY <3>1, TurnsBase, FileEndsBase, ReclassifiesBase
  <2>2. ~Imports(s)
    BY ReceivesBase, RecordsBase, AddsBase DEF Imports, docVars
  <2>3. ~Restores(s)
    <3>1. ~_restore_version(s)
      BY RestoresVersionBase DEF docVars
    <3>2. ASSUME NEW g \in Files, _restore_document(s, g) PROVE FALSE
      BY <1>0, <3>2, RestoresBase
    <3> QED
      BY <3>1, <3>2 DEF Restores
  <2>4. ~(_retire_marks(s) \/ _reconcile_file(s) \/ _reconcile_settles(s))
    BY RetireMarksBase, SettlesBase, CurrentBase DEF docVars
  <2>5. ~(_reconcile_replaces(s) \/ _supersede(s))
    BY ReplacesBase, SupersedesBase
  <2> QED
    BY <1>2, <2>1, <2>2, <2>3, <2>4, <2>5 DEF PassKinds, Retires, SettlesAll
<1>4. ASSUME NEW g \in Files, _retire_vanished(s, g)
      PROVE  pass[s].pc \in {"retire", "hide"} /\ Item(s, f) = None
  <2>1. /\ rows[g].state = "IMPORTED" /\ Item(s, g) = None
        /\ pass[s].pc \in {"retire", "hide"}
        /\ pass[s].pc # "retire" => g = pass[s].file
    BY <1>4, RetiresBase
  <2>2. PICK e \in Docs : /\ hidden' = [hidden EXCEPT ![e] = TRUE]
                          /\ pass[s].pc = "hide" => e \in pass[s].left
                          /\ pass[s].pc = "retire" => e \in Visibles(g)
    BY <1>4, RetiresBase
  <2>3. d = e
    BY <1>0, <2>2
  <2>4. versions[d].file \in {None, g}
    <3>1. CASE pass[s].pc = "hide"
      BY <2>1, <2>2, <2>3, <3>1 DEF TargetsInv
    <3>2. CASE pass[s].pc = "retire"
      BY <2>1, <2>2, <2>3, <3>2, VisiblesOwned
    <3> QED
      BY <2>1, <3>1, <3>2
  <2> QED
    BY <1>0, <2>1, <2>4
<1>5. CASE _supersede_hides(s)
  <2>1. /\ hidden' = [hidden EXCEPT ![pass[s].doc] = TRUE] /\ pass[s].pc = "superseded"
        /\ pass[s].file \in Files
    BY <1>5, HidesBase
  <2>2. pass[s].doc = d
    BY <1>0, <2>1
  <2>3. pass[s].file = f /\ d # Newest(f) /\ (Visible(Newest(f)) \/ Erased(Newest(f)))
    BY <1>0, <2>1, <2>2 DEF TargetsInv, BlankInv, TakenOver, Replacing
  <2>4. Newest(f) \in Versions(f)
    BY NewestVersion DEF Versions
  <2> QED
    BY <2>3, <2>4
<1> QED
  BY <1>3, <1>4, <1>5

\* While no pass was cut short, the connector leaves no file with nothing visible, unless somebody
\* has erased its newest version.
THEOREM NeverBlankHolds == DriveSpec => NeverBlank
<1> DEFINE Hidden == \A f \in Files : \A d \in Versions(f) :
                         crashes = 0 /\ ~hidden[d] /\ hidden'[d] =>
                             \/ Erased(d)'
                             \/ \E s \in Syncers :
                                   pass[s].pc \in {"retire", "hide"} /\ Item(s, f) = None
                             \/ \E e \in Versions(f) \ {d} : Visible(e)
                             \/ Erased(Newest(f))
           Inv == DriveBase /\ ErasedInv /\ Owned /\ RetireInv /\ TargetsInv /\ BlankInv
<1>1. DriveInit => RetireInv /\ TargetsInv /\ BlankInv
  <2> SUFFICES ASSUME DriveInit PROVE RetireInv /\ TargetsInv /\ BlankInv
    OBVIOUS
  <2>1. /\ \A s \in Syncers : pass[s].pc = "idle"
        /\ \A d \in Docs : versions[d].state = "none" /\ ~hidden[d]
    BY DEF DriveInit, NoPass, NoVersion
  <2> QED
    BY <2>1 DEF RetireInv, TargetsInv, BlankInv, Away, OnGone, Replacing
<1>2. Inv /\ [DriveNext]_driveVars => (RetireInv /\ TargetsInv /\ BlankInv)'
  BY RetireStep, TargetsStep, BlankStep
<1>3. Inv /\ [DriveNext]_driveVars => [Hidden]_driveVars
  BY BlankNever
<1> QED
  BY <1>1, <1>2, <1>3, ReplacedHolds, ErasedHolds, PTL DEF DriveSpec, NeverBlank

(***************************************************************************)
(* At which tier.                                                          *)
(***************************************************************************)

\* What has gone smoothly up to now did so before.
LEMMA SmoothSoFar ==
    ASSUME DriveBase, [DriveNext]_driveVars, Smooth'
    PROVE  Smooth
<1>0. errors \in Nat /\ crashes \in Nat
  BY DEF DriveBase, DriveTypes
<1>1. CASE Outside
  BY <1>1, OutsideMoves DEF DriveBase, Smooth
<1>2. ASSUME NEW s \in Syncers, PassKinds(s)
      PROVE  errors' \in {errors, errors + 1} /\ crashes' \in {crashes, crashes + 1}
  <2>1. CASE Turns(s)
    BY <2>1, TurnsBase, TurnsBetween
  <2>2. CASE \E f \in Files : FileEnds(s, f)
    BY <2>2, FileEndsBase
  <2>3. CASE Imports(s)
    BY <2>3, ReceivesBase, RecordsBase, AddsBase DEF Imports, counts
  <2>4. CASE (\E f \in Files : _reclassify(s, f)) \/ Restores(s) \/ Retires(s) \/ SettlesAll(s)
    BY <2>4, Steady
  <2> QED
    BY <1>2, <2>1, <2>2, <2>3, <2>4 DEF PassKinds
<1>3. ASSUME NEW s \in Syncers, PassKinds(s)
      PROVE  Smooth
  BY <1>0, <1>2, <1>3 DEF Smooth
<1> QED
  BY <1>1, <1>3, Kinds

\* Steps of a pass over one file it has listed, and steps of a pass that is past its files.
LEMMA OnFiles ==
    ASSUME DriveBase, NEW s \in Syncers,
           (\E f \in Files : _reclassify(s, f)) \/ Restores(s)
    PROVE  /\ pass[s].pc \in {"files"} \cup OnListed /\ pass'[s].pc \in OnListed
           /\ pass'[s].todo = pass[s].todo
<1>1. CASE \E f \in Files : _reclassify(s, f)
  BY <1>1, ReclassifiesBase DEF OnListed, SamePass
<1>2. CASE Restores(s)
  BY <1>2, RestoresBase, RestoresVersionBase DEF Restores, OnListed, SamePass
<1> QED
  BY <1>1, <1>2

\* Those of a pass that is past its files.
LEMMA PastFiles ==
    ASSUME DriveBase, NEW s \in Syncers, Retires(s) \/ SettlesAll(s)
    PROVE  /\ pass[s].pc \in {"retire", "reconcile"} \cup OnGone \cup Replacing
           /\ pass'[s].pc \in {"retire", "reconcile"} \cup OnGone \cup Replacing
<1>1. CASE Retires(s)
  BY <1>1, RetiresBase, RetireMarksBase DEF Retires, OnGone
<1>2. CASE SettlesAll(s)
  BY <1>2, SettlesBase, ReplacesBase, SupersedesBase, HidesBase, CurrentBase
  DEF SettlesAll, Replacing
<1> QED
  BY <1>1, <1>2

\* What a full pass has been through is recorded at the tier it was listed with.
FoldersInv ==
    \A s \in Syncers :
        /\ pass[s].pc = "recorded" => rows[pass[s].file].tier = Item(s, pass[s].file).tier
        /\ pass[s].pc \notin {"idle", "PUBLIC", "RESTRICTED"} /\ ~pass[s].limited =>
              \A f \in Files :
                  \/ pass[s].pc \in {"files"} \cup OnListed /\ f \in pass[s].todo
                  \/ Item(s, f) # None /\ rows[f].state = "IMPORTED" =>
                        rows[f].tier = Item(s, f).tier

\* It stays so.
LEMMA FoldersStep ==
    ASSUME DriveBase, FoldersInv, [DriveNext]_driveVars
    PROVE  FoldersInv'
<1>0. \A t \in Syncers : pass[t] \in PassStates /\ PassFits(pass[t])
  BY DEF DriveBase, DriveTypes
<1>1. CASE Outside
  BY <1>1, OutsideMoves DEF DriveBase, FoldersInv, Item
<1>2. ASSUME NEW s \in Syncers, PassKinds(s)
      PROVE  FoldersInv'
  <2>0. \A t \in Syncers \ {s} : pass'[t] = pass[t] /\ pass[t].pc = "idle"
    BY <1>2, OthersIdle
  <2>1. ASSUME pass'[s].pc = "recorded" =>
                   rows'[pass'[s].file].tier = pass'[s].found[pass'[s].file].tier,
               pass'[s].pc \notin {"idle", "PUBLIC", "RESTRICTED"} /\ ~pass'[s].limited =>
                   \A f \in Files :
                       \/ pass'[s].pc \in {"files"} \cup OnListed /\ f \in pass'[s].todo
                       \/ pass'[s].found[f] # None /\ rows'[f].state = "IMPORTED" =>
                             rows'[f].tier = pass'[s].found[f].tier
        PROVE  FoldersInv'
    BY <2>0, <2>1 DEF FoldersInv, Item
  <2>2. CASE Turns(s)
    <3>1. UNCHANGED rows /\ pass'[s].pc # "recorded"
      BY <2>2, TurnsBase DEF Between
    <3> QED
      BY <2>1, <2>2, <3>1, TurnsWhere DEF FoldersInv, Item, OnListed
  <2>3. ASSUME NEW f \in Files, FileEnds(s, f)
        PROVE  FoldersInv'
    <3>1. /\ pass'[s].pc = "files" /\ pass[s].pc \in {"files"} \cup OnListed
          /\ pass'[s].todo = pass[s].todo \ {f}
          /\ pass'[s].found = pass[s].found /\ pass'[s].limited = pass[s].limited
          /\ \A g \in Files \ {f} : rows'[g] = rows[g]
          /\ rows'[f].tier = pass[s].found[f].tier
      BY <2>3, FileEndsBase DEF Item
    <3> QED
      BY <2>1, <3>1 DEF FoldersInv, Item, OnListed
  <2>4. ASSUME NEW f \in Files, sync_receives(s, f)
        PROVE  FoldersInv'
    <3>1. /\ pass'[s].pc = "received" /\ pass[s].pc = "files" /\ UNCHANGED rows
          /\ SamePass(pass'[s], pass[s])
      BY <2>4, ReceivesBase
    <3> QED
      BY <2>1, <3>1 DEF FoldersInv, Item, OnListed, SamePass
  <2>5. CASE sync_records(s)
    <3>0. PICK f \in Files : f = pass[s].file
      BY <2>5, RecordsBase
    <3>1. /\ pass'[s].pc = "recorded" /\ pass[s].pc = "received" /\ pass'[s].file = f
          /\ \A g \in Files \ {f} : rows'[g] = rows[g]
          /\ rows'[f].tier = pass[s].found[f].tier
          /\ SamePass(pass'[s], pass[s])
      BY <2>5, <3>0, RecordsBase DEF Item
    <3> QED
      BY <2>1, <3>1 DEF FoldersInv, Item, OnListed, SamePass
  <2>6. CASE sync_adds_version(s)
    <3>0. PICK f \in Files : f = pass[s].file
      BY <2>6, AddsBase
    <3>1. /\ pass'[s].pc = "files" /\ pass[s].pc = "recorded" /\ UNCHANGED rows
          /\ pass'[s].todo = pass[s].todo \ {f}
          /\ pass'[s].found = pass[s].found /\ pass'[s].limited = pass[s].limited
      BY <2>6, <3>0, AddsBase
    <3>2. rows[f].tier = pass[s].found[f].tier
      BY <3>0, <3>1 DEF FoldersInv, Item
    <3> QED
      BY <2>1, <3>1, <3>2 DEF FoldersInv, Item, OnListed
  <2>7. CASE (\E f \in Files : _reclassify(s, f)) \/ Restores(s) \/ Retires(s) \/ SettlesAll(s)
    <3>1. /\ pass'[s].found = pass[s].found /\ pass'[s].limited = pass[s].limited
          /\ pass'[s].pc # "recorded"
          /\ \A f \in Files : /\ rows'[f].tier = rows[f].tier
                              /\ rows'[f].state = "IMPORTED" => rows[f].state = "IMPORTED"
      BY <2>7, Steady
    <3>2. \/ /\ pass[s].pc \in {"files"} \cup OnListed /\ pass'[s].pc \in OnListed
             /\ pass'[s].todo = pass[s].todo
          \/ /\ pass[s].pc \in {"retire", "reconcile"} \cup OnGone \cup Replacing
             /\ pass'[s].pc \in {"retire", "reconcile"} \cup OnGone \cup Replacing
      BY <2>7, OnFiles, PastFiles
    <3> QED
      BY <2>1, <3>1, <3>2 DEF FoldersInv, Item, OnListed, OnGone, Replacing
  <2> QED
    BY <1>2, <2>2, <2>3, <2>4, <2>5, <2>6, <2>7 DEF PassKinds, Imports
<1> QED
  BY <1>1, <1>2, Kinds

\* A pass is on f, at one of the steps pcs.
OnFile(f, pcs) == \E s \in Syncers : pass[s].file = f /\ pass[s].pc \in pcs

\* A pass brings back the version that was removed last.  While everything goes smoothly, the
\* newest version of an imported file is not a removed one, and a pass that goes on to move a
\* file has brought it back.  What a pass is about to move is no other file's.
BackInv ==
    /\ \A s \in Syncers :
          /\ pass[s].pc = "restored" => pass[s].doc = RemovedDoc(pass[s].file)
          /\ pass[s].pc = "reclassify" =>
                \A d \in pass[s].left : versions[d].file \in {None, pass[s].file}
    /\ Smooth =>
          \A f \in Files :
              Versions(f) # {} /\ versions[Newest(f)].state = "REMOVED" =>
                  \/ OnFile(f, {"recorded"})
                  \/ /\ rows[f].state # "IMPORTED"
                     /\ ~OnFile(f, {"targets", "reclassify", "record"})

\* The version a file that is back gets back.
LEMMA RemovedLast ==
    ASSUME DriveBase, NEW f \in Files, Versions(f) # {}, versions[Newest(f)].state = "REMOVED"
    PROVE  RemovedDoc(f) = Newest(f)
<1>1. Newest(f) \in InState(f, {"REMOVED"}) /\ InState(f, {"REMOVED"}) \subseteq Versions(f)
  BY NewestVersion DEF InState, Versions
<1>2. /\ RemovedDoc(f) \in InState(f, {"REMOVED"})
      /\ \A d \in InState(f, {"REMOVED"}) : d <= RemovedDoc(f)
  BY <1>1, NewestIs DEF RemovedDoc, DriveBase
<1>3. Newest(f) <= RemovedDoc(f) /\ RemovedDoc(f) <= Newest(f)
  BY <1>1, <1>2, NewestVersion
<1>4. Newest(f) \in Nat /\ RemovedDoc(f) \in Nat
  BY <1>1, <1>2, DriveAssumption DEF Versions
<1> QED
  BY <1>3, <1>4

\* The documents of a file that moved are its own, or its last import.
LEMMA VisiblesOf ==
    ASSUME DriveBase, Owned, NEW f \in Files, rows[f].state \in {"IMPORTED", "REMOVED"},
           NEW d \in Visibles(f)
    PROVE  d \in Docs /\ versions[d].file \in {None, f}
<1>1. rows[f].doc # None /\ rows[f].doc \in Docs
  BY DEF DriveBase, Known, DriveTypes, FileRows
<1> QED
  BY <1>1 DEF Visibles, InState, Versions, Owned

\* A version just added is its file's newest.
LEMMA AddedNewest ==
    ASSUME DriveBase, DriveBase', NEW f \in Files, NEW d \in Docs, versions[d].state = "none",
           \A e \in Docs : life[e] # "absent" => e <= d,
           \A e \in Docs \ {d} : versions'[e] = versions[e],
           versions'[d].file = f
    PROVE  /\ Newest(f)' = d
           /\ \A g \in Files \ {f} : Versions(g)' = Versions(g) /\ Newest(g)' = Newest(g)
<1>1. \A e \in Docs : versions'[e].file # None => e <= d
  <2>1. d <= d
    BY DriveAssumption
  <2> QED
    BY <2>1 DEF DriveBase, InOrder
<1>2. d \in Versions(f)' /\ Versions(f)' \subseteq Nat /\ \A e \in Versions(f)' : e <= d
  BY <1>1, DriveAssumption DEF Versions
<1>3. Newest(f)' = d
  <2>1. Max(Versions(f)') \in Versions(f)' /\ \A e \in Versions(f)' : e <= Max(Versions(f)')
    BY <1>2, MaxIn
  <2>2. Max(Versions(f)') = d
    BY <1>2, <2>1
  <2> QED
    BY <2>2 DEF Newest
<1>4. ASSUME NEW g \in Files \ {f} PROVE Versions(g)' = Versions(g)
  <2>1. versions[d].file # g /\ versions'[d].file # g
    BY <1>4, DriveAssumption DEF DriveBase, InOrder
  <2>2. \A e \in Docs : versions'[e].file = g <=> versions[e].file = g
    BY <2>1
  <2> QED
    BY <2>2 DEF Versions
<1> QED
  BY <1>3, <1>4 DEF Newest

\* Settling removes nothing, and takes up nothing.
LEMMA SettlesNone ==
    ASSUME DriveBase, NEW s \in Syncers, SettlesAll(s), NEW d \in Docs
    PROVE  versions'[d].state = "REMOVED" => versions[d].state = "REMOVED"
<1>1. CASE _reconcile_file(s)
  BY <1>1, SettlesBase, Settles
<1>2. CASE _reconcile_replaces(s)
  BY <1>2, ReplacesBase, Settles
<1>3. CASE _supersede(s)
  BY <1>3, SupersedesBase
<1>4. CASE _supersede_hides(s)
  BY <1>4, HidesBase
<1>5. CASE _reconcile_settles(s)
  BY <1>5, CurrentBase
<1> QED
  BY <1>1, <1>2, <1>3, <1>4, <1>5 DEF SettlesAll

\* It holds on.
LEMMA BackStep ==
    ASSUME DriveBase, Owned, RetireInv, BackInv, [DriveNext]_driveVars
    PROVE  BackInv'
<1>0. /\ \A t \in Syncers : pass[t] \in PassStates /\ PassFits(pass[t])
      /\ errors \in Nat /\ crashes \in Nat
  BY DEF DriveBase, DriveTypes
<1>1. CASE Outside
  <2>1. UNCHANGED <<rows, versions, pass, errors, crashes>>
    BY <1>1, OutsideMoves DEF DriveBase
  <2>2. \A f : /\ Versions(f)' = Versions(f) /\ Newest(f)' = Newest(f)
               /\ RemovedDoc(f)' = RemovedDoc(f)
    BY <2>1 DEF Versions, Newest, RemovedDoc, InState
  <2>3. \A f, pcs : OnFile(f, pcs)' = OnFile(f, pcs)
    BY <2>1 DEF OnFile
  <2>4. Smooth' = Smooth
    BY <2>1 DEF Smooth
  <2> QED
    BY <2>1, <2>2, <2>3, <2>4 DEF BackInv
<1>2. ASSUME NEW s \in Syncers, PassKinds(s)
      PROVE  BackInv'
  <2>0. /\ \A t \in Syncers \ {s} : pass'[t] = pass[t] /\ pass[t].pc = "idle"
        /\ Smooth' => Smooth
    BY <1>2, OthersIdle, SmoothSoFar
  <2> DEFINE Late(f) == \/ pass[s].pc = "recorded" /\ pass[s].file = f
                        \/ /\ rows[f].state # "IMPORTED"
                           /\ ~(/\ pass[s].pc \in {"targets", "reclassify", "record"}
                                /\ pass[s].file = f)
  <2>1. ASSUME pass'[s].pc = "restored" => pass'[s].doc = RemovedDoc(pass[s].file)',
               pass'[s].pc = "reclassify" =>
                   \A d \in pass'[s].left : versions'[d].file \in {None, pass'[s].file},
               Smooth' => \A f \in Files :
                   Versions(f)' # {} /\ versions'[Newest(f)'].state = "REMOVED" => Late(f)'
        PROVE  BackInv'
    <3>1. ASSUME NEW f \in Files, Late(f)'
          PROVE  \/ OnFile(f, {"recorded"})'
                 \/ /\ rows'[f].state # "IMPORTED"
                    /\ ~OnFile(f, {"targets", "reclassify", "record"})'
      BY <2>0, <3>1 DEF OnFile
    <3> QED
      BY <2>0, <2>1, <3>1 DEF BackInv
  <2>2. ASSUME Smooth, NEW f \in Files, Versions(f) # {}, versions[Newest(f)].state = "REMOVED"
        PROVE  Late(f)
    BY <2>0, <2>2 DEF BackInv, OnFile
  <2>3. ASSUME pass'[s].pc \notin {"restored", "targets", "reclassify", "record"},
               pass[s].pc # "recorded",
               \A d \in Docs : /\ SameVersion(versions'[d], versions[d])
                               /\ versions'[d].state = "REMOVED" => versions[d].state = "REMOVED",
               \A f \in Files : rows'[f].state = "IMPORTED" =>
                   rows[f].state = "IMPORTED" \/ (pass'[s].pc = "recorded" /\ pass'[s].file = f)
        PROVE  BackInv'
    <3>1. ASSUME Smooth', NEW f \in Files, Versions(f)' # {},
                 versions'[Newest(f)'].state = "REMOVED"
          PROVE  Late(f)'
      <4>1. Versions(f) # {} /\ Newest(f)' = Newest(f)
        BY <2>3, <3>1, SameFiles
      <4>2. versions[Newest(f)].state = "REMOVED"
        BY <2>3, <3>1, <4>1, NewestVersion
      <4> QED
        BY <2>0, <2>2, <2>3, <3>1, <4>1, <4>2
    <3> HIDE DEF Late
    <3> QED
      BY <2>1, <2>3, <3>1
  <2>4. CASE Turns(s)
    <3>1. UNCHANGED <<rows, versions>> /\ pass'[s].pc \in Between
      BY <2>4, TurnsBase
    <3>2. Smooth' => pass[s].pc \in Between
      BY <1>0, <2>4, TurnsBetween DEF Smooth
    <3>3. \A f : Versions(f)' = Versions(f) /\ Newest(f)' = Newest(f)
      BY <3>1 DEF Versions, Newest
    <3> QED
      BY <2>0, <2>1, <2>2, <3>1, <3>2, <3>3 DEF Between
  <2>5. ASSUME NEW f \in Files, FileEnds(s, f)
        PROVE  BackInv'
    <3>1. /\ UNCHANGED versions /\ pass'[s].pc = "files"
          /\ \A g \in Files \ {f} : rows'[g] = rows[g]
      BY <2>5, FileEndsBase
    <3>2. \A g : Versions(g)' = Versions(g) /\ Newest(g)' = Newest(g)
      BY <3>1 DEF Versions, Newest
    <3>3. ASSUME Smooth', NEW g \in Files, Versions(g) # {}, versions[Newest(g)].state = "REMOVED"
          PROVE  rows'[g].state # "IMPORTED"
      <4>1. ~sync_fails(s, f)
        BY <1>0, <2>0, <3>3 DEF Smooth, sync_fails
      <4>2. \/ sync_skips(s, f) /\ rows'[f].state = "SKIPPED" /\ pass[s].pc = "files"
            \/ sync_unchanged(s, f) /\ rows[f].state = "IMPORTED" /\ pass[s].pc = "files"
            \/ pass[s].pc = "record" /\ pass[s].file = f
        <5>1. CASE sync_unchanged(s, f)
          BY <5>1 DEF sync_unchanged, At
        <5>2. CASE sync_skips(s, f)
          <6>1. pass[s].pc = "files" /\ ~sync_unchanged(s, f) /\ ~_record_unchanged(s)
            BY <5>2 DEF sync_skips, sync_unchanged, _record_unchanged, At
          <6> QED
            BY <2>5, <4>1, <5>2, <6>1, FileEndsBase
        <5>3. CASE _record_unchanged(s) /\ f = pass[s].file
          BY <5>3 DEF _record_unchanged, At
        <5> QED
          BY <2>5, <4>1, <5>1, <5>2, <5>3 DEF FileEnds
      <4>3. Late(g)
        BY <2>0, <2>2, <3>3
      <4> QED
        BY <3>1, <4>2, <4>3
    <3> QED
      BY <2>1, <3>1, <3>2, <3>3
  <2>6. ASSUME NEW f \in Files, _reclassify(s, f)
        PROVE  BackInv'
    <3>1. /\ UNCHANGED <<rows, versions>> /\ pass'[s].file = f
          /\ rows[f].state \in {"IMPORTED", "REMOVED"}
          /\ pass[s].pc \in {"files", "targets", "reclassify"}
          /\ pass[s].pc # "files" => f = pass[s].file
          /\ pass'[s].pc \in {"record", "reclassify"}
      BY <2>6, ReclassifiesBase
    <3>2. \E d \in Docs :
             /\ pass[s].pc = "reclassify" => pass'[s].left = pass[s].left \ {d}
             /\ pass[s].pc # "reclassify" => pass'[s].left = Visibles(f) \ {d}
      BY <2>6, ReclassifiesBase
    <3>3. \A d \in pass'[s].left : versions[d].file \in {None, f}
      <4>1. \A d \in Visibles(f) : versions[d].file \in {None, f}
        BY <3>1, VisiblesOf
      <4>2. pass[s].pc = "reclassify" => \A d \in pass[s].left : versions[d].file \in {None, f}
        BY <3>1 DEF BackInv
      <4> QED
        BY <3>2, <4>1, <4>2
    <3>4. \A g : Versions(g)' = Versions(g) /\ Newest(g)' = Newest(g)
      BY <3>1 DEF Versions, Newest
    <3>5. pass[s].pc = "files" => rows[f].state = "IMPORTED"
      BY <2>6 DEF _reclassify, MayReclassify, At
    <3>6. pass[s].pc = "files" => pass[s].file = None
      BY <1>0 DEF PassFits, Between
    <3> QED
      BY <2>0, <2>1, <2>2, <3>1, <3>3, <3>4, <3>5, <3>6, DriveAssumption
  <2>7. ASSUME NEW f \in Files, sync_receives(s, f)
        PROVE  BackInv'
    <3>1. pass'[s].pc = "received" /\ pass[s].pc = "files" /\ UNCHANGED <<rows, versions>>
      BY <2>7, ReceivesBase
    <3> QED
      BY <2>3, <3>1 DEF SameVersion
  <2>8. CASE sync_records(s)
    <3>0. PICK f \in Files : f = pass[s].file
      BY <2>8, RecordsBase
    <3>1. /\ pass'[s].pc = "recorded" /\ pass[s].pc = "received" /\ UNCHANGED versions
          /\ \A g \in Files \ {f} : rows'[g] = rows[g]
          /\ pass'[s].file = f
      BY <2>8, <3>0, RecordsBase
    <3> QED
      BY <2>3, <3>1 DEF SameVersion
  <2>9. CASE sync_adds_version(s)
    <3>0. PICK f \in Files, d \in Docs : f = pass[s].file /\ d = pass[s].doc
      BY <2>9, AddsBase
    <3>1. /\ pass'[s].pc = "files" /\ pass[s].pc = "recorded" /\ UNCHANGED rows
          /\ versions[d].state = "none"
          /\ \A e \in Docs : life[e] # "absent" => e <= d
          /\ \A e \in Docs \ {d} : versions'[e] = versions[e]
          /\ versions'[d].state = "PENDING" /\ versions'[d].file = f
      BY <2>9, <3>0, AddsBase
    <3>2. DriveBase'
      BY <2>9, AddsBase
    <3>3. versions'[Newest(f)'].state = "PENDING"
      BY <3>1, <3>2, AddedNewest
    <3>4. \A g \in Files \ {f} : Versions(g)' = Versions(g) /\ Newest(g)' = Newest(g)
      BY <3>1, <3>2, AddedNewest
    <3>5. ASSUME Smooth', NEW g \in Files \ {f}, Versions(g) # {},
                 versions'[Newest(g)].state = "REMOVED"
          PROVE  rows'[g].state # "IMPORTED"
      <4>1. versions[Newest(g)].state = "REMOVED"
        BY <3>1, <3>5, NewestVersion
      <4> QED
        BY <2>0, <2>2, <3>0, <3>1, <3>5, <4>1
    <3> QED
      BY <2>1, <3>1, <3>3, <3>4, <3>5
  <2>10. ASSUME NEW f \in Files, _restore_document(s, f)
         PROVE  BackInv'
    <3>1. /\ UNCHANGED <<rows, versions>> /\ pass[s].pc = "files" /\ pass'[s].pc = "restored"
          /\ pass'[s].file = f /\ pass'[s].doc = RemovedDoc(f)
      BY <2>10, RestoresBase
    <3>2. \A g : Versions(g)' = Versions(g) /\ Newest(g)' = Newest(g)
      BY <3>1 DEF Versions, Newest
    <3>3. RemovedDoc(pass[s].file)' = RemovedDoc(f)
      BY <3>1 DEF RemovedDoc, InState, Versions
    <3> QED
      BY <2>0, <2>1, <2>2, <3>1, <3>2, <3>3
  <2>11. CASE _restore_version(s)
    <3>0. PICK f \in Files, d \in Docs : f = pass[s].file /\ d = pass[s].doc
      BY <2>11, RestoresVersionBase
    <3>1. /\ UNCHANGED rows /\ pass[s].pc = "restored"
          /\ pass'[s].pc \in {"record", "targets"} /\ pass'[s].file = f
          /\ \A e \in Docs \ {d} : versions'[e] = versions[e]
          /\ versions'[d] = IF versions[d].state = "REMOVED"
                            THEN [versions[d] EXCEPT !.state = "PENDING"] ELSE versions[d]
      BY <2>11, <3>0, RestoresVersionBase
    <3>2. \A e \in Docs : SameVersion(versions'[e], versions[e])
      BY <2>11, Keeps DEF PassKinds, Restores, Imports, _restore_version, sync_receives,
                          sync_records, sync_adds_version, At
    <3>3. versions'[d].state # "REMOVED"
      BY <3>1 DEF DriveBase, DriveTypes, VersionRows
    <3>4. ASSUME Smooth', NEW g \in Files, Versions(g)' # {},
                 versions'[Newest(g)'].state = "REMOVED"
          PROVE  Late(g)'
      <4>1. Versions(g) # {} /\ Newest(g)' = Newest(g)
        BY <3>2, <3>4, SameFiles
      <4>2. versions[Newest(g)].state = "REMOVED" /\ Newest(g) # d
        BY <3>1, <3>3, <3>4, <4>1, NewestVersion
      <4>3. g # f
        <5>1. d = RemovedDoc(f)
          BY <3>0, <3>1 DEF BackInv
        <5> QED
          BY <4>1, <4>2, <5>1, RemovedLast
      <4> QED
        BY <2>0, <2>2, <3>1, <3>4, <4>1, <4>2, <4>3
    <3> HIDE DEF Late
    <3> QED
      BY <2>1, <3>1, <3>4
  <2>12. CASE _retire_marks(s)
    <3>0. PICK f \in Files : f = pass[s].file
      BY <2>12, RetireMarksBase
    <3>1. /\ pass[s].pc = "retired" /\ pass'[s].pc \in {"retire", "reconcile"}
          /\ \A g \in Files \ {f} : rows'[g] = rows[g]
          /\ rows'[f].state = "REMOVED"
          /\ \A d \in Docs :
                /\ SameVersion(versions'[d], versions[d])
                /\ versions'[d].state = IF d \in InState(f, {"CURRENT", "PENDING"})
                                        THEN "REMOVED" ELSE versions[d].state
      BY <2>12, <3>0, RetireMarksBase
    <3>2. ASSUME Smooth', NEW g \in Files \ {f}, Versions(g)' # {},
                 versions'[Newest(g)'].state = "REMOVED"
          PROVE  rows'[g].state # "IMPORTED"
      <4>1. Versions(g) # {} /\ Newest(g)' = Newest(g)
        BY <3>1, <3>2, SameFiles
      <4>2. versions[Newest(g)].state = "REMOVED"
        BY <3>1, <3>2, <4>1, NewestVersion DEF InState, Versions
      <4> QED
        BY <2>0, <2>2, <3>1, <3>2, <4>1, <4>2
    <3> QED
      BY <2>1, <3>1, <3>2
  <2>13. ASSUME NEW f \in Files, _retire_vanished(s, f)
         PROVE  BackInv'
    <3>1. /\ UNCHANGED <<rows, versions>> /\ pass[s].pc \in {"retire", "hide"}
          /\ pass'[s].pc \in {"retired", "hide"}
      BY <2>13, RetiresBase
    <3> QED
      BY <2>3, <3>1 DEF SameVersion
  <2>14. CASE SettlesAll(s)
    <3>1. /\ \A d \in Docs : SameVersion(versions'[d], versions[d])
          /\ \A f \in Files : rows'[f].state = "IMPORTED" => rows[f].state = "IMPORTED"
      BY <2>14, Steady
    <3>2. /\ pass[s].pc \in {"retire", "reconcile"} \cup OnGone \cup Replacing
          /\ pass'[s].pc \in {"retire", "reconcile"} \cup OnGone \cup Replacing
      BY <2>14, PastFiles
    <3>3. \A d \in Docs : versions'[d].state = "REMOVED" => versions[d].state = "REMOVED"
      BY <2>14, SettlesNone
    <3> QED
      BY <2>3, <3>1, <3>2, <3>3 DEF OnGone, Replacing
  <2> QED
    BY <1>2, <2>4, <2>5, <2>6, <2>7, <2>8, <2>9, <2>10, <2>11, <2>12, <2>13, <2>14
    DEF PassKinds, Imports, Restores, Retires
<1> QED
  BY <1>1, <1>2, Kinds

\* Nobody has reclassified d, the newest version of f, and it is or may become visible.
Top(f, d) ==
    /\ d = Newest(f) /\ versions[d].file = f /\ d \notin byHand
    /\ versions[d].state \in {"CURRENT", "PENDING", "REMOVED"}

\* While everything goes smoothly: the newest version of a file is as restricted as the file was
\* when it was recorded last, and once a pass has moved it, as the file was listed.  What was
\* just imported is as restricted as its file was listed.
TierInv ==
    Smooth =>
        /\ \A f \in Files, d \in Docs :
              (Top(f, d) /\ rows[f].state \in {"IMPORTED", "REMOVED"}
                   /\ ~OnFile(f, {"reclassify", "record", "recorded"})) =>
                  ~is_stricter(rows[f].tier, tier[d])
        /\ \A s \in Syncers, f \in Files, d \in Docs :
              (Top(f, d) /\ d \notin pass[s].left
                   /\ pass[s].file = f /\ pass[s].pc \in {"reclassify", "record"}) =>
                  ~is_stricter(Item(s, f).tier, tier[d])
        /\ \A s \in Syncers :
              pass[s].pc \in {"received", "recorded"} /\ pass[s].doc \notin byHand =>
                  ~is_stricter(Item(s, pass[s].file).tier, tier[pass[s].doc])

\* Settling takes nothing up again.
LEMMA SettlesOnly ==
    ASSUME DriveBase, RetireInv, NEW s \in Syncers, SettlesAll(s), NEW d \in Docs
    PROVE  versions'[d].state \in {"CURRENT", "PENDING", "REMOVED"} =>
               versions[d].state \in {"CURRENT", "PENDING", "REMOVED"}
<1>1. CASE _reconcile_file(s)
  <2>1. PICK f \in Files :
           /\ Versions(f) # {}
           /\ versions'[d].state = IF TakesOver(f) /\ d = Newest(f) THEN "CURRENT"
                                   ELSE SettledIn(f)[d].state
    BY <1>1, SettlesBase
  <2>2. TakesOver(f) => versions[Newest(f)].state = "PENDING"
    <3>1. Newest(f) \in Versions(f) /\ Newest(f) \in Docs
      BY <2>1, NewestVersion DEF Versions
    <3> QED
      BY <3>1, Settles DEF TakesOver
  <2> QED
    BY <2>1, <2>2, Settles
<1>2. CASE _reconcile_replaces(s)
  BY <1>2, ReplacesBase, Settles
<1>3. CASE _supersede(s)
  BY <1>3, SupersedesBase
<1>4. CASE _supersede_hides(s)
  BY <1>4, HidesBase
<1>5. CASE _reconcile_settles(s)
  <2>1. PICK f \in Files : f = pass[s].file
    BY <1>5, CurrentBase
  <2>2. versions[Newest(f)].state = "PENDING"
    BY <1>5, <2>1, CurrentBase DEF RetireInv, Replacing
  <2> QED
    BY <1>5, <2>1, <2>2, CurrentBase
<1> QED
  BY <1>1, <1>2, <1>3, <1>4, <1>5 DEF SettlesAll

\* It holds on.
LEMMA TierStep ==
    ASSUME DriveBase, ErasedInv, Owned, RetireInv, FoldersInv, BackInv, TierInv,
           [DriveNext]_driveVars
    PROVE  TierInv'
<1>0. /\ \A t \in Syncers : pass[t] \in PassStates /\ PassFits(pass[t])
      /\ errors \in Nat /\ crashes \in Nat /\ tier \in [Docs -> Tiers \cup {None}]
  BY DEF DriveBase, DriveTypes
<1>1. CASE Outside
  <2>1. UNCHANGED <<rows, versions, pass, errors, crashes>>
    BY <1>1, OutsideMoves DEF DriveBase
  <2>2. /\ byHand \subseteq byHand'
        /\ \A d \in Docs \ byHand' : tier'[d] = tier[d] \/ tier'[d] = "RESTRICTED"
    BY <1>1, OutsideDoes
  <2>3. \A f, d : Top(f, d)' => Top(f, d) /\ d \notin byHand'
    BY <2>1, <2>2 DEF Top, Newest, Versions
  <2>4. \A f, pcs : OnFile(f, pcs)' = OnFile(f, pcs)
    BY <2>1 DEF OnFile
  <2>5. \A t, d : (d \in Docs \ byHand' /\ ~is_stricter(t, tier[d])) =>
                      ~is_stricter(t, tier'[d])
    BY <2>2 DEF is_stricter
  <2>6. \A s \in Syncers : pass[s].pc \in {"received", "recorded"} => pass[s].doc \in Docs
    BY <1>0 DEF PassStates, PassFits
  <2>7. Smooth' = Smooth
    BY <2>1 DEF Smooth
  <2> QED
    BY <2>1, <2>2, <2>3, <2>4, <2>5, <2>6, <2>7 DEF TierInv, Item
<1>2. ASSUME NEW s \in Syncers, PassKinds(s), Smooth'
      PROVE  TierInv'
  <2>0. /\ \A t \in Syncers \ {s} : pass'[t] = pass[t] /\ pass[t].pc = "idle"
        /\ Smooth
    BY <1>2, OthersIdle, SmoothSoFar
  <2> DEFINE In(f, pcs) == pass[s].file = f /\ pass[s].pc \in pcs
  <2>1. ASSUME \A f \in Files, d \in Docs :
                   (Top(f, d)' /\ rows'[f].state \in {"IMPORTED", "REMOVED"}
                        /\ ~In(f, {"reclassify", "record", "recorded"})') =>
                       ~is_stricter(rows'[f].tier, tier'[d]),
               \A f \in Files, d \in Docs :
                   (Top(f, d)' /\ d \notin pass'[s].left /\ In(f, {"reclassify", "record"})') =>
                       ~is_stricter(pass'[s].found[f].tier, tier'[d]),
               pass'[s].pc \in {"received", "recorded"} /\ pass'[s].doc \notin byHand' =>
                   ~is_stricter(pass'[s].found[pass'[s].file].tier, tier'[pass'[s].doc])
        PROVE  TierInv'
    <3>1. \A pcs : \A f \in Files : In(f, pcs)' => OnFile(f, pcs)'
      BY DEF OnFile
    <3> QED
      BY <2>0, <2>1, <3>1 DEF TierInv, Item
  <2>2. ASSUME NEW f \in Files, NEW d \in Docs, Top(f, d),
               rows[f].state \in {"IMPORTED", "REMOVED"},
               ~In(f, {"reclassify", "record", "recorded"})
        PROVE  ~is_stricter(rows[f].tier, tier[d])
    <3>1. ~OnFile(f, {"reclassify", "record", "recorded"})
      BY <2>0, <2>2 DEF OnFile
    <3> QED
      BY <2>0, <2>2, <3>1 DEF TierInv
  <2>3. \A f \in Files : In(f, {"record"}) => ~In(f, {"reclassify", "recorded"})
    OBVIOUS
  <2>4. ASSUME pass[s].pc \notin {"reclassify", "record", "recorded"},
               pass'[s].pc \notin {"reclassify", "record", "received", "recorded"},
               \A f \in Files, d \in Docs : Top(f, d)' => Top(f, d),
               \A d \in Docs : tier'[d] = tier[d],
               \A f \in Files : /\ rows'[f].tier = rows[f].tier
                                /\ rows'[f].state \in {"IMPORTED", "REMOVED"} =>
                                       rows[f].state \in {"IMPORTED", "REMOVED"}
        PROVE  TierInv'
    BY <2>1, <2>2, <2>4
  <2>5. ASSUME \A d \in Docs : SameVersion(versions'[d], versions[d]),
               \A d \in Docs : versions'[d].state \in {"CURRENT", "PENDING", "REMOVED"} =>
                                   versions[d].state \in {"CURRENT", "PENDING", "REMOVED"},
               byHand' = byHand
        PROVE  \A f \in Files, d \in Docs : Top(f, d)' => Top(f, d)
    <3>1. \A f : Newest(f)' = Newest(f)
      BY <2>5, SameFiles
    <3> QED
      BY <2>5, <3>1 DEF Top, SameVersion
  <2>6. UNCHANGED <<versions, byHand>> => \A f \in Files, d \in Docs : Top(f, d)' => Top(f, d)
    BY <2>5 DEF SameVersion
  <2>7. CASE Turns(s)
    <3>1. UNCHANGED <<rows, versions, tier, byHand>> /\ pass'[s].pc \in Between
      BY <2>7, TurnsBase DEF handVars
    <3>2. pass[s].pc \in Between
      BY <1>0, <1>2, <2>7, TurnsBetween DEF Smooth
    <3> QED
      BY <2>4, <2>6, <3>1, <3>2 DEF Between
  <2>8. ASSUME NEW f \in Files, FileEnds(s, f)
        PROVE  TierInv'
    <3>1. /\ UNCHANGED <<versions, tier, byHand>> /\ pass'[s].pc = "files"
          /\ \A g \in Files \ {f} : rows'[g] = rows[g]
          /\ rows'[f].tier = Item(s, f).tier
      BY <2>8, FileEndsBase
    <3>2. ~sync_fails(s, f)
      BY <1>0, <1>2, <2>0 DEF Smooth, sync_fails
    <3>3. \/ rows'[f].state = "SKIPPED" /\ pass[s].pc = "files"
          \/ /\ rows[f].state = "IMPORTED" /\ pass[s].pc = "files"
             /\ rows[f].tier = Item(s, f).tier
          \/ pass[s].pc = "record" /\ pass[s].file = f
      <4>1. CASE sync_unchanged(s, f)
        BY <4>1 DEF sync_unchanged, At
      <4>2. CASE sync_skips(s, f)
        <5>1. pass[s].pc = "files" /\ ~sync_unchanged(s, f) /\ ~_record_unchanged(s)
          BY <4>2 DEF sync_skips, sync_unchanged, _record_unchanged, At
        <5> QED
          BY <2>8, <3>2, <4>2, <5>1, FileEndsBase
      <4>3. CASE _record_unchanged(s) /\ f = pass[s].file
        BY <4>3 DEF _record_unchanged, At
      <4> QED
        BY <2>8, <3>2, <4>1, <4>2, <4>3 DEF FileEnds
    <3>4. ASSUME NEW g \in Files \ {f}, NEW d \in Docs, Top(g, d),
                 rows[g].state \in {"IMPORTED", "REMOVED"}
          PROVE  ~is_stricter(rows[g].tier, tier[d])
      BY <2>2, <3>3, <3>4
    <3>5. ASSUME NEW d \in Docs, Top(f, d), rows'[f].state # "SKIPPED"
          PROVE  ~is_stricter(Item(s, f).tier, tier[d])
      <4>1. CASE pass[s].pc = "files"
        BY <2>2, <3>3, <3>5, <4>1
      <4>2. CASE pass[s].pc = "record" /\ pass[s].file = f
        <5>1. pass[s].left = {}
          BY <1>0, <4>2 DEF PassFits
        <5> QED
          BY <2>0, <3>5, <4>2, <5>1 DEF TierInv
      <4> QED
        BY <3>3, <3>5, <4>1, <4>2
    <3> QED
      BY <2>1, <2>6, <3>1, <3>4, <3>5
  <2>9. ASSUME NEW f \in Files, _reclassify(s, f)
        PROVE  TierInv'
    <3>1. /\ UNCHANGED <<rows, versions, byHand>> /\ pass'[s].file = f
          /\ rows[f].state \in {"IMPORTED", "REMOVED"}
          /\ pass[s].pc \in {"files", "targets", "reclassify"}
          /\ pass[s].pc # "files" => f = pass[s].file
          /\ pass'[s].pc \in {"record", "reclassify"}
          /\ pass'[s].found = pass[s].found
      BY <2>9, ReclassifiesBase DEF handVars, SamePass
    <3>2. PICK d \in Docs :
             /\ tier' = [tier EXCEPT ![d] = IF Erased(d) THEN @ ELSE Item(s, f).tier]
             /\ pass[s].pc = "reclassify" =>
                   d \in pass[s].left /\ pass'[s].left = pass[s].left \ {d}
             /\ pass[s].pc # "reclassify" =>
                   d \in Visibles(f) /\ pass'[s].left = Visibles(f) \ {d}
      BY <2>9, ReclassifiesBase
    <3>3. versions[d].file \in {None, f}
      <4>1. CASE pass[s].pc = "reclassify"
        BY <3>1, <3>2, <4>1 DEF BackInv
      <4>2. CASE pass[s].pc # "reclassify"
        BY <3>1, <3>2, <4>2, VisiblesOf
      <4> QED
        BY <4>1, <4>2
    <3>4. \A e \in Docs : tier'[e] = IF e = d /\ ~Erased(d) THEN Item(s, f).tier ELSE tier[e]
      BY <1>0, <3>2
    <3>5. ASSUME NEW g \in Files \ {f}, NEW e \in Docs, Top(g, e),
                 rows[g].state \in {"IMPORTED", "REMOVED"}
          PROVE  ~is_stricter(rows[g].tier, tier'[e])
      <4>1. e # d
        BY <3>3, <3>5, DriveAssumption DEF Top
      <4>2. ~In(g, {"reclassify", "record", "recorded"})
        BY <3>1, <3>5
      <4> QED
        BY <2>2, <3>4, <3>5, <4>1, <4>2
    <3>6. ASSUME NEW e \in Docs, Top(f, e), e \notin pass'[s].left
          PROVE  ~is_stricter(Item(s, f).tier, tier'[e])
      <4>1. CASE e = d
        <5>1. ~Erased(d)
          BY <3>6, <4>1 DEF Top, ErasedInv
        <5> QED
          BY <3>4, <4>1, <5>1 DEF is_stricter
      <4>2. CASE e # d /\ pass[s].pc = "reclassify"
        BY <2>0, <3>1, <3>2, <3>4, <3>6, <4>2 DEF TierInv
      <4>3. CASE e # d /\ pass[s].pc # "reclassify"
        <5>1. e \notin Visibles(f)
          BY <3>2, <3>6, <4>3
        <5>2. e \in Versions(f) /\ e = Newest(f) /\ versions[e].state # "REMOVED"
          <6>1. e \in Versions(f) /\ e = Newest(f)
            BY <3>6 DEF Top, Versions
          <6>2. pass[s].pc = "files" => rows[f].state = "IMPORTED" /\ pass[s].file = None
            BY <1>0, <2>9 DEF _reclassify, MayReclassify, At, PassFits, Between
          <6>3. ~OnFile(f, {"recorded"})
            BY <2>0, <3>1 DEF OnFile
          <6>4. pass[s].pc # "files" => OnFile(f, {"targets", "reclassify", "record"})
            BY <3>1 DEF OnFile
          <6> QED
            BY <2>0, <6>1, <6>2, <6>3, <6>4 DEF BackInv
        <5>3. e \in InState(f, {"CURRENT", "PENDING"})
          BY <3>6, <5>2 DEF Top, InState
        <5> QED
          BY <5>1, <5>3 DEF Visibles
      <4> QED
        BY <4>1, <4>2, <4>3
    <3> QED
      BY <2>1, <2>6, <3>1, <3>5, <3>6 DEF Item
  <2>10. ASSUME NEW f \in Files, sync_receives(s, f)
         PROVE  TierInv'
    <3>1. /\ pass'[s].pc = "received" /\ pass'[s].file = f /\ pass[s].pc = "files"
          /\ UNCHANGED <<rows, versions, byHand>> /\ pass'[s].found = pass[s].found
      BY <2>10, ReceivesBase DEF handVars, SamePass
    <3>2. PICK d \in Docs :
             /\ versions[d].file = None
             /\ tier' = [tier EXCEPT ![d] = _inherited_tier(f, Item(s, f))]
             /\ ~is_stricter(Item(s, f).tier, _inherited_tier(f, Item(s, f)))
             /\ pass'[s].doc = d
      BY <2>10, ReceivesBase
    <3>3. /\ ~is_stricter(Item(s, f).tier, tier'[d])
          /\ \A e \in Docs \ {d} : tier'[e] = tier[e]
      BY <1>0, <3>2
    <3>4. \A g \in Files : ~Top(g, d)
      BY <3>2, DriveAssumption DEF Top
    <3> QED
      BY <2>1, <2>2, <2>6, <3>1, <3>2, <3>3, <3>4 DEF Item
  <2>11. CASE sync_records(s)
    <3>0. PICK f \in Files, d \in Docs : f = pass[s].file /\ d = pass[s].doc
      BY <2>11, RecordsBase
    <3>1. /\ pass'[s].pc = "recorded" /\ pass'[s].file = f /\ pass[s].pc = "received"
          /\ UNCHANGED <<tier, versions, byHand>> /\ pass'[s].found = pass[s].found
          /\ \A g \in Files \ {f} : rows'[g] = rows[g]
          /\ pass'[s].doc = d
      BY <2>11, <3>0, RecordsBase DEF docVars, handVars, SamePass
    <3>2. d \notin byHand => ~is_stricter(Item(s, f).tier, tier[d])
      BY <2>0, <3>0, <3>1 DEF TierInv
    <3> QED
      BY <2>1, <2>2, <2>6, <3>1, <3>2 DEF Item
  <2>12. CASE sync_adds_version(s)
    <3>0. PICK f \in Files, d \in Docs : f = pass[s].file /\ d = pass[s].doc
      BY <2>12, AddsBase
    <3>1. /\ pass'[s].pc = "files" /\ pass[s].pc = "recorded" /\ UNCHANGED <<rows, tier, byHand>>
          /\ versions[d].state = "none"
          /\ \A e \in Docs : life[e] # "absent" => e <= d
          /\ \A e \in Docs \ {d} : versions'[e] = versions[e]
          /\ versions'[d].state = "PENDING" /\ versions'[d].file = f
      BY <2>12, <3>0, AddsBase DEF docVars, handVars
    <3>2. DriveBase'
      BY <2>12, AddsBase
    <3>3. Newest(f)' = d /\ \A g \in Files \ {f} : Newest(g)' = Newest(g)
      BY <3>1, <3>2, AddedNewest
    <3>4. d \notin byHand => ~is_stricter(rows[f].tier, tier[d])
      BY <2>0, <3>0, <3>1 DEF TierInv, FoldersInv
    <3>5. \A g \in Files \ {f}, e \in Docs : Top(g, e)' => Top(g, e)
      BY <3>1, <3>3 DEF Top
    <3>6. \A e \in Docs : Top(f, e)' => e = d /\ d \notin byHand
      BY <3>1, <3>3 DEF Top
    <3>7. ASSUME NEW g \in Files \ {f}, NEW e \in Docs, Top(g, e),
                 rows[g].state \in {"IMPORTED", "REMOVED"}
          PROVE  ~is_stricter(rows[g].tier, tier[e])
      BY <2>2, <3>0, <3>7
    <3> QED
      BY <2>1, <3>1, <3>4, <3>5, <3>6, <3>7
  <2>13. ASSUME NEW f \in Files, _restore_document(s, f) \/ _retire_vanished(s, f)
         PROVE  TierInv'
    <3>1. /\ UNCHANGED <<rows, versions, tier, byHand>>
          /\ pass[s].pc \in {"files", "retire", "hide"}
          /\ pass'[s].pc \in {"restored", "retired", "hide"}
      BY <2>13, RestoresBase, RetiresBase DEF handVars
    <3> QED
      BY <2>4, <2>6, <3>1
  <2>14. CASE _restore_version(s)
    <3>0. PICK f \in Files, d \in Docs : f = pass[s].file /\ d = pass[s].doc
      BY <2>14, RestoresVersionBase
    <3>1. /\ UNCHANGED <<rows, tier, byHand>> /\ pass[s].pc = "restored"
          /\ pass'[s].pc \in {"record", "targets"} /\ pass'[s].file = f
          /\ pass'[s].pc = "record" => rows[f].tier = Item(s, f).tier
          /\ pass'[s].found = pass[s].found
          /\ \A e \in Docs \ {d} : versions'[e] = versions[e]
          /\ versions'[d] = IF versions[d].state = "REMOVED"
                            THEN [versions[d] EXCEPT !.state = "PENDING"] ELSE versions[d]
      BY <2>14, <3>0, RestoresVersionBase DEF docVars, handVars, SamePass
    <3>2. \A e \in Docs : SameVersion(versions'[e], versions[e])
      BY <2>14, Keeps DEF PassKinds, Restores, Imports, _restore_version, sync_receives,
                          sync_records, sync_adds_version, At
    <3>3. \A e \in Docs : versions'[e].state \in {"CURRENT", "PENDING", "REMOVED"} =>
                              versions[e].state \in {"CURRENT", "PENDING", "REMOVED"}
      BY <3>1
    <3>4. \A g \in Files, e \in Docs : Top(g, e)' => Top(g, e)
      BY <2>5, <3>1, <3>2, <3>3
    <3>5. rows[f].state \in {"IMPORTED", "REMOVED"}
      BY <1>0, <3>0, <3>1 DEF PassFits, OnKnown
    <3> QED
      BY <2>1, <2>2, <3>1, <3>4, <3>5 DEF Item
  <2>15. CASE _retire_marks(s)
    <3>1. /\ UNCHANGED <<tier, byHand>>
          /\ pass[s].pc = "retired" /\ pass'[s].pc \in {"retire", "reconcile"}
          /\ \A d \in Docs : /\ SameVersion(versions'[d], versions[d])
                             /\ versions'[d].state \in {versions[d].state, "REMOVED"}
                             /\ versions'[d].state = "REMOVED" =>
                                    versions[d].state \in {"CURRENT", "PENDING", "REMOVED"}
      BY <2>15, RetireMarksBase DEF docVars, handVars, InState
    <3>2. \A f \in Files : /\ rows'[f].tier = rows[f].tier
                           /\ rows'[f].state \in {"IMPORTED", "REMOVED"} =>
                                  rows[f].state \in {"IMPORTED", "REMOVED"}
      BY <2>15, Steady DEF Retires
    <3> QED
      BY <2>4, <2>5, <3>1, <3>2
  <2>16. CASE SettlesAll(s)
    <3>1. /\ \A d \in Docs : SameVersion(versions'[d], versions[d])
          /\ UNCHANGED byHand
          /\ \A f \in Files : /\ rows'[f].tier = rows[f].tier
                              /\ rows'[f].state \in {"IMPORTED", "REMOVED"} =>
                                     rows[f].state \in {"IMPORTED", "REMOVED"}
      BY <2>16, Steady
    <3>2. /\ pass[s].pc \in {"retire", "reconcile"} \cup OnGone \cup Replacing
          /\ pass'[s].pc \in {"retire", "reconcile"} \cup OnGone \cup Replacing
      BY <2>16, PastFiles
    <3>3. UNCHANGED tier
      BY <2>16, SettlesBase, ReplacesBase, SupersedesBase, HidesBase, CurrentBase
      DEF SettlesAll, docVars
    <3>4. \A d \in Docs : versions'[d].state \in {"CURRENT", "PENDING", "REMOVED"} =>
                              versions[d].state \in {"CURRENT", "PENDING", "REMOVED"}
      BY <2>16, SettlesOnly
    <3> QED
      BY <2>4, <2>5, <3>1, <3>2, <3>3, <3>4 DEF OnGone, Replacing
  <2> QED
    BY <1>2, <2>7, <2>8, <2>9, <2>10, <2>11, <2>12, <2>13, <2>14, <2>15, <2>16
    DEF PassKinds, Imports, Restores, Retires
<1> QED
  BY <1>1, <1>2, Kinds DEF TierInv

\* Once a full pass is through its files, the newest version of each is as restricted as the
\* folder it was listed in.
THEOREM FolderTierHoldsAlways == DriveSpec => []FolderTierHolds
<1> DEFINE Inv == DriveBase /\ ErasedInv /\ Owned /\ RetireInv /\ FoldersInv /\ BackInv /\ TierInv
<1>1. DriveInit => RetireInv /\ FoldersInv /\ BackInv /\ TierInv
  <2> SUFFICES ASSUME DriveInit PROVE RetireInv /\ FoldersInv /\ BackInv /\ TierInv
    OBVIOUS
  <2>1. /\ \A s \in Syncers : pass[s].pc = "idle"
        /\ \A d \in Docs : versions[d].state = "none" /\ versions[d].file = None
    BY DEF DriveInit, NoPass, NoVersion
  <2>2. \A f \in Files : Versions(f) = {}
    BY <2>1, DriveAssumption DEF Versions
  <2> QED
    BY <2>1, <2>2 DEF RetireInv, FoldersInv, BackInv, TierInv, Top, OnGone, Replacing
<1>2. Inv /\ [DriveNext]_driveVars => (RetireInv /\ FoldersInv /\ BackInv /\ TierInv)'
  BY RetireStep, FoldersStep, BackStep, TierStep
<1>3. Inv => FolderTierHolds
  <2> SUFFICES ASSUME Inv, NEW s \in Syncers, NEW f \in Files, ThroughFiles(s),
                      ~pass[s].limited, Smooth, Item(s, f) # None, rows[f].state = "IMPORTED",
                      NEW d \in InState(f, {"CURRENT", "PENDING"}) \ byHand, d = Newest(f)
               PROVE  ~is_stricter(Item(s, f).tier, tier[d])
    BY DEF FolderTierHolds
  <2>1. rows[f].tier = Item(s, f).tier
    BY DEF FoldersInv, ThroughFiles, OnListed
  <2>2. d \in Docs /\ Top(f, d)
    BY DEF Top, InState, Versions
  <2>3. \A t \in Syncers \ {s} : pass[t].pc = "idle"
    BY DEF DriveBase, Alone, ThroughFiles
  <2>4. ~OnFile(f, {"reclassify", "record", "recorded"})
    BY <2>3 DEF OnFile, ThroughFiles
  <2> QED
    BY <2>1, <2>2, <2>4 DEF TierInv
<1> QED
  BY <1>1, <1>2, <1>3, ReplacedHolds, ErasedHolds, PTL DEF DriveSpec

=============================================================================
