---------------------------- MODULE DriveWorker -----------------------------
(***************************************************************************)
(* The nightly Drive pass from the clock to the list of watched folders:   *)
(* drive_sync_worker.py decides when a pass is due from what               *)
(* drive_sync_state says, and the pass walks both folder trees, one        *)
(* request at a time, before it lists any file.  (What it does with the    *)
(* files is DriveSync.)  Passes fail, the process dies and is started      *)
(* again, and people run drive_sync.py by hand.                            *)
(***************************************************************************)
EXTENDS Integers, FiniteSets, FiniteSetsExt, Sequences, SequencesExt

CONSTANTS
    Folders,        \* Drive folder ids, in the order of their names
    Public, Restricted,   \* the two watched roots
    Shapes,         \* the parent sets of the folders that Drive may hold
    MaxDepth,       \* walk_folder_tree's max_depth
    Day,            \* ticks from one slot to the next
    Ats,            \* what GDRIVE_SYNC_AT may say: a tick of the day, or None
    Interval,       \* GDRIVE_SYNC_INTERVAL_SECONDS, used without a time of day
    Retry,          \* GDRIVE_SYNC_RETRY_SECONDS
    None,
    MaxTime,        \* bound: the clock
    MaxFailures     \* bound: failed passes, crashes and passes by hand

ASSUME WorkerAssumption ==
    /\ Folders \subseteq Nat /\ IsFiniteSet(Folders)
    /\ {Public, Restricted} \subseteq Folders
    /\ Shapes \subseteq [Folders -> SUBSET Folders]
    /\ MaxDepth \in Nat
    /\ {Day, Interval, Retry} \subseteq Nat \ {0}
    /\ Ats \subseteq 0 .. Day - 1 \cup {None}
    /\ None \notin Nat \cup {"PUBLIC", "RESTRICTED"}

VARIABLES
    parents,    \* the folders as they are in Drive
    at,         \* GDRIVE_SYNC_AT, as read when the process started
    now,        \* the clock
    state,      \* drive_sync_state: last_success_at, last_attempt_at, last_error
    worker,     \* the worker process
    byHand,     \* somebody runs drive_sync.py
    covered,    \* when the last pass that came through had started
    failures    \* how many faults so far

vars == <<parents, at, now, state, worker, byHand, covered, failures>>

NoState == [success |-> None, attempt |-> None, error |-> FALSE]

\* pc: "down", "idle", "walk" (both trees, one after the other), "files", "written".
\* tree: the one that is walked, by the tier it confers.
\* woken: it has looked at the clock since the last tick, "excused" if the
\* lock was taken or the database away.
Idle == [pc |-> "idle", woken |-> "no", started |-> None, tree |-> None,
         frontier |-> <<>>, depths |-> <<>>, tiers |-> <<>>]

Init ==
    /\ parents \in Shapes
    /\ at \in Ats
    /\ now = 0
    /\ state = NoState
    /\ worker = Idle
    /\ byHand = FALSE
    /\ covered = None
    /\ failures = 0

(***************************************************************************)
(* The schedule.                                                           *)
(***************************************************************************)
IsSlot(t) == t % Day = at

\* Mutant: a slot at the moment itself counts.
next_slot_after_Inclusive(moment) ==
    CHOOSE t \in moment .. moment + Day - 1 : IsSlot(t)

\* "The first scheduled time strictly after moment."
next_slot_after(moment) == CHOOSE t \in moment + 1 .. moment + Day : IsSlot(t)

last_failed ==
    /\ state.error
    /\ state.success = None \/ (state.attempt # None /\ state.attempt > state.success)

compute_due(t) ==
    IF last_failed /\ state.attempt # None THEN state.attempt + Retry
    ELSE IF state.success = None THEN t
    ELSE IF at = None THEN state.success + Interval
    ELSE next_slot_after(state.success)

due == now >= compute_due(now)

(***************************************************************************)
(* The worker's loop.  It wakes far more often than anything else here     *)
(* happens, so the clock does not move on before it has woken.             *)
(***************************************************************************)
WorkerAt(pc) == worker.pc = pc

Faulty == failures < MaxFailures /\ failures' = failures + 1

ticks ==
    /\ now < MaxTime
    /\ WorkerAt("idle") => worker.woken # "no"
    /\ now' = now + 1
    /\ worker' = [worker EXCEPT !.woken = "no"]
    /\ UNCHANGED <<parents, at, state, byHand, covered, failures>>

\* Not due yet, or somebody else has the lock: SyncAlreadyRunning writes nothing.
sleeps ==
    /\ WorkerAt("idle") /\ worker.woken = "no"
    /\ ~due \/ byHand
    /\ worker' = [worker EXCEPT !.woken = IF due THEN "excused" ELSE "yes"]
    /\ UNCHANGED <<parents, at, now, state, byHand, covered, failures>>

\* walk_folder_tree starts with the root on the frontier.
Walk(root) == [root |-> root, frontier |-> <<root>>,
               depths |-> [f \in Folders |-> IF f = root THEN 0 ELSE None]]

Root(tree) == IF tree = "PUBLIC" THEN Public ELSE Restricted

Walking(w, tree) ==
    [w EXCEPT !.pc = "walk", !.tree = tree, !.frontier = Walk(Root(tree)).frontier,
              !.depths = Walk(Root(tree)).depths]

starts ==
    /\ WorkerAt("idle") /\ worker.woken = "no"
    /\ due /\ ~byHand
    /\ worker' = Walking([worker EXCEPT !.started = now,
                                        !.tiers = [f \in Folders |-> None]], "PUBLIC")
    /\ UNCHANGED <<parents, at, now, state, byHand, covered, failures>>

(***************************************************************************)
(* walk_folder_tree: depth first, with a visited set and a depth cap.      *)
(***************************************************************************)
Children(folder) == {f \in Folders : folder \in parents[f]}

TooDeep(depth) == depth >= MaxDepth

\* One turn of the loop: pop a folder and, above the cap, list its children by name.
walks ==
    /\ WorkerAt("walk") /\ worker.frontier # <<>>
    /\ LET folder == Last(worker.frontier)
           depth == worker.depths[folder]
           new == IF TooDeep(depth) THEN {}
                  ELSE {f \in Children(folder) : worker.depths[f] = None}
       IN  \E listed \in SetToSeqs(new) :
              /\ \A i, j \in DOMAIN listed : i < j => listed[i] < listed[j]
              /\ worker' = [worker EXCEPT
                     !.frontier = Front(@) \o listed,
                     !.depths = [f \in Folders |-> IF f \in new THEN depth + 1 ELSE @[f]]]
    /\ UNCHANGED <<parents, at, now, state, byHand, covered, failures>>

\* Mutant: the tree walked first decides.
Merged_First(tiers, depths, tree) ==
    [f \in Folders |-> IF depths[f] # None /\ tiers[f] = None THEN tree ELSE tiers[f]]

\* resolve_folder_tiers: a folder in both trees gets the stricter tier.
Merged(tiers, depths, tree) ==
    [f \in Folders |->
        IF depths[f] # None /\ (tiers[f] = None \/ tree = "RESTRICTED") THEN tree ELSE tiers[f]]

walked ==
    /\ WorkerAt("walk") /\ worker.frontier = <<>>
    /\ LET merged == [worker EXCEPT !.tiers = Merged(@, worker.depths, worker.tree)]
       IN  worker' = IF worker.tree = "PUBLIC" THEN Walking(merged, "RESTRICTED")
                     ELSE [merged EXCEPT !.pc = "files"]
    /\ UNCHANGED <<parents, at, now, state, byHand, covered, failures>>

(***************************************************************************)
(* How a pass ends.                                                        *)
(***************************************************************************)
\* Mutant: the state says when the pass was over.
Success_AtEnd == [success |-> now, attempt |-> worker.started, error |-> FALSE]

Success == [success |-> worker.started, attempt |-> worker.started, error |-> FALSE]

\* The pass is through: its files are as they were at its start, or newer.
passes ==
    /\ WorkerAt("files")
    /\ worker' = [worker EXCEPT !.pc = "written"]
    /\ covered' = worker.started
    /\ UNCHANGED <<parents, at, now, state, byHand, failures>>

writes ==
    /\ WorkerAt("written")
    /\ state' = Success
    /\ worker' = Idle
    /\ UNCHANGED <<parents, at, now, byHand, covered, failures>>

\* Any request of the pass may fail, and the whole pass with it.
fails ==
    /\ worker.pc \in {"walk", "files"}
    /\ Faulty
    /\ state' = [state EXCEPT !.attempt = worker.started, !.error = TRUE]
    /\ worker' = Idle
    /\ UNCHANGED <<parents, at, now, byHand, covered>>

\* The state cannot be read or written: the loop logs it and goes on.
database_is_away ==
    /\ worker.pc \in {"idle", "written"} /\ worker.woken = "no"
    /\ Faulty
    /\ worker' = [Idle EXCEPT !.woken = "excused"]
    /\ UNCHANGED <<parents, at, now, state, byHand, covered>>

dies ==
    /\ ~WorkerAt("down")
    /\ Faulty
    /\ worker' = [Idle EXCEPT !.pc = "down"]
    /\ UNCHANGED <<parents, at, now, state, byHand, covered>>

comes_up ==
    /\ WorkerAt("down")
    /\ worker' = Idle
    /\ at' \in Ats
    /\ UNCHANGED <<parents, now, state, byHand, covered, failures>>

\* drive_sync.py takes the same lock and leaves drive_sync_state alone.
run_by_hand ==
    /\ ~byHand /\ worker.pc \in {"idle", "written", "down"}
    /\ Faulty
    /\ byHand' = TRUE
    /\ UNCHANGED <<parents, at, now, state, worker, covered>>

hand_done ==
    /\ byHand
    /\ byHand' = FALSE
    /\ UNCHANGED <<parents, at, now, state, worker, covered, failures>>

Next ==
    \/ ticks \/ sleeps \/ starts \/ walks \/ walked \/ passes \/ writes
    \/ fails \/ database_is_away \/ dies \/ comes_up \/ run_by_hand \/ hand_done

Spec == Init /\ [][Next]_vars

(***************************************************************************)
(* Properties.                                                             *)
(***************************************************************************)

\* The last pass that came through started after the last slot.
Covered ==
    /\ covered # None
    /\ IF at = None THEN now < covered + Interval
       ELSE \A t \in 0 .. now : IsSlot(t) => covered >= t

\* "A missed run is caught up, not skipped", "a failure retries within the hour":
\* whenever the worker has woken and gone back to sleep, after whatever crashes
\* and failures, the last slot is covered or a pass has failed within Retry.
CaughtUp ==
    WorkerAt("idle") /\ worker.woken = "yes" =>
        Covered \/ (state.error /\ now < state.attempt + Retry)

\* The worker never runs again before the next slot (or Interval) after a pass
\* that came through, unless the record of that pass was lost or a later one failed.
NeverTwice ==
    [][WorkerAt("idle") /\ worker'.pc = "walk" =>
          ~Covered \/ state.error \/ covered # state.success]_vars

\* The folders at most k below the root.
Within(root, k) ==
    LET w[n \in 0 .. k] ==
            IF n = 0 THEN {root} ELSE w[n - 1] \cup UNION {Children(f) : f \in w[n - 1]}
    IN  w[k]

\* No folder of the tree is reached by two ways, or no way is too long.
Plain(root) ==
    \/ \A f \in Folders : Cardinality(parents[f]) <= 1
    \/ Cardinality(Within(root, Cardinality(Folders))) <= MaxDepth + 1

\* "a document filed in Restricted/2026/ is no less restricted for it": a pass
\* watches exactly the folders of both trees down to the cap, and the stricter
\* tier wins where they overlap, whatever cycles the folders make.
WatchedAsFiled ==
    WorkerAt("files") =>
        \A f \in Folders :
            LET tier == worker.tiers[f]
                under(root) == f \in Within(root, MaxDepth)
            IN  /\ tier = "RESTRICTED" => under(Restricted)
                /\ tier = "PUBLIC" => under(Public)
                /\ Plain(Restricted) /\ under(Restricted) => tier = "RESTRICTED"
                /\ Plain(Public) /\ under(Public) => tier # None
====
