-------------------------- MODULE DriveWorkerProofs -------------------------
(***************************************************************************)
(* Proofs about the nightly worker.  The schedule: no slot is skipped, and *)
(* none is served twice, for any clock, times of day, failures and         *)
(* crashes; the day's arithmetic comes first, then one invariant for both. *)
(* The walk: it finds the folders of both trees, whatever their graph.     *)
(***************************************************************************)
EXTENDS DriveWorker, SequenceLemmas

\* A number is a multiple of D and a rest.
LEMMA Division ==
    ASSUME NEW D \in Nat \ {0}, NEW s \in Int
    PROVE  \E q \in Int : s = (D * q) + (s % D)
<1>1. s = (D * (s \div D)) + (s % D) /\ s \div D \in Int
  BY SMT
<1> QED
  BY <1>1

\* Two moments at the same time of day are a day apart at least.
LEMMA DayApart ==
    ASSUME NEW D \in Nat \ {0}, NEW s \in Int, NEW t \in Int, s % D = t % D, s < t
    PROVE  t - s >= D
<1>1. PICK p \in Int : s = (D * p) + (s % D)
  BY Division
<1>2. PICK q \in Int : t = (D * q) + (t % D)
  BY Division
<1>3. D * p < D * q
  BY <1>1, <1>2, SMT
<1>4. p < q
  BY <1>3, SMT
<1>5. D * (q - p) >= D
  BY <1>4, SMT
<1> QED
  BY <1>1, <1>2, <1>5, SMT

\* Every time of day comes up within a day.
LEMMA DayComes ==
    ASSUME NEW D \in Nat \ {0}, NEW s \in Int, NEW a \in 0 .. D - 1
    PROVE  \E t \in s + 1 .. s + D : t % D = a
<1>1. PICK q \in Int : s = (D * q) + (s % D)
  BY Division
<1>2. s % D \in 0 .. D - 1
  BY SMT
<1>3. \A p \in Int : ((D * p) + a) % D = a
  BY SMT
<1>4. CASE s % D < a
  <2>1. (D * q) + a \in s + 1 .. s + D
    BY <1>1, <1>2, <1>4, SMT
  <2>2. ((D * q) + a) % D = a
    BY <1>1, <1>3
  <2> QED
    BY <2>1, <2>2
<1>5. CASE ~(s % D < a)
  <2>1. (D * (q + 1)) + a \in s + 1 .. s + D /\ q + 1 \in Int
    BY <1>1, <1>2, <1>5, SMT
  <2>2. ((D * (q + 1)) + a) % D = a
    BY <1>3, <2>1
  <2> QED
    BY <2>1, <2>2
<1> QED
  BY <1>4, <1>5

\* next_slot_after returns the first slot after a moment.
LEMMA NextSlot ==
    ASSUME NEW m \in Nat, at \in 0 .. Day - 1
    PROVE  /\ next_slot_after(m) \in m + 1 .. m + Day
           /\ IsSlot(next_slot_after(m))
           /\ \A t \in Nat : IsSlot(t) /\ t > m => t >= next_slot_after(m)
<1> DEFINE slot == next_slot_after(m)
<1>0. Day \in Nat \ {0}
  BY WorkerAssumption
<1>1. slot \in m + 1 .. m + Day /\ slot % Day = at
  <2>1. \E t \in m + 1 .. m + Day : IsSlot(t)
    <3>1. m \in Int
      OBVIOUS
    <3>2. \E t \in m + 1 .. m + Day : t % Day = at
      BY <1>0, <3>1, DayComes
    <3> QED
      BY <3>2 DEF IsSlot
  <2> QED
    BY <2>1 DEF next_slot_after, IsSlot
<1>2. ASSUME NEW t \in Nat, t % Day = at, t > m, t < slot
      PROVE  FALSE
  <2>1. slot \in Int /\ t \in Int
    BY <1>0, <1>1
  <2> HIDE DEF slot
  <2>2. slot - t >= Day
    BY <1>0, <1>1, <1>2, <2>1, DayApart
  <2> QED
    BY <1>0, <1>1, <1>2, <2>1, <2>2
<1>3. slot \in Nat
  BY <1>0, <1>1
<1> HIDE DEF slot
<1>4. \A t \in Nat : t % Day = at /\ t > m => t >= slot
  BY <1>2, <1>3
<1> QED
  BY <1>1, <1>4 DEF slot, IsSlot

(***************************************************************************)
(* The invariant: what drive_sync_state says never runs ahead of what was  *)
(* covered, and what was covered never ahead of the pass that runs.        *)
(***************************************************************************)
Times == Nat \cup {None}

ClockTypes ==
    /\ now \in Nat /\ at \in Ats /\ covered \in Times
    /\ state \in [success: Times, attempt: Times, error: BOOLEAN]
    /\ DOMAIN worker = DOMAIN Idle
    /\ worker.pc \in {"down", "idle", "walk", "files", "written"}
    /\ worker.woken \in {"no", "yes", "excused"}

InPass == worker.pc \in {"walk", "files", "written"}

RecordsInOrder ==
    /\ covered # None => covered <= now
    /\ state.success # None => covered # None /\ state.success <= covered
    /\ InPass => /\ worker.started \in Nat /\ worker.started <= now
                 /\ covered # None => covered <= worker.started
    /\ WorkerAt("written") => covered = worker.started

ScheduleInv == ClockTypes /\ RecordsInOrder /\ CaughtUp

\* What compute_due makes of the records, in words of slots and of what is covered:
\* whoever is not due is covered, or has failed within Retry.
LEMMA NotDueIsCovered ==
    ASSUME ClockTypes, RecordsInOrder, ~due
    PROVE  Covered \/ (state.error /\ now < state.attempt + Retry)
<1>0. /\ {Day, Interval, Retry} \subseteq Nat \ {0} /\ Ats \subseteq (0 .. Day - 1) \cup {None}
      /\ now \in Nat /\ at \in Ats /\ covered \in Times
      /\ state.success \in Times /\ state.attempt \in Times
  BY WorkerAssumption DEF ClockTypes
<1>1. CASE last_failed /\ state.attempt # None
  BY <1>0, <1>1 DEF due, compute_due, last_failed, Times
<1>2. CASE ~(last_failed /\ state.attempt # None)
  <2>1. state.success # None
    BY <1>0, <1>2 DEF due, compute_due
  <2>2. /\ state.success \in Nat /\ covered \in Nat /\ covered # None /\ state.success <= covered
    BY <1>0, <2>1 DEF RecordsInOrder, Times
  <2>3. CASE at = None
    BY <1>0, <1>2, <2>1, <2>2, <2>3 DEF due, compute_due, Covered
  <2>4. CASE at # None
    <3>1. ~(now >= next_slot_after(state.success)) /\ at \in 0 .. Day - 1
      BY <1>0, <1>2, <2>1, <2>4 DEF due, compute_due
    <3> DEFINE slot == next_slot_after(state.success)
    <3>2. /\ slot \in state.success + 1 .. state.success + Day
          /\ \A t \in Nat : IsSlot(t) /\ t > state.success => t >= slot
      BY <2>2, <3>1, NextSlot
    <3>3. ~(now >= slot)
      BY <3>1
    <3> HIDE DEF slot
    <3>4. \A t \in 0 .. now : IsSlot(t) => covered >= t
      BY <1>0, <2>2, <3>2, <3>3
    <3> QED
      BY <2>2, <2>4, <3>4 DEF Covered
  <2> QED
    BY <2>3, <2>4
<1> QED
  BY <1>1, <1>2

\* Whoever is due has not covered the last slot, as far as the records tell.
LEMMA DueIsNotCovered ==
    ASSUME ClockTypes, RecordsInOrder, due, Covered, ~state.error
    PROVE  covered # state.success
<1> SUFFICES ASSUME covered = state.success PROVE FALSE
  OBVIOUS
<1>0. /\ {Day, Interval, Retry} \subseteq Nat \ {0} /\ Ats \subseteq (0 .. Day - 1) \cup {None}
      /\ now \in Nat /\ at \in Ats /\ covered \in Nat /\ covered # None
  BY WorkerAssumption DEF ClockTypes, Covered, Times
<1>1. now >= (IF at = None THEN state.success + Interval ELSE next_slot_after(state.success))
  BY <1>0 DEF due, compute_due, last_failed
<1>2. CASE at = None
  BY <1>0, <1>1, <1>2 DEF Covered
<1>3. CASE at # None
  <2>1. at \in 0 .. Day - 1
    BY <1>0, <1>3
  <2>2. /\ next_slot_after(covered) \in covered + 1 .. covered + Day
        /\ IsSlot(next_slot_after(covered))
    BY <1>0, <2>1, NextSlot
  <2>3. \A t \in 0 .. now : IsSlot(t) => covered >= t
    BY <1>3 DEF Covered
  <2> QED
    BY <1>0, <1>1, <1>3, <2>2, <2>3
<1> QED
  BY <1>2, <1>3

\* A step that leaves clock, times and records alone, and does not put the worker
\* to sleep, keeps the invariant.
LEMMA ScheduleStep ==
    ASSUME ScheduleInv, [Next]_vars
    PROVE  ScheduleInv'
<1> USE DEF ScheduleInv
<1>0. /\ now \in Nat /\ covered \in Times /\ at \in Ats
      /\ state \in [success: Times, attempt: Times, error: BOOLEAN]
      /\ state.success \in Times /\ state.attempt \in Times
      /\ {Day, Interval, Retry} \subseteq Nat \ {0}
  BY WorkerAssumption DEF ClockTypes
<1>1. CASE ticks
  BY <1>0, <1>1 DEF ticks, ClockTypes, RecordsInOrder, InPass, CaughtUp, WorkerAt, Idle, Times
<1>2. CASE sleeps
  <2>1. /\ worker' = [worker EXCEPT !.woken = IF due THEN "excused" ELSE "yes"]
        /\ UNCHANGED <<at, now, state, covered>>
    BY <1>2 DEF sleeps
  <2>2. ClockTypes' /\ RecordsInOrder'
    BY <1>2, <2>1 DEF sleeps, ClockTypes, RecordsInOrder, InPass, WorkerAt, Idle
  <2>3. CaughtUp'
    <3>1. CASE due
      BY <2>1, <3>1 DEF CaughtUp, ClockTypes, Idle, WorkerAt
    <3>2. CASE ~due
      BY <2>1, <3>2, NotDueIsCovered DEF CaughtUp, Covered, IsSlot
    <3> QED
      BY <3>1, <3>2
  <2> QED
    BY <2>2, <2>3
<1>3. CASE starts
  <2>1. /\ DOMAIN worker' = DOMAIN Idle /\ worker'.pc = "walk" /\ worker'.started = now
        /\ worker'.woken = worker.woken
        /\ UNCHANGED <<at, now, state, covered>>
    BY <1>3 DEF starts, Walking, ClockTypes, Idle
  <2> QED
    BY <1>0, <2>1 DEF ClockTypes, RecordsInOrder, InPass, CaughtUp, WorkerAt
<1>4. CASE walks \/ walked
  <2>1. /\ DOMAIN worker' = DOMAIN Idle /\ worker'.pc \in {"walk", "files"}
        /\ worker'.started = worker.started /\ worker'.woken = worker.woken
        /\ WorkerAt("walk")
        /\ UNCHANGED <<at, now, state, covered>>
    BY <1>4 DEF walks, walked, Walking, ClockTypes, Idle, WorkerAt
  <2> QED
    BY <1>0, <2>1 DEF ClockTypes, RecordsInOrder, InPass, CaughtUp, WorkerAt
<1>5. CASE passes
  <2>1. /\ DOMAIN worker' = DOMAIN Idle /\ worker'.pc = "written"
        /\ worker'.started = worker.started /\ worker'.woken = worker.woken
        /\ WorkerAt("files") /\ covered' = worker.started
        /\ UNCHANGED <<at, now, state>>
    BY <1>5 DEF passes, ClockTypes, Idle, WorkerAt
  <2>2. /\ worker.started \in Nat /\ worker.started <= now
        /\ covered # None => covered <= worker.started
    BY <2>1 DEF RecordsInOrder, InPass, WorkerAt
  <2>3. state.success # None => covered' # None /\ state.success <= covered'
    <3>1. state.success # None => state.success \in Nat /\ covered \in Nat
      BY <1>0 DEF RecordsInOrder, Times
    <3>2. state.success # None => covered # None /\ state.success <= covered
      BY DEF RecordsInOrder
    <3>3. covered' \in Nat /\ covered' # None /\ covered' = worker.started
      BY <2>1, <2>2, WorkerAssumption
    <3> QED
      BY <2>2, <3>1, <3>2, <3>3
  <2> QED
    BY <1>0, <2>1, <2>2, <2>3 DEF ClockTypes, RecordsInOrder, InPass, CaughtUp, WorkerAt, Times
<1>6. CASE writes
  <2>1. /\ worker' = Idle /\ state' = Success /\ WorkerAt("written")
        /\ UNCHANGED <<at, now, covered>>
    BY <1>6 DEF writes
  <2>2. worker.started \in Nat /\ covered = worker.started
    BY <2>1 DEF RecordsInOrder, InPass, WorkerAt
  <2> QED
    BY <1>0, <2>1, <2>2
    DEF ClockTypes, RecordsInOrder, InPass, CaughtUp, WorkerAt, Times, Success, Idle
<1>7. CASE fails
  <2>1. /\ worker' = Idle /\ UNCHANGED <<at, now, covered>>
        /\ state' = [state EXCEPT !.attempt = worker.started, !.error = TRUE]
        /\ worker.started \in Nat
    BY <1>7 DEF fails, RecordsInOrder, InPass
  <2> QED
    BY <1>0, <2>1 DEF ClockTypes, RecordsInOrder, InPass, CaughtUp, WorkerAt, Times, Idle
<1>8. CASE database_is_away \/ dies \/ comes_up
  <2>1. /\ at' \in Ats /\ UNCHANGED <<now, state, covered>>
        /\ DOMAIN worker' = DOMAIN Idle
        /\ worker'.pc \in {"idle", "down"} /\ worker'.woken \in {"no", "excused"}
    BY <1>0, <1>8 DEF database_is_away, dies, comes_up, Idle
  <2> QED
    BY <1>0, <2>1 DEF ClockTypes, RecordsInOrder, InPass, CaughtUp, WorkerAt
<1>9. CASE run_by_hand \/ hand_done \/ UNCHANGED vars
  <2>1. UNCHANGED <<at, now, state, worker, covered>>
    BY <1>9 DEF run_by_hand, hand_done, vars
  <2> QED
    BY <2>1 DEF ClockTypes, RecordsInOrder, InPass, CaughtUp, WorkerAt, Covered, IsSlot
<1> QED
  BY <1>1, <1>2, <1>3, <1>4, <1>5, <1>6, <1>7, <1>8, <1>9 DEF Next

\* Nothing has happened yet.
LEMMA ScheduleInit == Init => ScheduleInv
  BY DEF Init, NoState, Idle, ScheduleInv, ClockTypes, RecordsInOrder, InPass, CaughtUp,
         WorkerAt, Times

\* CaughtUp: however often passes fail and the process dies, a worker that has looked at
\* the clock and gone back to sleep has covered the last slot or failed within Retry.
THEOREM CaughtUpHolds == Spec => []CaughtUp
<1>1. ScheduleInv => CaughtUp
  BY DEF ScheduleInv
<1> QED
  BY <1>1, ScheduleInit, ScheduleStep, PTL DEF Spec

\* NeverTwice: a pass only starts if the last slot (or Interval) is not covered, or if the
\* record of the last pass was lost, or a later pass failed.
THEOREM NeverTwiceHolds == Spec => NeverTwice
<1>1. ScheduleInv /\ [Next]_vars =>
        [WorkerAt("idle") /\ worker'.pc = "walk" =>
            ~Covered \/ state.error \/ covered # state.success]_vars
  <2> SUFFICES ASSUME ScheduleInv, Next, WorkerAt("idle"), worker'.pc = "walk"
               PROVE  ~Covered \/ state.error \/ covered # state.success
    OBVIOUS
  <2>1. CASE starts
    BY <2>1, DueIsNotCovered DEF starts, ScheduleInv
  <2>2. CASE ~starts
    <3>1. worker.pc = "idle" /\ DOMAIN worker = DOMAIN Idle
      BY DEF ScheduleInv, ClockTypes, WorkerAt
    <3> QED
      BY <2>2, <3>1
      DEF Next, ticks, sleeps, walks, walked, passes, writes, fails, database_is_away, dies,
          comes_up, run_by_hand, hand_done, WorkerAt, Idle
  <2> QED
    BY <2>1, <2>2
<1> QED
  BY <1>1, ScheduleInit, ScheduleStep, PTL DEF Spec, NeverTwice

(***************************************************************************)
(* The folders of a tree: each level adds the children of the one before,  *)
(* and from some level on there are none to add.                           *)
(***************************************************************************)
\* The folders a folder's listing leads to, and those of a set of folders.
Below(F) == UNION {Children(f) : f \in F}

\* The function that Within builds, on its first k + 1 arguments.
Levels(root, k, w) ==
    w = [n \in 0 .. k |-> IF n = 0 THEN {root} ELSE w[n - 1] \cup Below(w[n - 1])]

\* Within counts levels from the root, each adding the children of the one before.
LEMMA WithinNext ==
    ASSUME NEW root \in Folders
    PROVE  /\ Within(root, 0) = {root}
           /\ \A k \in Nat : /\ Within(root, k) \in SUBSET Folders
                             /\ Within(root, k + 1) = Within(root, k) \cup Below(Within(root, k))
<1> DEFINE Step(w, n) == IF n = 0 THEN {root} ELSE w[n - 1] \cup Below(w[n - 1])
           Fits == {k \in Nat : \E w \in [0 .. k -> SUBSET Folders] : Levels(root, k, w)}
           W(k) == CHOOSE w : Levels(root, k, w)
<1>1. \A F \in SUBSET Folders : Below(F) \in SUBSET Folders
  BY DEF Below, Children
<1>2. 0 \in Fits
  <2> DEFINE w == [n \in 0 .. 0 |-> {root}]
  <2>1. w \in [0 .. 0 -> SUBSET Folders] /\ Levels(root, 0, w)
    BY DEF Levels
  <2> HIDE DEF w
  <2> QED
    BY <2>1
<1>3. ASSUME NEW k \in Nat, k \in Fits PROVE k + 1 \in Fits
  <2>1. PICK w \in [0 .. k -> SUBSET Folders] : Levels(root, k, w)
    BY <1>3
  <2> DEFINE new == w[k] \cup Below(w[k])
             v == [n \in 0 .. k + 1 |-> IF n <= k THEN w[n] ELSE new]
  <2>2. w[k] \in SUBSET Folders /\ new \in SUBSET Folders
    BY <1>1
  <2>3. \A n \in 0 .. k : w[n] = Step(w, n)
    BY <2>1 DEF Levels
  <2>4. v \in [0 .. k + 1 -> SUBSET Folders]
    <3> HIDE DEF new
    <3> QED
      BY <2>2
  <2>5. DOMAIN v = 0 .. k + 1 /\ v[k + 1] = new /\ \A n \in 0 .. k : v[n] = w[n]
    <3> HIDE DEF new
    <3> QED
      OBVIOUS
  <2> HIDE DEF v
  <2>6. ASSUME NEW n \in 0 .. k + 1 PROVE v[n] = Step(v, n)
    <3>1. CASE n <= k
      <4>1. v[n] = Step(w, n)
        BY <2>3, <2>5, <3>1
      <4>2. n # 0 => v[n - 1] = w[n - 1]
        BY <2>5, <3>1
      <4> QED
        BY <4>1, <4>2
    <3>2. CASE n = k + 1
      <4>1. n # 0 /\ n - 1 = k /\ v[k] = w[k]
        BY <2>5, <3>2
      <4> QED
        BY <2>5, <3>2, <4>1
    <3> QED
      BY <3>1, <3>2
  <2>7. v = [n \in 0 .. k + 1 |-> Step(v, n)]
    <3> HIDE DEF Step
    <3> QED
      BY <2>4, <2>6
  <2>8. Levels(root, k + 1, v)
    BY <2>7 DEF Levels
  <2> QED
    BY <2>4, <2>8
<1>4. ASSUME NEW k \in Nat PROVE Levels(root, k, W(k)) /\ W(k) \in [0 .. k -> SUBSET Folders]
  <2>1. k \in Fits
    <3> HIDE DEF Fits
    <3> QED
      BY <1>2, <1>3, Induct
  <2>2. \E w \in [0 .. k -> SUBSET Folders] : Levels(root, k, w)
    BY <2>1
  <2>3. Levels(root, k, W(k))
    BY <2>2
  <2> HIDE DEF W
  <2> DEFINE S == {n \in Nat : n <= k => W(k)[n] \in SUBSET Folders}
  <2>4. \A n \in 0 .. k : W(k)[n] = Step(W(k), n)
    BY <2>3 DEF Levels
  <2>5. 0 \in S
    <3>1. 0 \in 0 .. k
      OBVIOUS
    <3>2. W(k)[0] = {root}
      BY <2>4, <3>1, Zenon
    <3> QED
      BY <3>2
  <2>6. ASSUME NEW n \in Nat, n \in S PROVE n + 1 \in S
    <3> SUFFICES ASSUME n + 1 <= k PROVE W(k)[n + 1] \in SUBSET Folders
      OBVIOUS
    <3>1. W(k)[n] \in SUBSET Folders
      BY <2>6
    <3>2. W(k)[n + 1] = W(k)[n] \cup Below(W(k)[n])
      <4>1. n + 1 \in 0 .. k /\ n + 1 # 0 /\ (n + 1) - 1 = n
        OBVIOUS
      <4> QED
        BY <2>4, <4>1, Zenon
    <3> QED
      BY <1>1, <3>1, <3>2
  <2>7. \A n \in 0 .. k : W(k)[n] \in SUBSET Folders
    <3> HIDE DEF S
    <3>1. Nat \subseteq S
      BY <2>5, <2>6, Induct
    <3> QED
      BY <3>1 DEF S
  <2>8. W(k) = [n \in 0 .. k |-> Step(W(k), n)]
    BY <2>3 DEF Levels
  <2> HIDE DEF Step
  <2> QED
    BY <2>3, <2>4, <2>7, <2>8
<1>5. \A k \in Nat : Within(root, k) = W(k)[k]
  BY Zenon DEF Within, Levels, Below
<1> HIDE DEF W, Fits
<1>6. ASSUME NEW k \in Nat
      PROVE  /\ W(k)[0] = {root}
             /\ \A n \in Nat : n + 1 <= k => W(k)[n + 1] = W(k)[n] \cup Below(W(k)[n])
  <2>1. \A n \in 0 .. k : W(k)[n] = Step(W(k), n)
    BY <1>4 DEF Levels
  <2>2. W(k)[0] = {root}
    <3>1. 0 \in 0 .. k
      OBVIOUS
    <3> QED
      BY <2>1, <3>1, Zenon
  <2>3. ASSUME NEW n \in Nat, n + 1 <= k PROVE W(k)[n + 1] = W(k)[n] \cup Below(W(k)[n])
    <3>1. n + 1 \in 0 .. k /\ n + 1 # 0 /\ (n + 1) - 1 = n
      BY <2>3
    <3> QED
      BY <2>1, <3>1, Zenon
  <2> QED
    BY <2>2, <2>3
<1>7. ASSUME NEW k \in Nat PROVE W(k + 1)[k] = W(k)[k]
  <2> DEFINE S == {n \in Nat : n <= k => W(k + 1)[n] = W(k)[n]}
  <2>1. 0 \in S
    <3>1. W(k + 1)[0] = {root} /\ W(k)[0] = {root}
      BY <1>6
    <3> QED
      BY <3>1
  <2>2. ASSUME NEW n \in Nat, n \in S PROVE n + 1 \in S
    <3> SUFFICES ASSUME n + 1 <= k PROVE W(k + 1)[n + 1] = W(k)[n + 1]
      OBVIOUS
    <3>1. W(k + 1)[n] = W(k)[n]
      BY <2>2
    <3>2. k + 1 \in Nat /\ n + 1 <= k + 1
      OBVIOUS
    <3>3. W(k + 1)[n + 1] = W(k + 1)[n] \cup Below(W(k + 1)[n])
      BY <1>6, <3>2
    <3>4. W(k)[n + 1] = W(k)[n] \cup Below(W(k)[n])
      BY <1>6
    <3> QED
      BY <3>1, <3>3, <3>4
  <2> HIDE DEF S
  <2>3. k \in S
    BY <2>1, <2>2, Induct
  <2> QED
    BY <2>3 DEF S
<1>8. Within(root, 0) = {root}
  BY <1>5, <1>6
<1>9. ASSUME NEW k \in Nat
      PROVE  /\ Within(root, k) \in SUBSET Folders
             /\ Within(root, k + 1) = Within(root, k) \cup Below(Within(root, k))
  <2>1. W(k)[k] \in SUBSET Folders
    BY <1>4
  <2>2. k + 1 \in Nat /\ k + 1 <= k + 1
    OBVIOUS
  <2>3. W(k + 1)[k + 1] = W(k + 1)[k] \cup Below(W(k + 1)[k])
    BY <1>6, <2>2
  <2>4. Within(root, k + 1) = W(k + 1)[k + 1]
    BY <1>5, <2>2
  <2> QED
    BY <1>5, <1>7, <2>1, <2>3, <2>4
<1> QED
  BY <1>8, <1>9

\* A level holds those above it.
LEMMA WithinGrows ==
    ASSUME NEW root \in Folders, NEW k \in Nat, NEW l \in Nat, k <= l
    PROVE  Within(root, k) \subseteq Within(root, l)
<1> DEFINE S == {m \in Nat : Within(root, k) \subseteq Within(root, k + m)}
<1>1. 0 \in S
  OBVIOUS
<1>2. ASSUME NEW m \in Nat, m \in S PROVE m + 1 \in S
  <2>1. k + m \in Nat /\ k + (m + 1) = (k + m) + 1
    OBVIOUS
  <2>2. Within(root, k + m) \subseteq Within(root, (k + m) + 1)
    BY <2>1, WithinNext
  <2> QED
    BY <1>2, <2>1, <2>2
<1> HIDE DEF S
<1>3. l - k \in S
  <2>1. l - k \in Nat
    OBVIOUS
  <2> QED
    BY <1>1, <1>2, <2>1, Induct
<1> QED
  <2>1. k + (l - k) = l
    OBVIOUS
  <2> QED
    BY <1>3, <2>1 DEF S

\* A level that adds nothing is the last one, and among so many folders as there are
\* one of the first adds nothing: no folder is further below the root than that.
LEMMA WithinSettles ==
    ASSUME NEW root \in Folders, NEW k \in Nat
    PROVE  Within(root, k) \subseteq Within(root, Cardinality(Folders))
<1> DEFINE N == Cardinality(Folders)
           Level(n) == Within(root, n)
           S == {n \in Nat : Cardinality(Level(n)) >= n + 1 \/ Level(n + 1) = Level(n)}
           T == {n \in Nat : Level(N + n) = Level(N)}
<1>1. IsFiniteSet(Folders) /\ N \in Nat
  BY WorkerAssumption, FS_CardinalityType
<1>2. \A n \in Nat : IsFiniteSet(Level(n)) /\ Cardinality(Level(n)) \in Nat
                        /\ Cardinality(Level(n)) <= N
  <2> TAKE n \in Nat
  <2>1. Level(n) \in SUBSET Folders
    BY WithinNext
  <2> HIDE DEF Level
  <2> QED
    BY <1>1, <2>1, FS_Subset, FS_CardinalityType
<1>3. \A n \in Nat : Level(n + 1) = Level(n) \cup Below(Level(n))
  BY WithinNext
<1>4. Level(0) = {root}
  BY WithinNext
<1> HIDE DEF Level
<1>5. 0 \in S
  BY <1>4, FS_Singleton
<1>6. ASSUME NEW n \in Nat, n \in S PROVE n + 1 \in S
  <2>1. CASE Level(n + 1) = Level(n)
    <3>1. Level((n + 1) + 1) = Level(n + 1)
      BY <1>3, <2>1
    <3> QED
      BY <3>1
  <2>2. CASE Level(n + 1) # Level(n)
    <3>1. Cardinality(Level(n)) >= n + 1
      BY <1>6, <2>2
    <3>2. Level(n) \in SUBSET Level(n + 1)
      BY <1>3
    <3>3. /\ Cardinality(Level(n)) <= Cardinality(Level(n + 1))
          /\ Cardinality(Level(n + 1)) = Cardinality(Level(n)) => Level(n + 1) = Level(n)
      BY <1>2, <3>2, FS_Subset
    <3>4. Cardinality(Level(n)) \in Nat /\ Cardinality(Level(n + 1)) \in Nat
      BY <1>2
    <3>5. Cardinality(Level(n + 1)) >= (n + 1) + 1
      BY <2>2, <3>1, <3>3, <3>4
    <3> QED
      BY <3>5
  <2> QED
    BY <2>1, <2>2
<1>7. Level(N + 1) = Level(N)
  <2> HIDE DEF S
  <2>1. N \in S
    BY <1>1, <1>5, <1>6, Induct
  <2>2. Cardinality(Level(N)) <= N /\ Cardinality(Level(N)) \in Nat
    BY <1>1, <1>2
  <2> HIDE DEF N
  <2> QED
    BY <1>1, <2>1, <2>2 DEF S
<1>8. 0 \in T
  BY <1>1
<1>9. ASSUME NEW n \in Nat, n \in T PROVE n + 1 \in T
  <2> SUFFICES Level(N + (n + 1)) = Level(N)
    OBVIOUS
  <2>0. Level(N + n) = Level(N)
    BY <1>9
  <2> HIDE DEF N
  <2>1. N + n \in Nat /\ N + (n + 1) = (N + n) + 1
    BY <1>1
  <2>2. Level((N + n) + 1) = Level(N + n) \cup Below(Level(N + n))
    BY <1>3, <2>1
  <2>3. Level(N + 1) = Level(N) \cup Below(Level(N))
    BY <1>1, <1>3
  <2> QED
    BY <1>7, <2>0, <2>1, <2>2, <2>3
<1>10. CASE k <= N
  BY <1>1, <1>10, WithinGrows
<1>11. CASE k > N
  <2> HIDE DEF T
  <2>1. k - N \in Nat /\ N + (k - N) = k
    BY <1>1, <1>11
  <2>2. k - N \in T
    BY <1>8, <1>9, <2>1, Induct
  <2> QED
    BY <2>1, <2>2 DEF T, Level
<1> QED
  BY <1>1, <1>10, <1>11

\* What a walk has found: how deep each folder was when it was first met, or None.
Met(depth) == {f \in Folders : depth[f] # None}

\* Each folder found is that deep, by a way of folders found before it.
Found(root, depth) ==
    /\ depth \in [Folders -> Nat \cup {None}]
    /\ depth[root] = 0
    /\ \A f \in Met(depth) : f \in Within(root, depth[f]) /\ depth[f] <= MaxDepth
    /\ \A f \in Met(depth) \ {root} :
          \E p \in Met(depth) : p \in parents[f] /\ depth[f] = depth[p] + 1

\* No folder above the cap has a child that was not found.
Closed(depth) == \A f \in Met(depth) : depth[f] < MaxDepth => Children(f) \subseteq Met(depth)

\* A folder found at some depth has as many found above it, one at each.
LEMMA WayUp ==
    ASSUME NEW root \in Folders, NEW depth, Found(root, depth), NEW d \in Nat,
           NEW g \in Met(depth), depth[g] = d
    PROVE  Cardinality({f \in Met(depth) : depth[f] <= d}) >= d + 1
<1> DEFINE Above(n) == {f \in Met(depth) : depth[f] <= n}
           S == {n \in Nat : (\E f \in Met(depth) : depth[f] = n) =>
                                 Cardinality(Above(n)) >= n + 1}
<1>1. IsFiniteSet(Folders) /\ None \notin Nat
  BY WorkerAssumption
<1>2. \A f \in Met(depth) : depth[f] \in Nat
  BY DEF Met, Found
<1>3. ASSUME NEW n \in Nat PROVE IsFiniteSet(Above(n)) /\ Cardinality(Above(n)) \in Nat
  <2>1. Above(n) \in SUBSET Folders
    BY DEF Met
  <2> HIDE DEF Above
  <2> QED
    BY <1>1, <2>1, FS_Subset, FS_CardinalityType
<1>4. 0 \in S
  <2>1. root \in Above(0)
    BY <1>1 DEF Found, Met
  <2>2. Cardinality(Above(0)) # 0
    <3> HIDE DEF Above
    <3> QED
      BY <1>3, <2>1, FS_EmptySet
  <2> HIDE DEF Above
  <2> QED
    BY <1>3, <2>2
<1>5. ASSUME NEW n \in Nat, n \in S PROVE n + 1 \in S
  <2> SUFFICES ASSUME NEW f \in Met(depth), depth[f] = n + 1
               PROVE  Cardinality(Above(n + 1)) >= (n + 1) + 1
    OBVIOUS
  <2>1. f # root
    BY DEF Found
  <2>2. PICK p \in Met(depth) : depth[f] = depth[p] + 1
    BY <2>1 DEF Found
  <2>3. depth[p] = n
    BY <1>2, <2>2
  <2>4. Cardinality(Above(n)) >= n + 1
    BY <1>5, <2>3
  <2>5. Above(n) \in SUBSET Above(n + 1) /\ f \in Above(n + 1) /\ f \notin Above(n)
    BY <1>2
  <2> HIDE DEF Above
  <2>6. /\ Cardinality(Above(n)) <= Cardinality(Above(n + 1))
        /\ Cardinality(Above(n + 1)) = Cardinality(Above(n)) => Above(n + 1) = Above(n)
    BY <1>3, <2>5, FS_Subset
  <2> QED
    BY <1>3, <2>4, <2>5, <2>6
<1> HIDE DEF S
<1>6. d \in S
  BY <1>4, <1>5, Induct
<1> QED
  BY <1>6 DEF S

\* A walk that has nothing left on its frontier has found what the cap lets it find,
\* and all of that where no folder is reached by two ways, or no way is too long.
LEMMA WalkReaches ==
    ASSUME parents \in [Folders -> SUBSET Folders],
           NEW root \in Folders, NEW depth, Found(root, depth), Closed(depth)
    PROVE  /\ Met(depth) \subseteq Within(root, MaxDepth)
           /\ Plain(root) => Within(root, MaxDepth) \subseteq Met(depth)
<1> DEFINE N == Cardinality(Folders)
<1>1. IsFiniteSet(Folders) /\ None \notin Nat /\ MaxDepth \in Nat /\ N \in Nat
  BY WorkerAssumption, FS_CardinalityType
<1>2. \A f \in Met(depth) : /\ f \in Folders /\ depth[f] \in Nat
                            /\ f \in Within(root, depth[f]) /\ depth[f] <= MaxDepth
  BY DEF Met, Found
<1>3. root \in Met(depth) /\ depth[root] = 0
  BY <1>1 DEF Met, Found
<1>4. Met(depth) \subseteq Within(root, MaxDepth)
  BY <1>1, <1>2, WithinGrows
<1>5. ASSUME \A f \in Folders : Cardinality(parents[f]) <= 1
      PROVE  Within(root, MaxDepth) \subseteq Met(depth)
  <2> DEFINE S == {k \in Nat : k <= MaxDepth =>
                                 \A f \in Within(root, k) : f \in Met(depth) /\ depth[f] <= k}
  <2>1. 0 \in S
    BY <1>3, WithinNext
  <2>2. ASSUME NEW k \in Nat, k \in S PROVE k + 1 \in S
    <3> SUFFICES ASSUME k + 1 <= MaxDepth, NEW f \in Within(root, k + 1)
                 PROVE  f \in Met(depth) /\ depth[f] <= k + 1
      OBVIOUS
    <3>1. \A g \in Within(root, k) : g \in Met(depth) /\ depth[g] <= k
      BY <1>1, <2>2
    <3>2. CASE f \in Within(root, k)
      BY <1>2, <3>1, <3>2
    <3>3. CASE f \notin Within(root, k)
      <4>1. PICK p \in Within(root, k) : f \in Children(p)
        BY <3>3, WithinNext DEF Below
      <4>2. p \in Met(depth) /\ depth[p] <= k /\ depth[p] \in Nat
        BY <1>2, <3>1
      <4>3. f \in Met(depth)
        BY <1>1, <4>1, <4>2 DEF Closed
      <4>4. CASE f = root
        BY <1>3, <4>3, <4>4
      <4>5. CASE f # root
        <5>1. PICK q \in Met(depth) : q \in parents[f] /\ depth[f] = depth[q] + 1
          BY <4>3, <4>5 DEF Found
        <5>2. f \in Folders /\ p \in parents[f] /\ q \in parents[f]
          BY <4>1, <5>1 DEF Children
        <5>3. p = q
          <6> SUFFICES ASSUME p # q PROVE FALSE
            OBVIOUS
          <6>1. {p, q} \in SUBSET parents[f] /\ parents[f] \in SUBSET Folders
            BY <5>2
          <6>2. IsFiniteSet(parents[f]) /\ Cardinality(parents[f]) \in Nat
            BY <1>1, <6>1, FS_Subset, FS_CardinalityType
          <6>3. Cardinality({p, q}) <= Cardinality(parents[f])
            BY <6>1, <6>2, FS_Subset
          <6>4. Cardinality({p, q}) = 2
            <7> DEFINE one == {p}
            <7>1. IsFiniteSet(one) /\ Cardinality(one) = 1
              BY FS_Singleton
            <7>2. q \notin one /\ {p, q} = one \cup {q}
              OBVIOUS
            <7> HIDE DEF one
            <7>3. Cardinality(one \cup {q}) = Cardinality(one) + 1
              BY <7>1, <7>2, FS_AddElement
            <7> QED
              BY <7>1, <7>2, <7>3
          <6> QED
            BY <1>5, <5>2, <6>2, <6>3, <6>4
        <5> QED
          BY <4>2, <4>3, <5>1, <5>3
      <4> QED
        BY <4>4, <4>5
    <3> QED
      BY <3>2, <3>3
  <2> HIDE DEF S
  <2>3. MaxDepth \in S
    BY <1>1, <2>1, <2>2, Induct
  <2> QED
    BY <1>1, <2>3 DEF S
<1>6. ASSUME Cardinality(Within(root, N)) <= MaxDepth + 1
      PROVE  Within(root, MaxDepth) \subseteq Met(depth)
  <2> DEFINE S == {k \in Nat : Within(root, k) \subseteq Met(depth)}
  <2>1. 0 \in S
    BY <1>3, WithinNext
  <2>2. ASSUME NEW k \in Nat, k \in S PROVE k + 1 \in S
    <3> SUFFICES ASSUME NEW f \in Within(root, k + 1), f \notin Met(depth) PROVE FALSE
      OBVIOUS
    <3>1. Within(root, k) \subseteq Met(depth)
      BY <2>2
    <3>2. PICK p \in Within(root, k) : f \in Children(p)
      BY <3>1, WithinNext DEF Below
    <3>3. p \in Met(depth) /\ depth[p] = MaxDepth
      BY <1>1, <1>2, <3>1, <3>2 DEF Closed
    <3>4. Cardinality({g \in Met(depth) : depth[g] <= MaxDepth}) >= MaxDepth + 1
      BY <1>1, <3>3, WayUp
    <3>5. {g \in Met(depth) : depth[g] <= MaxDepth} = Met(depth)
      BY <1>2
    <3>6. Met(depth) \in SUBSET Within(root, N) /\ f \in Within(root, N)
      <4>1. k + 1 \in Nat
        OBVIOUS
      <4> QED
        BY <1>2, <4>1, WithinSettles
    <3>7. Within(root, N) \in SUBSET Folders
      BY <1>1, WithinNext
    <3> HIDE DEF N
    <3>8. /\ IsFiniteSet(Within(root, N)) /\ Cardinality(Within(root, N)) \in Nat
          /\ Cardinality(Met(depth)) \in Nat
          /\ Cardinality(Met(depth)) <= Cardinality(Within(root, N))
          /\ Cardinality(Within(root, N)) = Cardinality(Met(depth)) =>
                 Within(root, N) = Met(depth)
      BY <1>1, <3>6, <3>7, FS_Subset, FS_CardinalityType
    <3>9. Cardinality(Met(depth)) >= MaxDepth + 1
      BY <3>4, <3>5
    <3>10. Cardinality(Within(root, N)) <= MaxDepth + 1
      BY <1>6
    <3>11. Cardinality(Within(root, N)) = Cardinality(Met(depth))
      BY <1>1, <3>8, <3>9, <3>10
    <3> QED
      BY <3>2, <3>6, <3>8, <3>11
  <2> HIDE DEF S
  <2>3. MaxDepth \in S
    BY <1>1, <2>1, <2>2, Induct
  <2> QED
    BY <2>3 DEF S
<1> QED
  BY <1>4, <1>5, <1>6 DEF Plain

(***************************************************************************)
(* A pass: what the walk under way has found, and what the one before it   *)
(* did.                                                                    *)
(***************************************************************************)
Trees == {"PUBLIC", "RESTRICTED"}

\* The tiers that walking Public gave: to what the cap lets it find, and no other.
PublicWatched(tiers) ==
    /\ tiers \in [Folders -> {None, "PUBLIC"}]
    /\ \A f \in Folders : tiers[f] = "PUBLIC" => f \in Within(Public, MaxDepth)
    /\ Plain(Public) => \A f \in Within(Public, MaxDepth) : tiers[f] = "PUBLIC"

\* A folder that was met is on the frontier, or has had its children met.
Walked(w) ==
    /\ Found(Root(w.tree), w.depths)
    /\ w.frontier \in Seq(Folders) /\ ToSet(w.frontier) \subseteq Met(w.depths)
    /\ \A f \in Met(w.depths) \ ToSet(w.frontier) :
          w.depths[f] < MaxDepth => Children(f) \subseteq Met(w.depths)

WalkInv ==
    /\ parents \in [Folders -> SUBSET Folders]
    /\ WorkerAt("walk") =>
          /\ worker.tree \in Trees
          /\ Walked(worker)
          /\ IF worker.tree = "PUBLIC" THEN worker.tiers = [f \in Folders |-> None]
             ELSE PublicWatched(worker.tiers)

TreeInv == WalkInv /\ WatchedAsFiled

\* What is said of the folders stays true as long as they stay as they are.
LEMMA SameTree ==
    ASSUME UNCHANGED parents, NEW CONSTANT tiers, NEW CONSTANT w, NEW CONSTANT root,
           NEW CONSTANT n
    PROVE  /\ Within(root, n)' = Within(root, n)
           /\ Plain(root)' = Plain(root)
           /\ PublicWatched(tiers)' = PublicWatched(tiers)
           /\ Walked(w)' = Walked(w)
<1>1. \A g : Children(g)' = Children(g)
  BY DEF Children
<1>2. \A r, k : Within(r, k)' = Within(r, k)
  BY DEF Within, Children
<1>3. \A r : Plain(r)' = Plain(r)
  BY <1>2 DEF Plain
<1>4. PublicWatched(tiers)' = PublicWatched(tiers)
  BY <1>2, <1>3 DEF PublicWatched
<1>5. Walked(w)' = Walked(w)
  BY <1>1, <1>2 DEF Walked, Found, Met
<1> QED
  BY <1>2, <1>3, <1>4, <1>5

\* walk_folder_tree starts with the root alone.
LEMMA WalkBegins ==
    ASSUME NEW w, DOMAIN w = DOMAIN Idle, NEW tree \in Trees
    PROVE  Walked(Walking(w, tree))
<1> DEFINE root == Root(tree)
           walk == Walking(w, tree)
<1>1. root \in Folders /\ None \notin Nat /\ MaxDepth \in Nat
  BY WorkerAssumption DEF Root
<1>2. /\ walk.tree = tree /\ walk.frontier = <<root>>
      /\ walk.depths = [f \in Folders |-> IF f = root THEN 0 ELSE None]
  BY DEF Walking, Walk, Idle
<1> HIDE DEF root, walk
<1>3. Met(walk.depths) = {root} /\ walk.depths[root] = 0
  BY <1>1, <1>2 DEF Met
<1>4. root \in Within(root, 0)
  BY <1>1, WithinNext
<1>5. Found(root, walk.depths)
  BY <1>1, <1>2, <1>3, <1>4 DEF Found
<1>6. <<root>> \in Seq(Folders) /\ ToSet(<<root>>) = {root}
  BY <1>1 DEF ToSet
<1>7. Root(walk.tree) = root
  BY <1>2 DEF root
<1>8. Walked(walk)
  BY <1>2, <1>3, <1>5, <1>6, <1>7 DEF Walked
<1> QED
  BY <1>8 DEF walk

\* One turn of the loop.
LEMMA WalkGoesOn ==
    ASSUME DOMAIN worker = DOMAIN Idle, parents \in [Folders -> SUBSET Folders],
           worker.tree \in Trees, Walked(worker), walks,
           NEW CONSTANT w, w = worker'
    PROVE  Walked(w) /\ w.tree = worker.tree /\ w.tiers = worker.tiers /\ w.pc = worker.pc
<1> DEFINE root == Root(worker.tree)
           front == worker.frontier
           depths == worker.depths
           folder == Last(front)
           depth == depths[folder]
           new == IF TooDeep(depth) THEN {} ELSE {f \in Children(folder) : depths[f] = None}
           deeper == [f \in Folders |-> IF f \in new THEN depth + 1 ELSE depths[f]]
<1>1. PICK listed \in SetToSeqs(new) :
         worker' = [worker EXCEPT
                       !.frontier = Front(@) \o listed,
                       !.depths = [f \in Folders |-> IF f \in new THEN depth + 1 ELSE @[f]]]
  BY Zenon DEF walks
<1>2. /\ w.tree = worker.tree /\ w.tiers = worker.tiers /\ w.pc = worker.pc
      /\ w.frontier = Front(front) \o listed /\ w.depths = deeper
  BY <1>1 DEF Idle
<1>3. front \in Seq(Folders) /\ front # <<>>
  BY DEF walks, Walked
<1>4. /\ Len(front) \in Nat \ {0} /\ DOMAIN front = 1 .. Len(front)
      /\ folder = front[Len(front)] /\ folder \in Folders /\ folder \in ToSet(front)
  <2>1. Len(front) \in Nat \ {0} /\ DOMAIN front = 1 .. Len(front)
    BY <1>3, EmptySeq, LenProperties
  <2> QED
    BY <1>3, <2>1, ElementOfSeq DEF Last, ToSet
<1>5. /\ Front(front) \in Seq(Folders)
      /\ ToSet(front) = ToSet(Front(front)) \cup {folder}
  <2>1. \A i \in 1 .. Len(front) - 1 : front[i] \in Folders
    BY <1>3, <1>4, ElementOfSeq
  <2>2. /\ Front(front) \in Seq(Folders) /\ Len(Front(front)) = Len(front) - 1
        /\ \A i \in 1 .. Len(front) - 1 : Front(front)[i] = front[i]
    BY <1>4, <2>1, SubSeqProperties DEF Front
  <2>3. DOMAIN Front(front) = 1 .. Len(front) - 1
    BY <1>4, <2>2, LenProperties
  <2>4. 1 .. Len(front) = (1 .. Len(front) - 1) \cup {Len(front)}
    BY <1>4
  <2> HIDE DEF front, folder
  <2> QED
    BY <1>4, <2>2, <2>3, <2>4 DEF ToSet
<1>6. /\ IsFiniteSet(Folders) /\ None \notin Nat /\ MaxDepth \in Nat
      /\ root \in Folders
  BY WorkerAssumption DEF Root
<1>7. /\ Found(root, depths) /\ ToSet(front) \subseteq Met(depths)
      /\ \A f \in Met(depths) \ ToSet(front) :
            depths[f] < MaxDepth => Children(f) \subseteq Met(depths)
  BY DEF Walked
<1> HIDE DEF root, front, depths, folder
<1>8. /\ depths \in [Folders -> Nat \cup {None}]
      /\ depth \in Nat /\ depth <= MaxDepth /\ folder \in Within(root, depth)
      /\ folder \in Met(depths)
  BY <1>4, <1>6, <1>7 DEF Found, Met
<1>9. new \in SUBSET Folders /\ \A f \in new : depths[f] = None /\ folder \in parents[f]
  BY DEF Children
<1>10. /\ new # {} => depth + 1 <= MaxDepth
       /\ depth < MaxDepth => Children(folder) \subseteq Met(depths) \cup new
  <2>1. new # {} => depth + 1 <= MaxDepth
    BY <1>6, <1>8 DEF TooDeep
  <2>2. depth < MaxDepth => Children(folder) \subseteq Met(depths) \cup new
    BY <1>6, <1>8 DEF TooDeep, Children, Met
  <2> QED
    BY <2>1, <2>2
<1>11. listed \in Seq(Folders) /\ ToSet(listed) = new
  <2> HIDE DEF new
  <2>1. IsFiniteSet(new)
    BY <1>6, <1>9, FS_Subset
  <2>2. listed \in Seq(new) /\ ToSet(listed) = new
    BY <2>1, OrderHasAll
  <2> QED
    BY <1>9, <2>2, SeqMonotonic
<1> HIDE DEF new, depth
<1>12. /\ w.frontier \in Seq(Folders)
       /\ ToSet(w.frontier) = ToSet(Front(front)) \cup new
  BY <1>2, <1>5, <1>11, ConcatProperties, SetOfConcat
<1>13. deeper \in [Folders -> Nat \cup {None}]
  BY <1>8
<1>14. /\ \A f \in new : deeper[f] = depth + 1
       /\ \A f \in Folders \ new : deeper[f] = depths[f]
  BY <1>9
<1> HIDE DEF deeper
<1>15. Met(deeper) = Met(depths) \cup new
  BY <1>6, <1>8, <1>9, <1>14 DEF Met
<1>16. \A f \in Met(depths) : f \in Folders /\ f \notin new /\ deeper[f] = depths[f]
  BY <1>9, <1>14 DEF Met
<1>17. Found(root, deeper)
  <2>1. deeper[root] = 0
    BY <1>6, <1>7, <1>16 DEF Found, Met
  <2>2. ASSUME NEW f \in Met(deeper)
        PROVE  f \in Within(root, deeper[f]) /\ deeper[f] <= MaxDepth
    <3>1. CASE f \in Met(depths)
      BY <1>7, <1>16, <3>1 DEF Found
    <3>2. CASE f \in new
      <4>1. f \in Children(folder)
        BY <1>9, <3>2 DEF Children
      <4>2. f \in Within(root, depth + 1)
        BY <1>6, <1>8, <4>1, WithinNext DEF Below
      <4> QED
        BY <1>10, <1>14, <3>2, <4>2
    <3> QED
      BY <1>15, <3>1, <3>2
  <2>3. ASSUME NEW f \in Met(deeper) \ {root}
        PROVE  \E p \in Met(deeper) : p \in parents[f] /\ deeper[f] = deeper[p] + 1
    <3>1. CASE f \in Met(depths)
      <4>1. PICK p \in Met(depths) : p \in parents[f] /\ depths[f] = depths[p] + 1
        BY <1>7, <3>1 DEF Found
      <4> QED
        BY <1>15, <1>16, <3>1, <4>1
    <3>2. CASE f \in new
      <4>1. folder \in Met(deeper) /\ folder \in parents[f] /\ deeper[f] = depth + 1
        BY <1>8, <1>9, <1>14, <1>15, <3>2
      <4>2. deeper[folder] = depth
        BY <1>8, <1>16 DEF depth
      <4> QED
        BY <4>1, <4>2
    <3> QED
      BY <1>15, <3>1, <3>2
  <2> QED
    BY <1>13, <2>1, <2>2, <2>3 DEF Found
<1>18. ToSet(w.frontier) \subseteq Met(deeper)
  BY <1>5, <1>7, <1>12, <1>15
<1>19. ASSUME NEW f \in Met(deeper) \ ToSet(w.frontier), deeper[f] < MaxDepth
       PROVE  Children(f) \subseteq Met(deeper)
  <2>1. f \in Met(depths) /\ f \notin ToSet(Front(front)) /\ depths[f] = deeper[f]
    BY <1>12, <1>15, <1>16
  <2>2. CASE f = folder
    BY <1>10, <1>15, <1>19, <2>1, <2>2 DEF depth
  <2>3. CASE f # folder
    BY <1>5, <1>7, <1>15, <1>19, <2>1, <2>3
  <2> QED
    BY <2>2, <2>3
<1> QED
  BY <1>2, <1>12, <1>17, <1>18, <1>19 DEF Walked, root

\* Between the trees, and after the second.
LEMMA WalkEnds ==
    ASSUME DOMAIN worker = DOMAIN Idle, WalkInv, walked, NEW CONSTANT w, w = worker'
    PROVE  \/ w.pc = "walk" /\ w.tree = "RESTRICTED" /\ Walked(w) /\ PublicWatched(w.tiers)
           \/ /\ w.pc = "files"
              /\ \A f \in Folders :
                    LET tier == w.tiers[f]
                        under(root) == f \in Within(root, MaxDepth)
                    IN  /\ tier = "RESTRICTED" => under(Restricted)
                        /\ tier = "PUBLIC" => under(Public)
                        /\ Plain(Restricted) /\ under(Restricted) => tier = "RESTRICTED"
                        /\ Plain(Public) /\ under(Public) => tier # None
<1> DEFINE depths == worker.depths
           tiers == worker.tiers
           after == Merged(tiers, depths, worker.tree)
           merged == [worker EXCEPT !.tiers = after]
<1>1. /\ worker.tree \in Trees /\ Walked(worker) /\ worker.frontier = <<>>
      /\ worker' = IF worker.tree = "PUBLIC" THEN Walking(merged, "RESTRICTED")
                   ELSE [merged EXCEPT !.pc = "files"]
  BY DEF walked, WalkInv, WorkerAt
<1>2. /\ Public \in Folders /\ Restricted \in Folders /\ None \notin Trees
      /\ Root(worker.tree) \in Folders
  BY WorkerAssumption DEF Root, Trees
<1>3. Found(Root(worker.tree), depths) /\ Closed(depths)
  BY <1>1 DEF Walked, Closed, ToSet
<1>4. /\ Met(depths) \subseteq Within(Root(worker.tree), MaxDepth)
      /\ Plain(Root(worker.tree)) => Within(Root(worker.tree), MaxDepth) \subseteq Met(depths)
  BY <1>2, <1>3, WalkReaches DEF WalkInv
<1>5. \A f \in Folders : depths[f] # None <=> f \in Met(depths)
  BY DEF Met
<1>6. \A root \in Folders : Within(root, MaxDepth) \in SUBSET Folders
  BY WorkerAssumption, WithinNext
<1>7. /\ DOMAIN merged = DOMAIN Idle /\ merged.tiers = after
  BY DEF Idle
<1> HIDE DEF depths
<1>8. CASE worker.tree = "PUBLIC"
  <2>1. tiers = [f \in Folders |-> None]
    BY <1>8 DEF walked, WalkInv
  <2>2. after = [f \in Folders |-> IF f \in Met(depths) THEN "PUBLIC" ELSE None]
    BY <1>5, <1>8, <2>1 DEF Merged
  <2>3. Root(worker.tree) = Public
    BY <1>8 DEF Root
  <2>4. PublicWatched(after)
    <3> HIDE DEF after
    <3> QED
      BY <1>2, <1>4, <1>6, <2>2, <2>3 DEF PublicWatched, Trees
  <2> HIDE DEF merged, after
  <2>5. w = Walking(merged, "RESTRICTED")
    BY <1>1, <1>8
  <2>6. Walked(w)
    BY <1>7, <2>5, WalkBegins DEF Trees
  <2>7. w.pc = "walk" /\ w.tree = "RESTRICTED" /\ w.tiers = after
    BY <1>7, <2>5 DEF Walking, Idle
  <2> QED
    BY <2>4, <2>6, <2>7
<1>9. CASE worker.tree = "RESTRICTED"
  <2>1. PublicWatched(tiers)
    BY <1>9 DEF walked, WalkInv
  <2>2. after = [f \in Folders |-> IF f \in Met(depths) THEN "RESTRICTED" ELSE tiers[f]]
    BY <1>5, <1>9 DEF Merged
  <2>3. Root(worker.tree) = Restricted
    BY <1>9 DEF Root
  <2> HIDE DEF merged, after, tiers
  <2>4. w.pc = "files" /\ w.tiers = after
    BY <1>1, <1>7, <1>9 DEF Idle
  <2>5. ASSUME NEW f \in Folders
        PROVE  /\ after[f] = "RESTRICTED" => f \in Within(Restricted, MaxDepth)
               /\ after[f] = "PUBLIC" => f \in Within(Public, MaxDepth)
               /\ Plain(Restricted) /\ f \in Within(Restricted, MaxDepth) =>
                     after[f] = "RESTRICTED"
               /\ Plain(Public) /\ f \in Within(Public, MaxDepth) => after[f] # None
    BY <1>2, <1>4, <2>1, <2>2, <2>3 DEF PublicWatched, Trees
  <2> QED
    BY <2>4, <2>5
<1> QED
  BY <1>1, <1>8, <1>9 DEF Trees

\* Nothing else changes what a walk has found, or begins a pass anywhere but at the
\* first root.
LEMMA TreeStep ==
    ASSUME ScheduleInv, TreeInv, [Next]_vars
    PROVE  TreeInv'
<1>0. DOMAIN worker = DOMAIN Idle /\ UNCHANGED parents
  BY DEF ScheduleInv, ClockTypes, Next, vars, ticks, sleeps, starts, walks, walked, passes, writes,
     fails, database_is_away, dies, comes_up, run_by_hand, hand_done
<1>1. parents' \in [Folders -> SUBSET Folders]
  BY <1>0 DEF TreeInv, WalkInv
<1>2. CASE starts
  <2> DEFINE before == [worker EXCEPT !.started = now, !.tiers = [f \in Folders |-> None]]
  <2>1. DOMAIN before = DOMAIN Idle /\ before.tiers = [f \in Folders |-> None]
    BY <1>0 DEF Idle
  <2> HIDE DEF before
  <2>2. PICK w : w = worker' /\ w = Walking(before, "PUBLIC")
    BY <1>2 DEF starts, before
  <2>3. Walked(w) /\ Walked(w)' = Walked(w)
    BY <1>0, <2>1, <2>2, WalkBegins, SameTree DEF Trees
  <2>4. w.pc = "walk" /\ w.tree = "PUBLIC" /\ w.tiers = [f \in Folders |-> None]
    BY <2>1, <2>2 DEF Walking, Idle
  <2>5. Walked(worker)'
    BY <2>2, <2>3
  <2> QED
    BY <1>1, <2>2, <2>4, <2>5 DEF TreeInv, WalkInv, WatchedAsFiled, WorkerAt, Trees
<1>3. CASE walks
  <2>1. PICK w : w = worker'
    OBVIOUS
  <2>2. WorkerAt("walk")
    BY <1>3 DEF walks
  <2>3. Walked(w) /\ w.tree = worker.tree /\ w.tiers = worker.tiers /\ w.pc = worker.pc
    BY <1>0, <1>3, <2>1, <2>2, WalkGoesOn DEF TreeInv, WalkInv
  <2>4. Walked(worker)'
    BY <1>0, <2>1, <2>3, SameTree
  <2>5. PublicWatched(w.tiers)' = PublicWatched(w.tiers)
    BY <1>0, SameTree
  <2> QED
    BY <1>1, <2>1, <2>2, <2>3, <2>4, <2>5 DEF TreeInv, WalkInv, WatchedAsFiled, WorkerAt
<1>4. CASE walked
  <2>1. PICK w : w = worker'
    OBVIOUS
  <2>2. CASE w.pc = "walk" /\ w.tree = "RESTRICTED" /\ Walked(w) /\ PublicWatched(w.tiers)
    <3>1. Walked(w)' = Walked(w) /\ PublicWatched(w.tiers)' = PublicWatched(w.tiers)
      BY <1>0, SameTree
    <3>2. Walked(worker)' /\ PublicWatched(worker.tiers)'
      BY <2>1, <2>2, <3>1
    <3> QED
      BY <1>1, <2>1, <2>2, <3>2 DEF TreeInv, WalkInv, WatchedAsFiled, WorkerAt, Trees
  <2>3. CASE /\ w.pc = "files"
             /\ \A f \in Folders :
                   LET tier == w.tiers[f]
                       under(root) == f \in Within(root, MaxDepth)
                   IN  /\ tier = "RESTRICTED" => under(Restricted)
                       /\ tier = "PUBLIC" => under(Public)
                       /\ Plain(Restricted) /\ under(Restricted) => tier = "RESTRICTED"
                       /\ Plain(Public) /\ under(Public) => tier # None
    <3>1. \A root, n : Within(root, n)' = Within(root, n) /\ Plain(root)' = Plain(root)
      BY <1>0, SameTree
    <3> QED
      BY <1>1, <2>1, <2>3, <3>1 DEF TreeInv, WalkInv, WatchedAsFiled, WorkerAt
  <2> QED
    BY <1>0, <1>4, <2>1, <2>2, <2>3, WalkEnds DEF TreeInv
<1>5. CASE ticks \/ run_by_hand \/ hand_done \/ UNCHANGED vars
  <2>1. /\ worker'.pc = worker.pc /\ worker'.tree = worker.tree /\ worker'.tiers = worker.tiers
        /\ worker'.depths = worker.depths /\ worker'.frontier = worker.frontier
    BY <1>0, <1>5 DEF ticks, run_by_hand, hand_done, vars, Idle
  <2>2. PICK w, v : w = worker /\ v = worker'
    OBVIOUS
  <2>3. Walked(v) <=> Walked(w)
    BY <2>1, <2>2 DEF Walked
  <2>4. Walked(v)' = Walked(v) /\ PublicWatched(w.tiers)' = PublicWatched(w.tiers)
    BY <1>0, SameTree
  <2>5. Walked(worker) => Walked(worker)'
    <3>1. Walked(worker) => Walked(v)
      BY <2>2, <2>3
    <3>2. Walked(v)' => Walked(worker)'
      BY <2>2
    <3> QED
      BY <2>4, <3>1, <3>2
  <2>6. PublicWatched(worker.tiers)' = PublicWatched(worker.tiers)
    BY <2>1, <2>2, <2>4
  <2>7. \A root, n : Within(root, n)' = Within(root, n) /\ Plain(root)' = Plain(root)
    BY <1>0, SameTree
  <2>8. WalkInv'
    BY <1>1, <2>1, <2>5, <2>6 DEF TreeInv, WalkInv, WorkerAt
  <2>9. WatchedAsFiled'
    BY <2>1, <2>7 DEF TreeInv, WatchedAsFiled, WorkerAt
  <2> QED
    BY <2>8, <2>9 DEF TreeInv
<1>6. CASE sleeps \/ passes \/ writes \/ fails \/ database_is_away \/ dies \/ comes_up
  <2>1. worker'.pc \notin {"walk", "files"}
    BY <1>0, <1>6
    DEF sleeps, passes, writes, fails, database_is_away, dies, comes_up, WorkerAt, Idle
  <2> QED
    BY <1>1, <2>1 DEF TreeInv, WalkInv, WatchedAsFiled, WorkerAt
<1> QED
  BY <1>2, <1>3, <1>4, <1>5, <1>6 DEF Next

\* "a document filed in Restricted/2026/ is no less restricted for it" (client.py,
\* service.py): a pass that walks both trees watches the folders of either down to the
\* cap, and the stricter tier wins, for any folders with any parents and any cap.
THEOREM WatchedAsFiledHolds == Spec => []WatchedAsFiled
<1>1. Init => TreeInv
  BY WorkerAssumption DEF Init, Idle, TreeInv, WalkInv, WatchedAsFiled, WorkerAt
<1>2. Spec => []ScheduleInv
  BY ScheduleInit, ScheduleStep, PTL DEF Spec
<1>3. ScheduleInv /\ TreeInv /\ [Next]_vars => TreeInv'
  BY TreeStep
<1>4. Spec => []TreeInv
  BY <1>1, <1>2, <1>3, PTL DEF Spec
<1>5. TreeInv => WatchedAsFiled
  BY DEF TreeInv
<1> QED
  BY <1>4, <1>5, PTL
=============================================================================
