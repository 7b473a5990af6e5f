--------------------------- MODULE JobQueueProofs ---------------------------
(***************************************************************************)
(* Proofs about JobQueue, for any set of jobs and workers and any          *)
(* MaxRetries.                                                             *)
(***************************************************************************)
EXTENDS JobQueue, TLAPS, FiniteSetTheorems

(***************************************************************************)
(* Rows and worker memory: what each UPDATE does to the fields, so that    *)
(* the proofs below need not open the records.                             *)
(***************************************************************************)

\* Every UPDATE of base_worker.py turns a well-formed row into a well-formed
\* one; this is what it does to each column.
LEMMA RowEdits ==
    ASSUME NEW row \in JobRows
    PROVE  /\ row.retry_count \in Nat
           /\ LET r == Cancelled(row) IN
                /\ r \in JobRows /\ r.status = "FAILED" /\ r.worker_id = row.worker_id
                /\ r.lease = row.lease /\ r.retry_count = row.retry_count
           /\ \A w \in Workers : LET r == Claimed(row, w) IN
                /\ r \in JobRows /\ r.status = "RUNNING" /\ r.worker_id = w
                /\ r.lease = "held" /\ r.retry_count = row.retry_count
           /\ LET r == Renewed(row) IN
                /\ r \in JobRows /\ r.status = row.status /\ r.worker_id = row.worker_id
                /\ r.lease = "held" /\ r.retry_count = row.retry_count
           /\ LET r == LeaseOver(row) IN
                /\ r \in JobRows /\ r.status = row.status /\ r.worker_id = row.worker_id
                /\ r.lease = "expired" /\ r.retry_count = row.retry_count
           /\ LET r == Completed(row) IN
                /\ r \in JobRows /\ r.status = "COMPLETED" /\ r.worker_id = row.worker_id
                /\ r.lease = None /\ r.retry_count = row.retry_count
           /\ LET r == Failed(row) IN
                /\ r \in JobRows /\ r.status = "FAILED" /\ r.worker_id = row.worker_id
                /\ r.lease = None /\ r.retry_count = row.retry_count
           /\ LET r == Abandoned(row) IN
                /\ r \in JobRows /\ r.status = "FAILED" /\ r.worker_id = None
                /\ r.lease = None /\ r.retry_count = row.retry_count
           /\ LET r == Requeued(row) IN
                /\ r \in JobRows /\ r.status = "PENDING" /\ r.worker_id = None
                /\ r.lease = None /\ r.retry_count = row.retry_count + 1
<1> USE QueueAssumption DEF JobRows, JobStatus, Done
<1>0. row.retry_count \in Nat /\ row.retry_count + 1 \in Nat
  OBVIOUS
<1>1. LET r == Requeued(row) IN
        /\ r \in JobRows /\ r.status = "PENDING" /\ r.worker_id = None
        /\ r.lease = None /\ r.retry_count = row.retry_count + 1
  BY <1>0 DEF Requeued
<1>2. LET r == Cancelled(row) IN
        /\ r \in JobRows /\ r.status = "FAILED" /\ r.worker_id = row.worker_id
        /\ r.lease = row.lease /\ r.retry_count = row.retry_count
  BY DEF Cancelled
<1>3. \A w \in Workers : LET r == Claimed(row, w) IN
        /\ r \in JobRows /\ r.status = "RUNNING" /\ r.worker_id = w
        /\ r.lease = "held" /\ r.retry_count = row.retry_count
  BY DEF Claimed
<1>4. LET r == Renewed(row) IN
        /\ r \in JobRows /\ r.status = row.status /\ r.worker_id = row.worker_id
        /\ r.lease = "held" /\ r.retry_count = row.retry_count
  BY DEF Renewed
<1>5. LET r == LeaseOver(row) IN
        /\ r \in JobRows /\ r.status = row.status /\ r.worker_id = row.worker_id
        /\ r.lease = "expired" /\ r.retry_count = row.retry_count
  BY DEF LeaseOver
<1>6. LET r == Completed(row) IN
        /\ r \in JobRows /\ r.status = "COMPLETED" /\ r.worker_id = row.worker_id
        /\ r.lease = None /\ r.retry_count = row.retry_count
  BY DEF Completed
<1>7. LET r == Failed(row) IN
        /\ r \in JobRows /\ r.status = "FAILED" /\ r.worker_id = row.worker_id
        /\ r.lease = None /\ r.retry_count = row.retry_count
  BY DEF Failed
<1>8. LET r == Abandoned(row) IN
        /\ r \in JobRows /\ r.status = "FAILED" /\ r.worker_id = None
        /\ r.lease = None /\ r.retry_count = row.retry_count
  BY DEF Abandoned
<1> HIDE DEF JobRows, JobStatus, Done
<1> QED
  BY <1>0, <1>1, <1>2, <1>3, <1>4, <1>5, <1>6, <1>7, <1>8

\* The row inserted by a producer.
LEMMA NewRows ==
    /\ NoRow \in JobRows /\ NoRow.status = "ABSENT" /\ NoRow.worker_id = None
    /\ NoRow.lease = None /\ NoRow.retry_count = 0
    /\ NewRow \in JobRows /\ NewRow.status = "PENDING" /\ NewRow.worker_id = None
    /\ NewRow.lease = None /\ NewRow.retry_count = 0
BY QueueAssumption DEF NoRow, NewRow, JobRows, JobStatus, Done

\* The same for the worker's memory.
LEMMA WorkerEdits ==
    /\ IdleWorker \in WorkerStates /\ IdleWorker.pc = "idle" /\ IdleWorker.job = None
    /\ \A j \in Jobs, n \in Nat :
          /\ Claiming(j, n) \in WorkerStates /\ Claiming(j, n).pc = "processing"
          /\ Claiming(j, n).job = j /\ Claiming(j, n).retry_count = n
    /\ \A ws \in WorkerStates, o \in Outcomes :
          /\ Ended(ws, o) \in WorkerStates /\ Ended(ws, o).pc = "finishing"
          /\ Ended(ws, o).job = ws.job /\ Ended(ws, o).retry_count = ws.retry_count
    /\ \A ws \in WorkerStates : ws.retry_count \in Nat /\ ws.job \in Jobs \cup {None}
<1> USE DEF WorkerStates, Outcomes
<1>1. IdleWorker \in WorkerStates /\ IdleWorker.pc = "idle" /\ IdleWorker.job = None
  BY DEF IdleWorker
<1>2. ASSUME NEW j \in Jobs, NEW n \in Nat
      PROVE  /\ Claiming(j, n) \in WorkerStates /\ Claiming(j, n).pc = "processing"
             /\ Claiming(j, n).job = j /\ Claiming(j, n).retry_count = n
  BY DEF Claiming
<1>3. ASSUME NEW ws \in WorkerStates, NEW o \in Outcomes
      PROVE  /\ Ended(ws, o) \in WorkerStates /\ Ended(ws, o).pc = "finishing"
             /\ Ended(ws, o).job = ws.job /\ Ended(ws, o).retry_count = ws.retry_count
  BY DEF Ended
<1>4. \A ws \in WorkerStates : ws.retry_count \in Nat /\ ws.job \in Jobs \cup {None}
  OBVIOUS
<1> HIDE DEF WorkerStates, Outcomes
<1> QED
  BY <1>1, <1>2, <1>3, <1>4

(***************************************************************************)
(* Types.                                                                  *)
(***************************************************************************)

\* base_worker.py only ever writes well-formed rows, and a worker holds a job
\* exactly while it is not idle.
THEOREM QueueTypeCorrect == QueueSpec => []QueueTypeOK
<1>1. QueueInit => QueueTypeOK
  BY NewRows, WorkerEdits DEF QueueInit, QueueTypeOK
<1>2. QueueTypeOK /\ [QueueNext]_queueVars => QueueTypeOK'
  <2> SUFFICES ASSUME QueueTypeOK, [QueueNext]_queueVars PROVE QueueTypeOK'
    OBVIOUS
  <2> USE RowEdits, WorkerEdits, QueueAssumption DEF QueueTypeOK
  <2>1. ASSUME NEW j \in Jobs, AddJob(j) PROVE QueueTypeOK'
    BY <2>1, NewRows DEF AddJob
  <2>2. ASSUME NEW J \in SUBSET Jobs, CancelPending(J) PROVE QueueTypeOK'
    BY <2>2 DEF CancelPending
  <2>3. ASSUME NEW w \in Workers, NEW j \in Jobs, pick_job(w, j) PROVE QueueTypeOK'
    BY <2>3 DEF pick_job
  <2>4. ASSUME NEW w \in Workers, renew_once(w) PROVE QueueTypeOK'
    BY <2>4 DEF renew_once
  <2>5. ASSUME NEW j \in Jobs, ExpireLease(j) PROVE QueueTypeOK'
    BY <2>5 DEF ExpireLease
  <2>6. ASSUME NEW w \in Workers, reap_stuck_jobs(w) PROVE QueueTypeOK'
    BY <2>6 DEF reap_stuck_jobs, Reaped
  <2>7. ASSUME NEW w \in Workers, NEW o \in Outcomes, process_job_ends(w, o) PROVE QueueTypeOK'
    BY <2>7 DEF process_job_ends
  <2>8. ASSUME NEW w \in Workers, mark_job_completed(w) PROVE QueueTypeOK'
    BY <2>8 DEF mark_job_completed
  <2>9. ASSUME NEW w \in Workers, complete_raises(w) PROVE QueueTypeOK'
    BY <2>9 DEF complete_raises, Outcomes
  <2>10. ASSUME NEW w \in Workers, handle_job_retry_or_fail(w) PROVE QueueTypeOK'
    BY <2>10 DEF handle_job_retry_or_fail
  <2>11. ASSUME NEW w \in Workers, mark_job_failed(w) PROVE QueueTypeOK'
    BY <2>11 DEF mark_job_failed
  <2>12. ASSUME NEW w \in Workers, Crash(w) PROVE QueueTypeOK'
    BY <2>12 DEF Crash
  <2>13. CASE UNCHANGED queueVars
    BY <2>13 DEF queueVars
  <2> QED
    BY <2>1, <2>2, <2>3, <2>4, <2>5, <2>6, <2>7, <2>8, <2>9, <2>10, <2>11, <2>12, <2>13
       DEF QueueNext
<1> QED
  BY <1>1, <1>2, PTL DEF QueueSpec

(***************************************************************************)
(* The retry ceiling, whatever leases are lost.                            *)
(***************************************************************************)

\* A set of retry counts below MaxRetries has at most MaxRetries members.
LEMMA RetryCountsBound ==
    ASSUME NEW X \in SUBSET (0..(MaxRetries - 1))
    PROVE  IsFiniteSet(X) /\ Cardinality(X) \in Nat /\ Cardinality(X) <= MaxRetries
<1>1. /\ IsFiniteSet(0..(MaxRetries - 1))
      /\ Cardinality(0..(MaxRetries - 1)) = MaxRetries
  BY FS_Interval, QueueAssumption
<1>2. IsFiniteSet(X) /\ Cardinality(X) <= MaxRetries
  BY <1>1, FS_Subset
<1> QED
  BY <1>2, FS_CardinalityType

\* The sum stays within 2 * MaxRetries when the count stands still and no claim
\* is added, when the count is within MaxRetries, and when a late worker's retry
\* moves from "may still be added" to "counted".
LEMMA AccountStep ==
    ASSUME NEW S, IsFiniteSet(S), NEW T, IsFiniteSet(T), Cardinality(T) <= MaxRetries,
           NEW n \in Nat, NEW m \in Nat, n + Cardinality(S) <= 2 * MaxRetries,
           \/ m = n /\ T \subseteq S
           \/ m <= MaxRetries
           \/ m = n + 1 /\ \E x \in S : T \subseteq S \ {x}
    PROVE  m + Cardinality(T) <= 2 * MaxRetries
<1>1. Cardinality(S) \in Nat /\ Cardinality(T) \in Nat
  BY FS_CardinalityType
<1>2. CASE m = n /\ T \subseteq S
  <2>1. Cardinality(T) <= Cardinality(S)
    BY <1>2, FS_Subset
  <2> QED
    BY <1>1, <1>2, <2>1, QueueAssumption
<1>3. CASE m <= MaxRetries
  BY <1>1, <1>3, QueueAssumption
<1>4. CASE m = n + 1 /\ \E x \in S : T \subseteq S \ {x}
  <2>1. PICK x \in S : T \subseteq S \ {x}
    BY <1>4
  <2>2. IsFiniteSet(S \ {x}) /\ Cardinality(S \ {x}) = Cardinality(S) - 1
    BY FS_RemoveElement
  <2>3. Cardinality(T) <= Cardinality(S \ {x})
    BY <2>1, <2>2, FS_Subset
  <2> QED
    BY <1>1, <1>4, <2>2, <2>3, QueueAssumption
<1> QED
  BY <1>2, <1>3, <1>4

\* The inductive invariant behind the ceiling.
StaleInv == QueueTypeOK /\ OwnershipMatchesStatus /\ ClaimsDistinct /\ RetriesAccounted

\* Ownership and lease follow the status through every transaction.
LEMMA OwnershipStep ==
    QueueTypeOK /\ OwnershipMatchesStatus /\ [QueueNext]_queueVars => OwnershipMatchesStatus'
<1> SUFFICES ASSUME QueueTypeOK, OwnershipMatchesStatus, [QueueNext]_queueVars
             PROVE  OwnershipMatchesStatus'
  OBVIOUS
<1> USE RowEdits, WorkerEdits, QueueAssumption DEF QueueTypeOK, OwnershipMatchesStatus
<1>1. ASSUME NEW j \in Jobs, AddJob(j) PROVE OwnershipMatchesStatus'
  BY <1>1, NewRows DEF AddJob
<1>2. ASSUME NEW J \in SUBSET Jobs, CancelPending(J) PROVE OwnershipMatchesStatus'
  BY <1>2 DEF CancelPending
<1>3. ASSUME NEW w \in Workers, NEW j \in Jobs, pick_job(w, j) PROVE OwnershipMatchesStatus'
  BY <1>3 DEF pick_job
<1>4. ASSUME NEW w \in Workers, renew_once(w) PROVE OwnershipMatchesStatus'
  BY <1>4 DEF renew_once, RenewMatches
<1>5. ASSUME NEW j \in Jobs, ExpireLease(j) PROVE OwnershipMatchesStatus'
  BY <1>5 DEF ExpireLease
<1>6. ASSUME NEW w \in Workers, reap_stuck_jobs(w) PROVE OwnershipMatchesStatus'
  BY <1>6 DEF reap_stuck_jobs, Reaped, Expired
<1>7. ASSUME NEW w \in Workers, mark_job_completed(w) PROVE OwnershipMatchesStatus'
  <2>1. workers[w].job \in Jobs
    BY <1>7 DEF mark_job_completed
  <2> QED
    BY <1>7, <2>1 DEF mark_job_completed
<1>8. ASSUME NEW w \in Workers, handle_job_retry_or_fail(w) PROVE OwnershipMatchesStatus'
  <2>1. workers[w].job \in Jobs
    BY <1>8 DEF handle_job_retry_or_fail
  <2> QED
    BY <1>8, <2>1 DEF handle_job_retry_or_fail
<1>9. ASSUME NEW w \in Workers, mark_job_failed(w) PROVE OwnershipMatchesStatus'
  <2>1. workers[w].job \in Jobs
    BY <1>9 DEF mark_job_failed
  <2> QED
    BY <1>9, <2>1 DEF mark_job_failed
<1>10. CASE UNCHANGED jobs
  BY <1>10
<1> QED
  BY <1>1, <1>2, <1>3, <1>4, <1>5, <1>6, <1>7, <1>8, <1>9, <1>10
     DEF QueueNext, process_job_ends, complete_raises, Crash, queueVars

\* No transaction lets two workers on one job hold the same retry_count.
LEMMA ClaimsStep ==
    QueueTypeOK /\ ClaimsDistinct /\ [QueueNext]_queueVars => ClaimsDistinct'
<1> SUFFICES ASSUME QueueTypeOK, ClaimsDistinct, [QueueNext]_queueVars
             PROVE  ClaimsDistinct'
  OBVIOUS
<1>1. ASSUME NEW j \in Jobs, AddJob(j) PROVE ClaimsDistinct'
  <2>1. workers' = workers
    BY <1>1 DEF AddJob
  <2>2. \A w \in Workers : workers[w].pc # "idle" => jobs'[workers[w].job] = jobs[workers[w].job]
    BY <1>1 DEF AddJob, ClaimsDistinct, QueueTypeOK
  <2>3. SUFFICES ASSUME NEW w \in Workers, workers'[w].pc # "idle"
                 PROVE  /\ jobs'[workers'[w].job].status # "ABSENT"
                        /\ workers'[w].retry_count <= jobs'[workers'[w].job].retry_count
                        /\ jobs'[workers'[w].job].status = "PENDING" =>
                              workers'[w].retry_count < jobs'[workers'[w].job].retry_count
                        /\ \A v \in Workers :
                              (v # w /\ workers'[v].job = workers'[w].job)
                                 => workers'[v].retry_count # workers'[w].retry_count
    BY Zenon DEF ClaimsDistinct
  <2> QED
    BY <2>1, <2>2, <2>3 DEF ClaimsDistinct
<1>2. ASSUME NEW w \in Workers, NEW j \in Jobs, pick_job(w, j) PROVE ClaimsDistinct'
  <2>1. /\ workers'[w].job = j
        /\ workers'[w].retry_count = jobs[j].retry_count
        /\ \A v \in Workers \ {w} : workers'[v] = workers[v]
    BY <1>2, WorkerEdits, RowEdits DEF pick_job, QueueTypeOK
  <2>2. /\ jobs'[j].status = "RUNNING" /\ jobs'[j].retry_count = jobs[j].retry_count
        /\ \A i \in Jobs \ {j} : jobs'[i] = jobs[i]
    BY <1>2, RowEdits DEF pick_job, QueueTypeOK
  <2>3. \A v \in Workers : workers[v].pc # "idle" /\ workers[v].job = j =>
           workers[v].retry_count < jobs[j].retry_count
    BY <1>2 DEF pick_job, ClaimsDistinct
  <2>4. jobs[j].retry_count \in Nat /\ \A v \in Workers : workers[v].retry_count \in Nat
    BY RowEdits, WorkerEdits DEF QueueTypeOK
  <2>5. \A v \in Workers : (workers[v].pc = "idle") <=> (workers[v].job \notin Jobs)
    BY WorkerEdits, QueueAssumption DEF QueueTypeOK
  <2>6. SUFFICES ASSUME NEW v \in Workers, workers'[v].pc # "idle"
                 PROVE  /\ jobs'[workers'[v].job].status # "ABSENT"
                        /\ workers'[v].retry_count <= jobs'[workers'[v].job].retry_count
                        /\ jobs'[workers'[v].job].status = "PENDING" =>
                              workers'[v].retry_count < jobs'[workers'[v].job].retry_count
                        /\ \A u \in Workers :
                              (u # v /\ workers'[u].job = workers'[v].job)
                                 => workers'[u].retry_count # workers'[v].retry_count
    BY Zenon DEF ClaimsDistinct
  <2>7. CASE v = w
    BY <2>1, <2>2, <2>3, <2>4, <2>5, <2>7
  <2>8. CASE v # w
    BY <2>1, <2>2, <2>3, <2>4, <2>5, <2>6, <2>8 DEF ClaimsDistinct
  <2> QED
    BY <2>7, <2>8
<1> USE RowEdits, WorkerEdits, QueueAssumption DEF QueueTypeOK, ClaimsDistinct
<1>3. ASSUME NEW J \in SUBSET Jobs, CancelPending(J) PROVE ClaimsDistinct'
  BY <1>3 DEF CancelPending
<1>4. ASSUME NEW w \in Workers, renew_once(w) PROVE ClaimsDistinct'
  BY <1>4 DEF renew_once, RenewMatches
<1>5. ASSUME NEW j \in Jobs, ExpireLease(j) PROVE ClaimsDistinct'
  BY <1>5 DEF ExpireLease
<1>6. ASSUME NEW w \in Workers, reap_stuck_jobs(w) PROVE ClaimsDistinct'
  BY <1>6 DEF reap_stuck_jobs, Reaped, Expired
<1>7. ASSUME NEW w \in Workers, NEW o \in Outcomes, process_job_ends(w, o) PROVE ClaimsDistinct'
  BY <1>7 DEF process_job_ends
<1>8. ASSUME NEW w \in Workers, mark_job_completed(w) PROVE ClaimsDistinct'
  BY <1>8 DEF mark_job_completed
<1>9. ASSUME NEW w \in Workers, complete_raises(w) PROVE ClaimsDistinct'
  BY <1>9 DEF complete_raises, Outcomes
<1>10. ASSUME NEW w \in Workers, handle_job_retry_or_fail(w) PROVE ClaimsDistinct'
  <2>1. workers[w].job \in Jobs
    BY <1>10 DEF handle_job_retry_or_fail
  <2>2. \A j \in Jobs : \/ jobs'[j] = jobs[j]
                        \/ jobs'[j] = Failed(jobs[j])
                        \/ jobs'[j] = Requeued(jobs[j])
    BY <1>10, <2>1 DEF handle_job_retry_or_fail
  <2> QED
    BY <1>10, <2>1, <2>2 DEF handle_job_retry_or_fail
<1>11. ASSUME NEW w \in Workers, mark_job_failed(w) PROVE ClaimsDistinct'
  BY <1>11 DEF mark_job_failed
<1>12. ASSUME NEW w \in Workers, Crash(w) PROVE ClaimsDistinct'
  BY <1>12 DEF Crash
<1>13. CASE UNCHANGED queueVars
  BY <1>13 DEF queueVars
<1> QED
  BY <1>1, <1>2, <1>3, <1>4, <1>5, <1>6, <1>7, <1>8, <1>9, <1>10, <1>11, <1>12, <1>13
     DEF QueueNext

\* No transaction makes a job's used and still possible retries exceed the ceiling.
LEMMA AccountedStep ==
    QueueTypeOK /\ ClaimsDistinct /\ RetriesAccounted /\ QueueTypeOK' /\ [QueueNext]_queueVars
      => RetriesAccounted'
<1> SUFFICES ASSUME QueueTypeOK, ClaimsDistinct, RetriesAccounted, QueueTypeOK',
                    [QueueNext]_queueVars, NEW i \in Jobs
             PROVE  jobs'[i].retry_count + Cardinality(PendingRetries(i)') <= 2 * MaxRetries
  BY DEF RetriesAccounted
<1> DEFINE n == jobs[i].retry_count
           m == jobs'[i].retry_count
           S == PendingRetries(i)
           T == PendingRetries(i)'
<1>0. /\ n \in Nat /\ m \in Nat
      /\ IsFiniteSet(S) /\ IsFiniteSet(T)
      /\ Cardinality(T) <= MaxRetries
      /\ n + Cardinality(S) <= 2 * MaxRetries
  <2>1. n \in Nat /\ m \in Nat
    BY RowEdits DEF QueueTypeOK
  <2>2. IsFiniteSet(S) /\ n + Cardinality(S) <= 2 * MaxRetries
    BY RetryCountsBound DEF RetriesAccounted, PendingRetries
  <2>3. IsFiniteSet(T) /\ Cardinality(T) <= MaxRetries
    <3>1. T \in SUBSET (0..(MaxRetries - 1))
      BY DEF PendingRetries
    <3> QED
      BY <3>1, RetryCountsBound
  <2> QED
    BY <2>1, <2>2, <2>3
<1> SUFFICES \/ m = n /\ T \subseteq S
             \/ m <= MaxRetries
             \/ m = n + 1 /\ \E x \in S : T \subseteq S \ {x}
  <2> HIDE DEF n, m, S, T
  <2>1. m + Cardinality(T) <= 2 * MaxRetries
    BY <1>0, AccountStep
  <2> QED
    BY <2>1 DEF m, T
<1> USE RowEdits, WorkerEdits, QueueAssumption DEF QueueTypeOK
<1>2. ASSUME NEW j \in Jobs, AddJob(j) PROVE T = S /\ (m = n \/ m <= MaxRetries)
  BY <1>2, NewRows DEF AddJob, PendingRetries, WorksOn
<1>3. ASSUME NEW J \in SUBSET Jobs, CancelPending(J) PROVE m = n /\ T \subseteq S
  BY <1>3 DEF CancelPending, PendingRetries, WorksOn
<1>4. ASSUME NEW w \in Workers, NEW j \in Jobs, pick_job(w, j)
      PROVE  m = n /\ (T \subseteq S \/ m <= MaxRetries)
  <2>1. m = n
    BY <1>4 DEF pick_job
  <2>2. CASE i = j /\ n < MaxRetries
    BY <2>1, <2>2
  <2>3. CASE ~(i = j /\ n < MaxRetries)
    BY <1>4, <2>3, <1>0 DEF pick_job, PendingRetries, WorksOn
  <2> QED
    BY <2>1, <2>2, <2>3
<1>5. ASSUME NEW w \in Workers, renew_once(w) PROVE m = n /\ T \subseteq S
  BY <1>5 DEF renew_once, PendingRetries, WorksOn
<1>6. ASSUME NEW j \in Jobs, ExpireLease(j) PROVE m = n /\ T \subseteq S
  BY <1>6 DEF ExpireLease, PendingRetries, WorksOn
<1>7. ASSUME NEW w \in Workers, reap_stuck_jobs(w)
      PROVE  T \subseteq S /\ (m = n \/ m <= MaxRetries)
  <2>1. T \subseteq S
    BY <1>7 DEF reap_stuck_jobs, PendingRetries, WorksOn
  <2>2. m = n \/ m <= MaxRetries
    BY <1>7, <1>0 DEF reap_stuck_jobs, Reaped
  <2> QED
    BY <2>1, <2>2
<1>8. ASSUME NEW w \in Workers, NEW o \in Outcomes, process_job_ends(w, o)
      PROVE  m = n /\ T \subseteq S
  BY <1>8 DEF process_job_ends, PendingRetries, WorksOn
<1>9. ASSUME NEW w \in Workers, mark_job_completed(w) PROVE m = n /\ T \subseteq S
  <2>1. m = n
    BY <1>9 DEF mark_job_completed
  <2> QED
    BY <1>9, <2>1 DEF mark_job_completed, PendingRetries, WorksOn
<1>10. ASSUME NEW w \in Workers, complete_raises(w) PROVE m = n /\ T \subseteq S
  BY <1>10 DEF complete_raises, PendingRetries, WorksOn, Outcomes
<1>11. ASSUME NEW w \in Workers, handle_job_retry_or_fail(w)
       PROVE  \/ m = n /\ T \subseteq S
              \/ m = n + 1 /\ \E x \in S : T \subseteq S \ {x}
  <2>1. workers[w].job \in Jobs
    BY <1>11 DEF handle_job_retry_or_fail
  <2>2. T \subseteq S
    BY <1>11 DEF handle_job_retry_or_fail, PendingRetries, WorksOn
  <2>3. CASE i = workers[w].job /\ RetriesLeft(w)
    <3>1. m = n + 1
      BY <1>11, <2>3 DEF handle_job_retry_or_fail
    <3>2. workers[w].retry_count \in S
      BY <1>11, <2>3 DEF handle_job_retry_or_fail, PendingRetries, WorksOn, RetriesLeft
    <3>3. workers[w].retry_count \notin T
      BY <1>11, <2>3 DEF handle_job_retry_or_fail, PendingRetries, WorksOn, ClaimsDistinct
    <3> QED
      BY <2>2, <3>1, <3>2, <3>3
  <2>4. CASE ~(i = workers[w].job /\ RetriesLeft(w))
    <3>1. m = n
      BY <1>11, <2>1, <2>4 DEF handle_job_retry_or_fail
    <3> QED
      BY <2>2, <3>1
  <2> QED
    BY <2>3, <2>4
<1>12. ASSUME NEW w \in Workers, mark_job_failed(w) PROVE m = n /\ T \subseteq S
  <2>1. m = n
    BY <1>12 DEF mark_job_failed
  <2> QED
    BY <1>12, <2>1 DEF mark_job_failed, PendingRetries, WorksOn
<1>13. ASSUME NEW w \in Workers, Crash(w) PROVE m = n /\ T \subseteq S
  BY <1>13 DEF Crash, PendingRetries, WorksOn
<1>14. CASE UNCHANGED queueVars
  BY <1>14 DEF queueVars, PendingRetries, WorksOn
<1> QED
  <2> HIDE DEF n, m, S, T, QueueTypeOK
  <2> QED
    BY <1>2, <1>3, <1>4, <1>5, <1>6, <1>7, <1>8, <1>9, <1>10, <1>11, <1>12, <1>13, <1>14
       DEF QueueNext

\* The invariant that counts the claims of late workers holds throughout.
THEOREM ClaimsAccounted == QueueSpec => []StaleInv
<1>1. QueueInit => StaleInv
  <2> SUFFICES ASSUME QueueInit PROVE StaleInv
    OBVIOUS
  <2>1. QueueTypeOK /\ OwnershipMatchesStatus /\ ClaimsDistinct
    BY NewRows, WorkerEdits
       DEF QueueInit, QueueTypeOK, OwnershipMatchesStatus, ClaimsDistinct
  <2>2. ASSUME NEW j \in Jobs
        PROVE  jobs[j].retry_count + Cardinality(PendingRetries(j)) <= 2 * MaxRetries
    <3>1. PendingRetries(j) = {}
      BY WorkerEdits DEF QueueInit, PendingRetries, WorksOn
    <3> QED
      BY <3>1, NewRows, FS_EmptySet, QueueAssumption DEF QueueInit
  <2> QED
    BY <2>1, <2>2 DEF StaleInv, RetriesAccounted
<1>2. StaleInv /\ QueueTypeOK' /\ [QueueNext]_queueVars => StaleInv'
  BY OwnershipStep, ClaimsStep, AccountedStep DEF StaleInv
<1> QED
  BY <1>1, <1>2, QueueTypeCorrect, PTL DEF QueueSpec

\* However leases are lost and workers come back late, base_worker.py puts a job
\* back in the queue at most 2 * MAX_JOB_RETRIES times.
THEOREM RetryCeilingHolds == QueueSpec => []RetryCeiling
<1>1. StaleInv => RetryCeiling
  <2> SUFFICES ASSUME StaleInv, NEW j \in Jobs PROVE jobs[j].retry_count <= 2 * MaxRetries
    BY DEF RetryCeiling
  <2>1. Cardinality(PendingRetries(j)) \in Nat
    BY RetryCountsBound DEF PendingRetries
  <2>2. jobs[j].retry_count \in Nat
    BY RowEdits DEF StaleInv, QueueTypeOK
  <2> QED
    BY <2>1, <2>2, QueueAssumption DEF StaleInv, RetriesAccounted
<1> QED
  BY <1>1, ClaimsAccounted, PTL

\* A RUNNING row always has an owner and a lease, so the reaper can always find
\* it; a PENDING one has neither.
THEOREM OwnershipHolds == QueueSpec => []OwnershipMatchesStatus
<1>1. QueueInit => OwnershipMatchesStatus
  BY NewRows DEF QueueInit, OwnershipMatchesStatus
<1> QED
  BY <1>1, OwnershipStep, QueueTypeCorrect, PTL DEF QueueSpec

\* Every transaction leaves the newest claim of a RUNNING job with its row: a claim
\* finds all others below the row's count, and no UPDATE lowers a count or names
\* another worker.
LEMMA NewestStep ==
    /\ QueueTypeOK /\ OwnershipMatchesStatus /\ ClaimsDistinct /\ NewestClaimOwns
    /\ [QueueNext]_queueVars
    => NewestClaimOwns'
<1> SUFFICES ASSUME QueueTypeOK, OwnershipMatchesStatus, ClaimsDistinct, NewestClaimOwns,
                    [QueueNext]_queueVars
             PROVE  NewestClaimOwns'
  OBVIOUS
<1> USE RowEdits, NewRows, WorkerEdits, QueueAssumption
        DEF QueueTypeOK, NewestClaimOwns, WorksOn
<1>1. ASSUME NEW j \in Jobs, AddJob(j) PROVE NewestClaimOwns'
  BY <1>1 DEF AddJob
<1>2. ASSUME NEW J \in SUBSET Jobs, CancelPending(J) PROVE NewestClaimOwns'
  BY <1>2 DEF CancelPending
<1>3. ASSUME NEW w \in Workers, NEW j \in Jobs, pick_job(w, j) PROVE NewestClaimOwns'
  BY <1>3 DEF pick_job, ClaimsDistinct
<1>4. ASSUME NEW w \in Workers, renew_once(w) PROVE NewestClaimOwns'
  BY <1>4 DEF renew_once
<1>5. ASSUME NEW j \in Jobs, ExpireLease(j) PROVE NewestClaimOwns'
  BY <1>5 DEF ExpireLease
<1>6. ASSUME NEW w \in Workers, reap_stuck_jobs(w) PROVE NewestClaimOwns'
  BY <1>6 DEF reap_stuck_jobs, Reaped, Expired
<1>7. ASSUME NEW w \in Workers, NEW o \in Outcomes, process_job_ends(w, o)
      PROVE  NewestClaimOwns'
  BY <1>7 DEF process_job_ends
<1>8. ASSUME NEW w \in Workers, mark_job_completed(w) PROVE NewestClaimOwns'
  BY <1>8 DEF mark_job_completed
<1>9. ASSUME NEW w \in Workers, complete_raises(w) PROVE NewestClaimOwns'
  BY <1>9 DEF complete_raises, Outcomes
<1>10. ASSUME NEW w \in Workers, handle_job_retry_or_fail(w) PROVE NewestClaimOwns'
  <2>1. workers[w].job \in Jobs
    BY <1>10 DEF handle_job_retry_or_fail
  <2>2. \A j \in Jobs : \/ jobs'[j] = jobs[j]
                        \/ jobs'[j] = Failed(jobs[j])
                        \/ jobs'[j] = Requeued(jobs[j])
    BY <1>10, <2>1 DEF handle_job_retry_or_fail
  <2> QED
    BY <1>10, <2>1, <2>2 DEF handle_job_retry_or_fail
<1>11. ASSUME NEW w \in Workers, mark_job_failed(w) PROVE NewestClaimOwns'
  BY <1>11 DEF mark_job_failed
<1>12. ASSUME NEW w \in Workers, Crash(w) PROVE NewestClaimOwns'
  BY <1>12 DEF Crash
<1>13. CASE UNCHANGED queueVars
  BY <1>13 DEF queueVars
<1> QED
  BY <1>1, <1>2, <1>3, <1>4, <1>5, <1>6, <1>7, <1>8, <1>9, <1>10, <1>11, <1>12, <1>13
     DEF QueueNext

\* However many workers lose their lease and come back late, the row of a RUNNING job
\* and its lease are the newest claim's: every other worker on it claimed it earlier.
THEOREM NewestClaimHolds == QueueSpec => []NewestClaimOwns
<1>1. QueueInit => NewestClaimOwns
  BY WorkerEdits DEF QueueInit, NewestClaimOwns, WorksOn
<1>2. StaleInv /\ NewestClaimOwns /\ [QueueNext]_queueVars => NewestClaimOwns'
  BY NewestStep DEF StaleInv
<1> QED
  BY <1>1, <1>2, ClaimsAccounted, PTL DEF QueueSpec

(***************************************************************************)
(* Where renewals keep up: the stages outside LeaseLoss.                   *)
(***************************************************************************)

\* The inductive invariant: a worker works on jobs of its stage, and where renewals keep
\* up it is the one the row names, at the count it claimed, and its lease has not run out.
HeldInv ==
    \A w \in Workers : workers[w].pc # "idle" =>
        /\ JobStage[workers[w].job] = WorkerStage[w]
        /\ WorkerStage[w] \notin LeaseLoss =>
              LET row == jobs[workers[w].job] IN
              /\ row.status = "RUNNING" /\ row.worker_id = w
              /\ row.lease = "held" /\ row.retry_count = workers[w].retry_count

\* Only a dead worker's job is reaped there, so no step takes a job from a live one.
LEMMA HeldStep == QueueTypeOK /\ HeldInv /\ [QueueNext]_queueVars => HeldInv'
<1> SUFFICES ASSUME QueueTypeOK, HeldInv, [QueueNext]_queueVars PROVE HeldInv'
  OBVIOUS
<1> USE RowEdits, WorkerEdits, QueueAssumption DEF QueueTypeOK, HeldInv
<1>1. ASSUME NEW j \in Jobs, AddJob(j) PROVE HeldInv'
  BY <1>1 DEF AddJob
<1>2. ASSUME NEW J \in SUBSET Jobs, CancelPending(J) PROVE HeldInv'
  BY <1>2 DEF CancelPending
<1>3. ASSUME NEW w \in Workers, NEW j \in Jobs, pick_job(w, j) PROVE HeldInv'
  BY <1>3 DEF pick_job
<1>4. ASSUME NEW w \in Workers, renew_once(w) PROVE HeldInv'
  BY <1>4 DEF renew_once
<1>5. ASSUME NEW j \in Jobs, ExpireLease(j) PROVE HeldInv'
  BY <1>5 DEF ExpireLease, Attended, WorksOn
<1>6. ASSUME NEW w \in Workers, reap_stuck_jobs(w) PROVE HeldInv'
  BY <1>6 DEF reap_stuck_jobs, Expired
<1>7. ASSUME NEW w \in Workers, NEW o \in Outcomes, process_job_ends(w, o) PROVE HeldInv'
  BY <1>7 DEF process_job_ends
<1>8. ASSUME NEW w \in Workers, mark_job_completed(w) PROVE HeldInv'
  BY <1>8 DEF mark_job_completed
<1>9. ASSUME NEW w \in Workers, complete_raises(w) PROVE HeldInv'
  BY <1>9 DEF complete_raises, Outcomes
<1>10. ASSUME NEW w \in Workers, handle_job_retry_or_fail(w) PROVE HeldInv'
  BY <1>10 DEF handle_job_retry_or_fail
<1>11. ASSUME NEW w \in Workers, mark_job_failed(w) PROVE HeldInv'
  BY <1>11 DEF mark_job_failed
<1>12. ASSUME NEW w \in Workers, Crash(w) PROVE HeldInv'
  BY <1>12 DEF Crash
<1>13. CASE UNCHANGED queueVars
  BY <1>13 DEF queueVars
<1> QED
  BY <1>1, <1>2, <1>3, <1>4, <1>5, <1>6, <1>7, <1>8, <1>9, <1>10, <1>11, <1>12, <1>13
     DEF QueueNext

\* In a stage where renewals keep up, a worker's claim is good until it has written the
\* outcome.
THEOREM JobsHeld == QueueSpec => []HeldInv
<1>1. QueueInit => HeldInv
  BY WorkerEdits DEF QueueInit, HeldInv
<1> QED
  BY <1>1, HeldStep, QueueTypeCorrect, PTL DEF QueueSpec

\* While renewals keep up, no job is worked on by two workers at once.
THEOREM SingleExecutionHolds ==
    ASSUME LeaseLoss = {}
    PROVE  QueueSpec => []SingleExecution
<1>1. HeldInv => SingleExecution
  BY DEF HeldInv, SingleExecution, WorksOn
<1> QED
  BY <1>1, JobsHeld, PTL

\* While renewals keep up, MAX_JOB_RETRIES is the limit it says: the count a worker
\* tests is the count it increments.
THEOREM RetryBudgetHolds ==
    ASSUME LeaseLoss = {}
    PROVE  QueueSpec => []RetryBudget
<1>1. QueueInit => RetryBudget
  BY NewRows, QueueAssumption DEF QueueInit, RetryBudget
<1>2. QueueSpec => []HeldInv
  BY JobsHeld
<1>3. QueueTypeOK /\ HeldInv /\ RetryBudget /\ [QueueNext]_queueVars => RetryBudget'
  <2> SUFFICES ASSUME QueueTypeOK, HeldInv, RetryBudget, [QueueNext]_queueVars, NEW i \in Jobs
               PROVE  jobs'[i].retry_count <= MaxRetries
    BY DEF RetryBudget
  <2> USE RowEdits, NewRows, WorkerEdits, QueueAssumption DEF QueueTypeOK, RetryBudget
  <2>1. ASSUME NEW j \in Jobs, AddJob(j) PROVE jobs'[i].retry_count <= MaxRetries
    BY <2>1 DEF AddJob
  <2>2. ASSUME NEW J \in SUBSET Jobs, CancelPending(J) PROVE jobs'[i].retry_count <= MaxRetries
    BY <2>2 DEF CancelPending
  <2>3. ASSUME NEW w \in Workers, NEW j \in Jobs, pick_job(w, j)
        PROVE  jobs'[i].retry_count <= MaxRetries
    BY <2>3 DEF pick_job
  <2>4. ASSUME NEW w \in Workers, renew_once(w) PROVE jobs'[i].retry_count <= MaxRetries
    BY <2>4 DEF renew_once
  <2>5. ASSUME NEW j \in Jobs, ExpireLease(j) PROVE jobs'[i].retry_count <= MaxRetries
    BY <2>5 DEF ExpireLease
  <2>6. ASSUME NEW w \in Workers, reap_stuck_jobs(w) PROVE jobs'[i].retry_count <= MaxRetries
    BY <2>6 DEF reap_stuck_jobs, Reaped
  <2>7. ASSUME NEW w \in Workers, handle_job_retry_or_fail(w)
        PROVE  jobs'[i].retry_count <= MaxRetries
    <3>1. workers[w].job \in Jobs
      BY <2>7 DEF handle_job_retry_or_fail
    <3>2. jobs[workers[w].job].retry_count = workers[w].retry_count
      BY <2>7 DEF handle_job_retry_or_fail, HeldInv
    <3> QED
      BY <2>7, <3>1, <3>2 DEF handle_job_retry_or_fail, RetriesLeft
  <2>8. ASSUME NEW w \in Workers, mark_job_completed(w) \/ mark_job_failed(w)
        PROVE  jobs'[i].retry_count <= MaxRetries
    <3>1. workers[w].job \in Jobs
      BY <2>8 DEF mark_job_completed, mark_job_failed
    <3>2. CASE mark_job_completed(w)
      BY <3>1, <3>2 DEF mark_job_completed
    <3>3. CASE mark_job_failed(w)
      BY <3>1, <3>3 DEF mark_job_failed
    <3> QED
      BY <2>8, <3>2, <3>3
  <2>9. CASE UNCHANGED jobs
    BY <2>9
  <2> QED
    BY <2>1, <2>2, <2>3, <2>4, <2>5, <2>6, <2>7, <2>8, <2>9
       DEF QueueNext, queueVars, process_job_ends, complete_raises, Crash
<1> QED
  BY <1>1, <1>2, <1>3, QueueTypeCorrect, PTL DEF QueueSpec

\* While renewals keep up, a settled job is never touched again.
THEOREM SettledIsFinalHolds ==
    ASSUME LeaseLoss = {}
    PROVE  QueueSpec => SettledIsFinal
<1> DEFINE Final == \A j \in Jobs : jobs[j].status \in Done => jobs'[j].status = jobs[j].status
<1>1. QueueSpec => []HeldInv
  BY JobsHeld
<1>2. QueueTypeOK /\ HeldInv /\ [QueueNext]_queueVars => [Final]_queueVars
  <2> SUFFICES ASSUME QueueTypeOK, HeldInv, QueueNext, NEW i \in Jobs, jobs[i].status \in Done
               PROVE  jobs'[i].status = jobs[i].status
    OBVIOUS
  <2> USE RowEdits, QueueAssumption DEF QueueTypeOK, HeldInv, Done
  <2>1. ASSUME NEW j \in Jobs, AddJob(j) PROVE jobs'[i].status = jobs[i].status
    BY <2>1 DEF AddJob
  <2>2. ASSUME NEW J \in SUBSET Jobs, CancelPending(J) PROVE jobs'[i].status = jobs[i].status
    BY <2>2 DEF CancelPending
  <2>3. ASSUME NEW w \in Workers, NEW j \in Jobs, pick_job(w, j)
        PROVE  jobs'[i].status = jobs[i].status
    BY <2>3 DEF pick_job
  <2>4. ASSUME NEW w \in Workers, renew_once(w) PROVE jobs'[i].status = jobs[i].status
    BY <2>4 DEF renew_once, RenewMatches
  <2>5. ASSUME NEW j \in Jobs, ExpireLease(j) PROVE jobs'[i].status = jobs[i].status
    BY <2>5 DEF ExpireLease
  <2>6. ASSUME NEW w \in Workers, reap_stuck_jobs(w) PROVE jobs'[i].status = jobs[i].status
    BY <2>6 DEF reap_stuck_jobs, Expired
  <2>7. ASSUME NEW w \in Workers, WriteOutcome(w) PROVE jobs'[i].status = jobs[i].status
    BY <2>7 DEF WriteOutcome, mark_job_completed, handle_job_retry_or_fail, mark_job_failed
  <2>8. CASE UNCHANGED jobs
    BY <2>8
  <2> QED
    BY <2>1, <2>2, <2>3, <2>4, <2>5, <2>6, <2>7, <2>8
       DEF QueueNext, WriteOutcome, process_job_ends, complete_raises, Crash
<1> QED
  BY <1>1, <1>2, QueueTypeCorrect, PTL DEF QueueSpec, SettledIsFinal
=============================================================================
