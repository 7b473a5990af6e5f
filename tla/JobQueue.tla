------------------------------ MODULE JobQueue ------------------------------
(***************************************************************************)
(* The `jobs` table and the worker processes that consume it               *)
(* (src/workers/base_worker.py).  A worker claims one PENDING job of its   *)
(* stage, processes it while a thread renews the lease, and then writes    *)
(* the outcome.  Any idle worker may reap RUNNING jobs whose lease ran     *)
(* out.  Every action is one committed transaction, or the end of the      *)
(* process that would have made the next one.                              *)
(*                                                                         *)
(* Time is abstracted.  A lease is "held" or "expired"; when it runs out   *)
(* is a nondeterministic step.  scheduled_at (the back-off and the reaper's*)
(* five seconds) only delays a claim, and a claim may be delayed for any   *)
(* time anyway; the ORDER BY of pick_job chooses among due jobs, and the   *)
(* model lets it choose any.                                               *)
(***************************************************************************)
EXTENDS Integers, FiniteSets

CONSTANTS
    Jobs,          \* job ids
    Workers,       \* worker processes
    Stages,        \* SCAN, EXTRACT, ...
    JobStage,      \* the stage column of each job
    WorkerStage,   \* the stage each worker was started for
    MaxRetries,    \* settings.MAX_JOB_RETRIES
    LeaseLoss,     \* the stages where the lease of a job may run out while its
                   \* worker lives (a stalled process, missed renewals)
    None           \* SQL NULL, Python None

ASSUME QueueAssumption ==
    /\ MaxRetries \in Nat
    /\ LeaseLoss \subseteq Stages
    /\ JobStage \in [Jobs -> Stages]
    /\ WorkerStage \in [Workers -> Stages]
    /\ None \notin Workers
    /\ None \notin Jobs
    /\ None \notin {"held", "expired"}

VARIABLES
    jobs,     \* the rows of the jobs table
    workers   \* the memory of each worker process

queueVars == <<jobs, workers>>

Done == {"COMPLETED", "FAILED"}
JobStatus == {"PENDING", "RUNNING"} \cup Done
Outcomes == {"ok", "transient", "permanent"}

JobRows ==
    [status: JobStatus \cup {"ABSENT"}, worker_id: Workers \cup {None},
     retry_count: Nat, lease: {"held", "expired", None}]

WorkerStates ==
    [pc: {"idle", "processing", "finishing"}, job: Jobs \cup {None},
     retry_count: Nat, outcome: Outcomes]

NoRow == [status |-> "ABSENT", worker_id |-> None, retry_count |-> 0, lease |-> None]
NewRow == [NoRow EXCEPT !.status = "PENDING"]
IdleWorker == [pc |-> "idle", job |-> None, retry_count |-> 0, outcome |-> "ok"]

QueueInit ==
    /\ jobs = [j \in Jobs |-> NoRow]
    /\ workers = [w \in Workers |-> IdleWorker]

(***************************************************************************)
(* Who works on what.                                                      *)
(***************************************************************************)

\* w has claimed j and not yet written its outcome.
WorksOn(w, j) == workers[w].pc # "idle" /\ workers[w].job = j

\* The worker the row names is still alive and still on this job.
Attended(j) == \E w \in Workers : jobs[j].worker_id = w /\ WorksOn(w, j)

\* Mutant: the reaper forgets `lease_expires_at < NOW()`.
Expired_NoLeaseTest(j) == jobs[j].status = "RUNNING"

Expired(j) == jobs[j].status = "RUNNING" /\ jobs[j].lease = "expired"

(***************************************************************************)
(* What each UPDATE makes of a row.                                        *)
(***************************************************************************)
Cancelled(row) == [row EXCEPT !.status = "FAILED"]
Claimed(row, w) == [row EXCEPT !.status = "RUNNING", !.worker_id = w, !.lease = "held"]
Renewed(row) == [row EXCEPT !.lease = "held"]
LeaseOver(row) == [row EXCEPT !.lease = "expired"]
Completed(row) == [row EXCEPT !.status = "COMPLETED", !.lease = None]
Failed(row) == [row EXCEPT !.status = "FAILED", !.lease = None]
Abandoned(row) == [row EXCEPT !.status = "FAILED", !.worker_id = None, !.lease = None]
Requeued(row) ==
    [row EXCEPT !.status = "PENDING", !.worker_id = None, !.lease = None,
                !.retry_count = row.retry_count + 1]

\* Mutants: the re-queued row keeps its owner, or its count.
Reaped_KeepsOwner(row) == [Requeued(row) EXCEPT !.worker_id = row.worker_id]
Reaped_KeepsCount(row) == [Requeued(row) EXCEPT !.retry_count = row.retry_count]

\* The reaper's two UPDATEs: jobs out of retries fail, the others go back.
Reaped(row) == IF row.retry_count >= MaxRetries THEN Abandoned(row) ELSE Requeued(row)

\* The worker's memory: a claimed JobItem carries the retry_count of its claim.
Claiming(j, n) == [pc |-> "processing", job |-> j, retry_count |-> n, outcome |-> "ok"]
Ended(ws, o) == [ws EXCEPT !.pc = "finishing", !.outcome = o]

(***************************************************************************)
(* The producers' side: an upload, a handler or backfill_jobs inserts a    *)
(* row, and erase_document marks a document's PENDING jobs FAILED.         *)
(***************************************************************************)
AddJob(j) ==
    /\ jobs[j].status = "ABSENT"
    /\ jobs' = [jobs EXCEPT ![j] = NewRow]
    /\ UNCHANGED workers

CancelPending(J) ==
    /\ jobs' = [j \in Jobs |->
                  IF j \in J /\ jobs[j].status = "PENDING" THEN Cancelled(jobs[j]) ELSE jobs[j]]
    /\ UNCHANGED workers

(***************************************************************************)
(* pick_job: one UPDATE takes a PENDING row of the worker's stage.         *)
(***************************************************************************)
pick_job(w, j) ==
    /\ workers[w].pc = "idle"
    /\ jobs[j].status = "PENDING"
    /\ JobStage[j] = WorkerStage[w]
    /\ jobs' = [jobs EXCEPT ![j] = Claimed(jobs[j], w)]
    /\ workers' = [workers EXCEPT ![w] = Claiming(j, jobs[j].retry_count)]

\* _LeaseRenewer._renew_once: the UPDATE matches the row only while it is
\* RUNNING and still names this worker; otherwise it changes nothing.  The
\* thread is joined with a timeout, so a renewal may still land while the
\* outcome is being written.
RenewMatches(w, j) == jobs[j].status = "RUNNING" /\ jobs[j].worker_id = w

renew_once(w) ==
    /\ workers[w].pc # "idle"
    /\ RenewMatches(w, workers[w].job)
    /\ jobs' = [jobs EXCEPT ![workers[w].job] = Renewed(jobs[workers[w].job])]
    /\ UNCHANGED workers

\* NOW() passes lease_expires_at.  Outside LeaseLoss renewals keep up,
\* so only the lease of a worker that died runs out.
ExpireLease(j) ==
    /\ jobs[j].status = "RUNNING"
    /\ jobs[j].lease = "held"
    /\ JobStage[j] \in LeaseLoss \/ ~Attended(j)
    /\ jobs' = [jobs EXCEPT ![j] = LeaseOver(jobs[j])]
    /\ UNCHANGED workers

\* reap_stuck_jobs: between two jobs, for the jobs of every stage at once.
reap_stuck_jobs(w) ==
    /\ workers[w].pc = "idle"
    /\ \E j \in Jobs : Expired(j)
    /\ jobs' = [j \in Jobs |-> IF Expired(j) THEN Reaped(jobs[j]) ELSE jobs[j]]
    /\ UNCHANGED workers

(***************************************************************************)
(* execute_job: process_job returns or raises, which also stops the        *)
(* renewer; then the outcome is written, by job_id alone.                  *)
(***************************************************************************)
process_job_ends(w, outcome) ==
    /\ workers[w].pc = "processing"
    /\ workers' = [workers EXCEPT ![w] = Ended(workers[w], outcome)]
    /\ UNCHANGED jobs

mark_job_completed(w) ==
    /\ workers[w].pc = "finishing"
    /\ workers[w].outcome = "ok"
    /\ jobs' = [jobs EXCEPT ![workers[w].job] = Completed(jobs[workers[w].job])]
    /\ workers' = [workers EXCEPT ![w] = IdleWorker]

\* The UPDATE of _mark_job_completed raises: execute_job's `except Exception`
\* sends the finished job down the retry path.
complete_raises(w) ==
    /\ workers[w].pc = "finishing"
    /\ workers[w].outcome = "ok"
    /\ workers' = [workers EXCEPT ![w] = Ended(workers[w], "transient")]
    /\ UNCHANGED jobs

\* Mutant: off by one in the retry test.
RetriesLeft_OneMore(w) == workers[w].retry_count <= MaxRetries

\* The test is on the JobItem's retry_count, the increment on the row's.
RetriesLeft(w) == workers[w].retry_count < MaxRetries

handle_job_retry_or_fail(w) ==
    /\ workers[w].pc = "finishing"
    /\ workers[w].outcome = "transient"
    /\ LET row == jobs[workers[w].job]
       IN  jobs' = [jobs EXCEPT ![workers[w].job] =
                      IF RetriesLeft(w) THEN Requeued(row) ELSE Failed(row)]
    /\ workers' = [workers EXCEPT ![w] = IdleWorker]

mark_job_failed(w) ==
    /\ workers[w].pc = "finishing"
    /\ workers[w].outcome = "permanent"
    /\ jobs' = [jobs EXCEPT ![workers[w].job] = Failed(jobs[workers[w].job])]
    /\ workers' = [workers EXCEPT ![w] = IdleWorker]

\* The process dies and its container restarts it.  The new process has a new
\* worker_id; the model keeps the name, which no rule can tell apart because a
\* row naming w is attended only while w works on that very row.
Crash(w) ==
    /\ workers[w].pc # "idle"
    /\ workers' = [workers EXCEPT ![w] = IdleWorker]
    /\ UNCHANGED jobs

WriteOutcome(w) ==
    \/ mark_job_completed(w)
    \/ handle_job_retry_or_fail(w)
    \/ mark_job_failed(w)

QueueNext ==
    \/ \E j \in Jobs : AddJob(j)
    \/ \E J \in SUBSET Jobs : CancelPending(J)
    \/ \E w \in Workers, j \in Jobs : pick_job(w, j)
    \/ \E w \in Workers : renew_once(w)
    \/ \E j \in Jobs : ExpireLease(j)
    \/ \E w \in Workers : reap_stuck_jobs(w)
    \/ \E w \in Workers, o \in Outcomes : process_job_ends(w, o)
    \/ \E w \in Workers : mark_job_completed(w)
    \/ \E w \in Workers : complete_raises(w)
    \/ \E w \in Workers : handle_job_retry_or_fail(w)
    \/ \E w \in Workers : mark_job_failed(w)
    \/ \E w \in Workers : Crash(w)

QueueSpec == QueueInit /\ [][QueueNext]_queueVars

(***************************************************************************)
(* Fairness.  Workers poll, reap between jobs and write what they finished;*)
(* process_job returns (nothing in the code bounds it: this is an          *)
(* assumption on the handlers); the clock runs past the lease of a dead    *)
(* worker.  Nothing is assumed of uploads, crashes, stalls or renewals.    *)
(***************************************************************************)
QueueFairness ==
    /\ \A w \in Workers :
          /\ WF_queueVars(\E j \in Jobs : pick_job(w, j))
          /\ WF_queueVars(\E o \in Outcomes : process_job_ends(w, o))
          /\ WF_queueVars(WriteOutcome(w))
    /\ WF_queueVars(\E w \in Workers : reap_stuck_jobs(w))
    /\ \A j \in Jobs : WF_queueVars(~Attended(j) /\ ExpireLease(j))

FairQueueSpec == QueueSpec /\ QueueFairness

(***************************************************************************)
(* Properties.                                                             *)
(***************************************************************************)

\* Every row and every worker's memory has its type.
QueueTypeOK ==
    /\ jobs \in [Jobs -> JobRows]
    /\ workers \in [Workers -> WorkerStates]
    /\ \A w \in Workers : (workers[w].pc = "idle") <=> (workers[w].job = None)

\* A row is claimable only when nobody owns it, and it carries a lease exactly
\* while it is RUNNING: a RUNNING row without a lease could never be reaped
\* (NULL < NOW() is not true) and one without an owner never renewed, so either
\* would be stuck for good.
OwnershipMatchesStatus ==
    \A j \in Jobs :
        /\ jobs[j].status \in {"ABSENT", "PENDING"} => jobs[j].worker_id = None
        /\ (jobs[j].status = "RUNNING") <=> (jobs[j].lease # None)
        /\ jobs[j].status = "RUNNING" => jobs[j].worker_id # None

\* The retry counts that workers still on the job read when they claimed it,
\* as far as they still entitle the worker to a retry.
PendingRetries(j) ==
    {n \in 0..(MaxRetries - 1) :
        \E w \in Workers : WorksOn(w, j) /\ workers[w].retry_count = n}

\* Two workers on the same job (one of them late) claimed it at different
\* values of retry_count, because a row returns to PENDING only with a higher
\* count; so a retry_count names one claim of the job.
ClaimsDistinct ==
    \A w \in Workers :
        workers[w].pc # "idle" =>
            LET row == jobs[workers[w].job] IN
            /\ row.status # "ABSENT"
            /\ workers[w].retry_count <= row.retry_count
            /\ row.status = "PENDING" => workers[w].retry_count < row.retry_count
            /\ \A v \in Workers :
                  (v # w /\ workers[v].job = workers[w].job)
                     => workers[v].retry_count # workers[w].retry_count

\* What a job has used of its retries, and what late workers may still add.
RetriesAccounted ==
    \A j \in Jobs : jobs[j].retry_count + Cardinality(PendingRetries(j)) <= 2 * MaxRetries

\* However many workers lose their lease and come back late, a job is put back
\* in the queue at most twice MAX_JOB_RETRIES times: the retry test reads the
\* count of the worker's own claim, and no two claims of a job see the same one.
RetryCeiling == \A j \in Jobs : jobs[j].retry_count <= 2 * MaxRetries

\* With renewals that keep up, a job is never worked on by two workers at once.
SingleExecution ==
    \A j \in Jobs : \A v, w \in Workers : WorksOn(v, j) /\ WorksOn(w, j) => v = w

\* With renewals that keep up, retry_count respects MAX_JOB_RETRIES.
RetryBudget == \A j \in Jobs : jobs[j].retry_count <= MaxRetries

\* With renewals that keep up, COMPLETED and FAILED are final: no late worker
\* re-opens or overwrites a settled job.
SettledIsFinal ==
    [][\A j \in Jobs : jobs[j].status \in Done => jobs'[j].status = jobs[j].status]_queueVars

\* Two workers on one job are never confused: while a job is RUNNING, each worker
\* still on it that the row does not name claimed it at a lower retry_count than
\* the row has now.  So the row, and the lease that renewals keep alive, belong to
\* the newest of the claims, however many late workers come back in which order.
NewestClaimOwns ==
    \A j \in Jobs, w \in Workers :
        (jobs[j].status = "RUNNING" /\ WorksOn(w, j) /\ jobs[j].worker_id # w)
            => workers[w].retry_count < jobs[j].retry_count

\* Every job that is queued ends COMPLETED or FAILED and stays so, through any
\* number of crashes, stalls and late workers.
EveryJobSettles ==
    \A j \in Jobs : [](jobs[j].status # "ABSENT" => <>[](jobs[j].status \in Done))
=============================================================================
