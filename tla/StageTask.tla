------------------------------ MODULE StageTask -----------------------------
(***************************************************************************)
(* A handler's run inside process_job: where it stands, and the copy of    *)
(* the document (DTO) it loaded at the start and writes back at the end.   *)
(* Each step of a handler is one committed transaction or one storage call;*)
(* the next step may come any time later, or never.                        *)
(***************************************************************************)
EXTENDS Corpus

VARIABLE task

\* canonical: the document a duplicate matched.  chunks: the insertion whose
\* rows EMBED holds in its session.
NoTask == [pc |-> "start", doc |-> None, canonical |-> None, chunks |-> 0]

TaskInit == task = [w \in Workers |-> NoTask]

DocOf(w) == JobDoc[workers[w].job]

At(w, pc) == workers[w].pc = "processing" /\ task[w].pc = pc

Goto(w, pc) == task' = [task EXCEPT ![w].pc = pc]

\* Mutant: the handler completes its job by itself.
returns_Completes(w) ==
    /\ task[w].pc = "ok"
    /\ workers' = [workers EXCEPT ![w] = Ended(workers[w], "ok")]
    /\ jobs' = [jobs EXCEPT ![workers[w].job] = Completed(jobs[workers[w].job])]
    /\ task' = [task EXCEPT ![w] = NoTask]
    /\ UNCHANGED corpusVars

\* process_job returns or raises; execute_job takes it from there.
returns(w) ==
    /\ task[w].pc \in Outcomes
    /\ process_job_ends(w, task[w].pc)
    /\ task' = [task EXCEPT ![w] = NoTask]
    /\ UNCHANGED corpusVars

\* A database call raises out of the handler: `except Exception` in execute_job
\* makes it a transient failure, and nothing of the open transaction is kept.
aborts(w) ==
    /\ WorkerStage[w] \in DatabaseFaults
    /\ workers[w].pc = "processing"
    /\ task[w].pc \notin Outcomes
    /\ Goto(w, "transient")
    /\ UNCHANGED <<corpusVars, queueVars>>

\* Loads the document.  Its status decides whether there is anything to do:
\* if not, the job ends well without touching anything.
loads(w, isFor) ==
    /\ At(w, "start")
    /\ IF isFor
       THEN task' = [task EXCEPT ![w] = [NoTask EXCEPT !.pc = "read", !.doc = docs[DocOf(w)]]]
       ELSE Goto(w, "ok")
    /\ UNCHANGED <<corpusVars, queueVars>>

\* Writes the document back with the changes the handler made, and goes on;
\* a violated unique index raises out of the handler.
commits(w, dto, pc) ==
    /\ IF IntegrityError(DocOf(w), dto)
       THEN Goto(w, "transient") /\ UNCHANGED docs
       ELSE Goto(w, pc) /\ update_document(DocOf(w), dto)
    /\ UNCHANGED <<store, chunks, audit, queueVars>>

\* Writes audit rows, and goes on whether or not that worked.
audits(w, d, events, pc) ==
    /\ log_event(WorkerStage[w], d, events)
    /\ Goto(w, pc)
    /\ UNCHANGED <<docs, store, chunks, queueVars>>

\* Queues the document for a stage, in a transaction of its own.
enqueues(w, stage, pc) ==
    /\ \E j \in Jobs : JobDoc[j] = DocOf(w) /\ JobStage[j] = stage /\ AddJob(j)
    /\ Goto(w, pc)
    /\ UNCHANGED corpusVars
=============================================================================
