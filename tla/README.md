# TLA+ specifications of the knowledge base

This directory holds TLA+ models of the program in `src/`, the TLC
configurations that check them, and TLAPS proofs about them. Paths below are
relative to the repository root unless they start with `src/src/`, which is how
`PROJECT.json` names the Python package. A bare file name with a line number is
the file of that name in the package.

Files come in by upload or from Google Drive and are turned into searchable
passages by five stages of workers around a PostgreSQL table used as a queue,
with the contents in an object store (MinIO). Nothing spans the two stores in one
transaction, workers may be killed or stall at any moment, and the API and the
Drive connector change the same rows. Questions are answered by searching the
passages and sending some of them, past a data boundary, to an external model.

## 1. Inventory

| Component | State it keeps | Operations | Talks to | Module |
|---|---|---|---|---|
| Job queue (`workers/base_worker.py`) | `jobs` rows: status, owner, retry count, lease; per worker the claimed `JobItem` | claim (`SKIP LOCKED`), lease renewal, reaper, completion, retry, permanent failure | every stage, upload, erase, back-fill | `JobQueue` |
| Documents, passages, audit log (`repository.py`, `audit/service.py`) | `documents`, `document_chunks`, `audit_events` | create, whole-row write-back, lookup by checksum, unique index on active checksums, purge | every handler | `Corpus` |
| Object store (`object_storage.py`) | buckets quarantine, raw, extracted, normalized | put, get, copy, delete, exists | every handler, erase | `Corpus` |
| SCAN (`scan_job_handler.py`) | the handler's copy of the row | validate, reject, deduplicate and escalate the tier, promote, queue EXTRACT | queue, documents, objects | `ScanStage` |
| EXTRACT, NORMALIZE, CHUNK, EMBED (`*_job_handler.py`) | the handler's copy of the row; for EMBED the passages in its session | check the entry status, read, compute, store, write the status, queue the next | queue, documents, objects, passages | `TextStages` |
| Upload, delete and erasure, back-fill (`upload_service.py`, `erasure.py`, `backfill_jobs.py`) | one request and the row it loaded | store, register, queue; claim jobs, delete, tombstone; re-queue | all stores | `Api` |
| Reclassify, soft delete, restore, listings, access rules (`api/v1/ingestion.py`, `auth/access.py`) | none | tier and visibility changes, the visibility rule as a row test and as a query filter | documents | `Access` |
| Drive connector (`connectors/drive/service.py`) | `drive_files`, `drive_file_versions`, a run lock | list, import, versions, moves, retire, reconcile | upload, documents, Drive | `DriveSync` |
| Nightly Drive worker, folder walk (`drive_sync_worker.py`, `connectors/drive/client.py`) | `drive_sync_state` | decide whether a pass is due, record it, walk both folder trees | Drive | `DriveWorker` |
| Retrieval (`retrieval/`) | the cross-encoder of the process | lexical and vector search, rank fusion, reranking, grounding | passages | `Retrieval` |
| Gateway and generation (`gateway/`, `generation/`) | the record of one request | tier decision, redaction, prompt, model call, citation check | retrieval, external model | `Gateway`, `Ask` |
| Extractors, OCR, pictures (`extraction/`) | the OCR budget of one file | unit by unit: text, headings, tables, figures | EXTRACT | `Extraction` |
| Normalizer, chunker (`normalization/`, `chunking/`) | the running heading | clean, judge, cut into sections, pack, wrap, group table rows | NORMALIZE, CHUNK | `Passages`, `Chunker` |
| Login, settings, migrations, UI, evaluation scripts | | | | none |

What is hard here, and what makes each component correct:

* *Queue.* A lease that runs out under a living worker makes two workers of one,
  and outcomes are written by `job_id` alone. No row may get stuck, retries are
  bounded whatever comes late, and while leases are kept a job has one worker and
  settles once.
* *Handlers.* Every handler is a sequence of separate commits and storage calls
  on a copy of the row loaded at the start; any two can be separated by a crash.
  A status may only be visible with what it promises to the next stage, LIVE means
  complete, a document without a job can be found and re-queued.
* *Deduplication.* Two workers may promote the same bytes at once; a partial
  unique index decides. The stricter tier wins and every document has its audit
  entry, whichever branch finds the duplicate.
* *Erasure.* The claim on the jobs is committed, and so released, before the
  objects are deleted. No worker may write to a tombstone, and nothing erased is
  searchable.
* *Drive.* A pass is dozens of commits, and between any two of them people edit
  and move files, the pipeline finishes or refuses earlier imports, a second pass
  waits for the lock, and the process may die. A replaced version must not come
  back, nothing may be visible twice or not at all, a folder's tier must hold.
* *Schedule.* What is due is decided from a clock and a state row that passes by
  hand, failures and crashes write too.
* *Questions.* Tiers, visibility and existence of what was found may change
  between the search, the reading of the tiers and the call; the boundary drops
  passages and numbers the rest again, and citations must survive that.
* *Text.* Each block of a file goes through an extractor, cleaning, a section cut,
  packing and wrapping. None may be lost without a trace, overflow the embedding
  window, or be cited under another section's heading.

`PROJECT.json` lists the hazards line by line, each with the properties about it.

## 2. Modules

```
JobQueue              the jobs table and the workers' life around process_job
  Corpus              documents, objects, passages, audit log; the committed writes
    StageTask         a handler's memory and the steps all handlers share
      ScanStage       ScanJobHandler.process
      TextStages      the four other handlers
    Api               upload, delete and erasure, back-fill
      Ingestion       all of the above composed; the properties
DocumentLife          what the pipeline promises of a document (abstract)
  DriveSync           the Drive connector, on top of that promise
DriveWorker           the nightly schedule and the folder walk
Access, Retrieval, Gateway
  Ask                 POST /ask and GET /search, beside the API's changes
Chunker
  Extraction          what the extractors make of a unit
    Passages          a file becomes passages
MC...                 instances for TLC
JobQueueProofs, AskProofs, DriveWorkerProofs, DriveSyncProofs, PassagesProofs
                      theorems about the module of that name
IngestionProofs       the composed pipeline: types, frames, the queue it implements, what a
                      status promises, one stage at a time
  LifeProofs          duplicates and tiers; DocumentLife; documents left between two
                      stages; erasure; the audit log
SequenceLemmas        numbers, finite sets and sequences; AskProofs, DriveWorkerProofs,
                      DriveSyncProofs and PassagesProofs rest on it
```

An indented module EXTENDS the one it stands under. Ingestion uses DocumentLife
by `INSTANCE ... WITH`: it implements it. An action is one committed transaction,
one storage call or one request to another system, so a crash, a lost lease or
another process fits between any two of them; that is the granularity at which
the code can be interrupted with an effect.

### JobQueue

`jobs` is the table, `workers` the memory of each process. `pick_job`,
`renew_once`, `reap_stuck_jobs`, `mark_job_completed`,
`handle_job_retry_or_fail` and `mark_job_failed` are the methods of `BaseWorker`
and `_LeaseRenewer` of the same names. What each UPDATE makes of a row is an
operator of its own (`Claimed`, `Requeued`, `Completed`, ...).

* The retry test uses the count the worker read when it claimed the job, the
  increment the row's own count, as in the code.
* The outcome UPDATEs match on `job_id` alone: there is no test of the owner in
  the model either. Renewal tests status and owner.
* Time is abstracted to a lease that is "held" or "expired". `LeaseLoss` is the
  set of stages where a lease may run out while its worker lives (a stalled
  process, a renewal thread that cannot reach the database). Elsewhere only the
  lease of a dead worker runs out. Back-off and scheduled times only delay a
  claim, which the model may do anyway.
* `complete_raises` is the path where the completing UPDATE fails and
  `execute_job` sends a finished job to the retry branch.

### Corpus, StageTask, ScanStage, TextStages, Api, Ingestion

A document row keeps its status, checksum, tier, raw and quarantine pointers and
the tombstone. `update_document` writes the caller's whole copy back, except the
columns the code leaves alone (classification, tombstone). Raw objects are keyed
by content, the others by document. Passages are an insertion number (their
ids), presence and vectors: what EMBED can detect when the rows it loaded have
been replaced. Audit entries are best effort (`log_event`).

`task[w]` is the handler's program counter and its copy of the row; `aborts` is a
database call that raises out of the handler. The four text stages have one shape
and are written once, over tables of statuses and events, with the steps that
differ (`chunk_persist`, `embed_work`, `embed_store`, the language skip, the
missing raw object) as actions of their own. In the scan, the promotion lock of
the code orders nothing between workers, because each job builds its own handler
and lock; the unique index (`IntegrityError`) is what decides a race.

`erase_document` works from the copy `delete_document` loaded (`erase[d].doc`),
and `erase[d].recorded` says whether the commit of the claim succeeded, because
`record()` swallows its failure and the request goes on in a broken transaction.

In Ingestion, queue steps and handler steps interleave; a handler touches the
queue only by returning and by queueing the next stage. Faults are constants:
`Crashes`, `StorageFaults`, `DatabaseFaults` and `LeaseLoss` are sets of the
stages and requests (`"UPLOAD"`, `"DELETE"`) to which each may happen, so that a
run pays only for the faults it asks about.

### DocumentLife, DriveSync

DocumentLife is the pipeline as seen from outside: a document is received, stalled
at the scan, refused, a duplicate, accepted, failed or live. Ingestion implements
it (`LifeSpec`, with `LifeOf` mapping statuses), and DriveSync is built on it
instead of on the detailed pipeline.

`drive` is what Drive holds, `rows` and `versions` the connector's two tables,
`tier` and `hidden` the two columns of a document it writes, `pass[s]` where the
worker or the person with `drive_sync.py` is in a pass. A pass lists, then goes
file by file (fetch, receive, record, version), retires what it did not list,
and reconciles versions the pipeline has finished. `fetch` reads the file as it is
by then, not as it was listed. A Google-native file has a modified time, any
other a checksum; `Mark` is what the code compares. People edit, move and bin
files (`MaxChanges`), reclassify, restore and erase documents (`MaxByHand`); files
fail with an exception (`MaxErrors`), passes die (`MaxCrashes`), scans stall
(`MaxStalls`). An erased document has no content and keeps its status. Erasing is
one step here; its commits one by one are in Api, and the answer BUSY is no step.

### DriveWorker

The clock counts ticks; a slot is one tick of a day of `Day` ticks, or, without a
time of day, `Interval` after the last success. `state` is the row of
`drive_sync_state`; `covered` is a history variable, the start of the last pass
that came through. The clock does not tick before the worker has woken, because
its poll is much shorter than any interval here. Each pass walks both trees, one
request per folder, through the frontier, the depth cap and the seen-set of
`walk_folder_tree`; where trees overlap the stricter tier wins.

### Access, Retrieval, Gateway, Ask

Access has the visibility rule twice, as the code does: as a test on a row
(`can_view`, `_may_change`, `restorable`) and as the filter of a query
(`visible_documents_clause`, `list_paginated`, `list_deleted_documents`). Each
request is one step there; erasure step by step is in Api.

Retrieval has the scan of the vector index (`Scanned`: only passages that have a
vector, up to where its memory budget ends), the two arms, rank fusion (`Fused`: every
order the scores allow, since equal scores come back in any order), the reranker and
the grounding test. Gateway has what may cross (`Kept`), the placeholders and the
record. Ask runs one request through them. `seen` and `publicAt` are history variables:
what the search came upon that its caller might see, and which documents have been
PUBLIC since. Recognizers are a set of values found in a text, and the model's answer
is any choice of citations, valid or not.

### Extraction, Chunker, Passages

A file is a sequence of units (the body of a Word file, slides, sheets, pages) of blocks
(prose, headings, tables, pictures, notes, furniture). Text is a sequence of words; each
remembers its block and has a size in characters, a rate of tokens to a character, and
the break after it. `measure` counts tokens, `_hard_wrap` cuts by characters at the
average rate of the text, as the code does, and its slices are not measured again; a
word cut out of a text that is denser in places than the margin allows is marked
(`uneven`, a history variable). `docx_extract`, `pptx_extract`, `xlsx_extract` and
`pdf_page` are what the extractors make of a unit; Passages runs EXTRACT's loop over
units and pictures with the OCR budget, then normalization with its quality gate, then
the chunker. A worker has both of OCR and a picture reader, one or none (`readers`). OCR
may fail, be unsure of lines, and see tables or not. A picture that is not read is
either warned of in the worker's log (an exception, the limit per document) or given up
without a word (`dropped`, a history variable): an unknown format, a picture that cannot
be decoded or drawn, or one with no line the reader is sure of. With OCR switched off
what is drawn on a page is dropped (`ocr_off`), without a picture reader all pictures
(`passes_pictures`).

## 3. Properties

Queue (`JobQueue`):

* `OwnershipMatchesStatus`: a row is claimable only when nobody owns it, and
  carries a lease exactly while RUNNING. Otherwise neither claim nor reaper would
  ever see it again.
* `RetryCeiling`: however many late workers write, a job is re-queued at most
  `2 * MAX_JOB_RETRIES` times.
* `SingleExecution`, `RetryBudget`, `SettledIsFinal`: while leases are kept, one
  worker per job, at most `MAX_JOB_RETRIES` retries, and settled jobs stay so.
* `NewestClaimOwns`: when a lease ran out under a living worker, several workers are
  on one job. The row, and the lease that renewals keep alive, are then the newest
  claim's: every other worker claimed the job at a lower `retry_count`.
* `EveryJobSettles`: a queued job ends COMPLETED or FAILED and stays there.

Pipeline (`Ingestion`):

* `QueueSpec` as a property: the pipeline implements the queue. `LifeSpec`: it
  implements DocumentLife.
* `ArtifactsPresent`: each status comes with what the next stage reads.
* `LiveIsComplete`: LIVE means passages, all with vectors.
* `DuplicateHasCanonical`: a dropped copy has an active document whose bytes are
  kept somewhere.
* `StricterTierWins`, `AuditTrail`, `ErasedNotSearchable`, `TombstoneStays`: see
  section 1.
* `StrandedIsRecoverable`: a document whose next job was lost stands in the entry
  status of a stage whose input is present, so `backfill_jobs.py` can resume it.
* `EveryDocumentSettles`: liveness of the whole.

Drive (`DriveSync`, `DriveWorker`):

* `ReplacedStaysHidden`: no version that was replaced is seen again.
* `NeverBlank`: a pass never takes away the only visible version of a listed file,
  unless somebody has erased the newest one (section 5).
* `ImportedOnce`: no revision is imported twice by two passes.
* `RetiredIsHidden`: nothing of a removed file is seen, including what was still
  being processed.
* `FolderTierHolds`: after a pass, the newest version is as restricted as the
  folder it was listed in.
* `CatchesUp`, `NewestSettles`: once people leave Drive alone, every watched file is
  imported as it is, at its folder's tier, and its newest version gets a verdict.
* `CaughtUp`, `NeverTwice`: whenever the worker sleeps, the last slot is covered or
  a failure is recent; no slot is run twice.
* `WatchedAsFiled`: the walk finds exactly the folders of both trees down to the
  cap, at the right tier, whatever cycles they make.

Questions (`Ask`, `Access`):

* `NothingRestrictedSent`: every document with a passage in a prompt was PUBLIC at
  some time between the search and the call.
* `CitationsCheckOut`: what the model read under a number is the passage the reader
  is shown for it.
* `SamePlaceholder`: in one prompt, equal placeholders exactly for equal values.
* `RecordIsHonest`: the record of the boundary says what happened at it.
* `FullPage`: what the caller may not see never costs a place: of the passages the two
  indexes came upon, a page holds as many as the rights and the limit allow.
* `ListIsWhatOpens`, `OfferIsKept`: the two forms of the visibility rule agree, and
  what is offered for restoring can be restored.

Text (`Passages`):

* `NothingLost`: each part of each block is in passages in full, or a title that a passage
  of its unit is filed under, left out on purpose, a recorded gap, or a drawing that its
  reader dropped without a word (section 5): what was read is never lost.
* `FitsWindow`: no passage is longer in tokens than the embedding model reads, a single row
  of a table aside, and a slice of a run whose density varies by more than the margin of
  the hard wrap (section 5).
* `CitedRight`: a passage that names a section holds nothing of another one. The
  exemptions (`Doubtful`) are the cases in section 5.

## 4. Runs

| Run | Instance | Shows |
|---|---|---|
| `queue` | 1 job, 3 workers, leases lost, crashes, failing outcome writes, `MaxRetries` 2, fairness | `OwnershipMatchesStatus`, `RetryCeiling`, `NewestClaimOwns`, `EveryJobSettles` |
| `scan_crashes` | 2 copies of one file, 2 SCAN workers; workers and API may die, storage may fail | `ArtifactsPresent`, `DuplicateHasCanonical`, `SingleExecution`, `RetryBudget`, `StrandedIsRecoverable`, `SettledIsFinal`, `LifeSpec` |
| `scan_tiers` | 2 copies with different tiers and an invalid file, 2 SCAN workers, no faults | `StricterTierWins`, `AuditTrail` |
| `scan_stalls` | 1 document, a SCAN worker with lost leases and failing database calls, an EXTRACT worker, back-fill in all modes | `QueueSpec` |
| `erase` | 1 document, 5 stages, deletes repeated, cut short, with failing storage and commits | `ErasedNotSearchable`, `TombstoneStays` |
| `pipeline_settles` | 1 document, 5 stages, storage faults in NORMALIZE, a second CHUNK job by back-fill, fairness | `ArtifactsPresent`, `LiveIsComplete`, `EveryDocumentSettles`, `LifeSpec` |
| `drive_sync` | 1 Google-native file, 3 documents, 3 contents, worker and hand-run passes with `--limit 1`; 2 changes, 1 each of the other events (by hand: reclassify, restore, erase), 2 together | `ReplacedStaysHidden`, `ImportedOnce`, `RetiredIsHidden`, `FolderTierHolds`, `NeverBlank` |
| `drive_settles` | the same file, 4 documents, the worker; 2 changes, 1 error, 1 crash, 2 together; fairness | `CatchesUp`, `NewestSettles` |
| `drive_worker` | 36 graphs of 4 folders, day of 3 ticks, 2 days, 3 settings of the time, 2 failures | `CaughtUp`, `WatchedAsFiled`, `NeverTwice` |
| `drive_gone` | 1 file with a checksum, 2 changes; a violation | `GoneIsHidden` is not kept (section 5) |
| `ask` | 2 documents, one a copy, 3 passages, owner and administrator, 3 deployments, 2 changes by the API, 1 request | `NothingRestrictedSent`, `CitationsCheckOut`, `SamePlaceholder`, `RecordIsHonest`, `FullPage`, `OfferIsKept`, `ListIsWhatOpens` |
| `passages` | Word files of up to 3 blocks of 11 kinds, decks of two slides, sheets, PDFs of two pages, with and without OCR and a picture reader; window 14, maximum 16, target 11 tokens, 1 or 2 tokens to a character | `NothingLost`, `FitsWindow`, `CitedRight` |

Bounds, and why they are enough:

* *Queue.* The ceiling of twice the limit needs several late workers on one job:
  three workers and two retries reach it. Jobs share nothing but the claim, so a
  second job adds interleavings and no behaviour.
* *Pipeline.* A race in deduplication needs two copies, and the third document is
  the rejected one. Elsewhere one document per run, because the text stages never
  look at another. `MaxRetries` is 1: one retry, then failure, both branches of the
  test. A document has one job per stage, a second one in the stages of
  `RequeuedStages`. A crashed worker comes back any number of times; only the retry
  limit bounds it. The erase run starts a delete only after the upload has queued
  its job (`EagerDelete = FALSE`): the API returns the document id only then.
* *Back-fill.* In `pipeline_settles` a CHUNK back-fill may fall between NORMALIZE's
  commit and its own insert, which gives two CHUNK jobs; LIVE stays complete because
  the second one finds another entry status.
* *Drive.* Three versions of one file are what replacement needs (one current, one
  replaced, one pending). Files do not share rows, so a second file adds only
  duplicates between files (section 5). `MaxEvents` bounds all events of people and
  faults together; every pair of kinds happens.
* *Schedule.* Two days with a slot at tick 0, 1 or by interval, with `Retry` shorter
  than a day: a missed slot, a failure before and after one, and a restart with
  another setting all fit. A depth cap of 2 with four folders leaves one folder
  beyond it.
* *Questions.* All three passages have a vector, or one document's have not yet; the scan
  of the vectors comes to the end or stops at the first. Three passages with `MaxPassages` 2
  and a limit of 1 or 2 make the pool, the page and the prompt differ; a restricted passage
  can come first, so that the rest are numbered again. Two changes suffice to take a tier
  there and back.
* *Text.* The window is below the configured maximum, so that both bounds of the
  budget decide; words of several sizes force packing, the hard wrap and row groups. Runs
  without a break are sparse, dense, or both one after the other, so the hard wrap meets a
  text that its average describes and one that it does not. OCR is asked for below 10
  characters, and there are typed pages of 3 to 9 characters with up to three headings or
  sentences that repeat one, so a page with text of its own is read by OCR again, in part.

All spaces are explored to the end. `SYMMETRY` is used on the two SCAN workers and
on the contents of Drive files, and only where no liveness property is checked.
Deadlock checking is off where the system legitimately stops: when all jobs are
settled, the clock has run out, the requests are used up, the file is done. A Drive
pass can always be started, so the two Drive runs without `CHECK_DEADLOCK FALSE`
check for deadlock as well.

### Fairness

`QueueFairness` and `Fairness` assume weak fairness of: a worker claiming when
there is a job (`run` polls), a handler going on, an outcome being written,
somebody reaping (`run_once` reaps before each claim), the clock passing the
lease of a dead worker, and a started upload going on. Weak fairness suffices
because each of these stays enabled until it happens. That `process_job` returns
is an assumption: nothing in the code bounds it, and a hung handler keeps its
lease (listed as a hazard).

`DriveFairness` assumes weak fairness of a pass going on and of the pipeline
finishing a received document, which is what `EveryDocumentSettles` shows of it,
and strong fairness of the worker starting a pass: the run lock may be taken by
a pass by hand when the worker wakes, but it tries again every night (`CaughtUp`).

Nothing is assumed of people, uploads, deletes, errors, crashes, stalls, renewals
or faults. In the pipeline faults may happen again and again; it is the retry limit
that ends them.

## 5. Disagreements between the code and what is said of it

One is the counterexample of a run:

* `drive_gone`: a file that was imported and then edited into something that
  cannot be imported is SKIPPED. When it then leaves the watched folders,
  `_retire_vanished` looks only at IMPORTED rows (`service.py:680`) and its imported
  version stays in search. The docstring says it "soft-deletes documents whose Drive
  file is no longer in the watched folders".

The others were met while modelling. Pipeline:

* A refused insert of the EXTRACT job after VALIDATED was committed: the retried SCAN
  job skips the document and completes; it never moves again by itself
  (`README.md:124`: "job state and document state commit in one transaction and
  cannot drift").
* A reaped SCAN job of a document already CHUNKED (missing in the guard's list,
  `scan_job_handler.py:202`) sets it to VALIDATION_FAILED; the comment above says such
  a job "must not re-validate or re-promote it". This is why `LifeSpec` is checked
  with crashes of SCAN or with all stages, and does not hold with both.
* The loser of a promotion race dies between committing DUPLICATE and escalating the
  winner's tier (`scan_job_handler.py:435`; 302: "Let the stricter of the two tiers
  win before this copy is dropped"). `scan_tiers` has no crashes for that reason.
* A delete that loaded the row before the scan promoted the file never deletes the
  raw object (`erasure.py:6`: "a delete now erases: the stored file").
* A worker that lost its lease re-opens a job the reaper FAILED
  (`base_worker.py:371`, docstring at 360 "permanently").
* The upload commits the row and the SCAN job separately (`upload_service.py:127`;
  `ARCHITECTURE.md:98` says one transaction). The document can be back-filled, which
  `scan_crashes` checks.
* A crash between REJECTED and the deletion leaves the object in quarantine with
  nothing pointing at it (`scan_job_handler.py:278`; `ARCHITECTURE.md:36`).
* A crash after the bytes moved to raw and before VALIDATED: the retry looks in
  quarantine only and fails until its retries are used up
  (`scan_job_handler.py:397`; `scan_worker.py:71`).
* With two CHUNK workers and lost leases a late worker replaces the passages of a
  LIVE document (`chunking_job_handler.py:168`; `enums.py:16`). The same comes of
  `backfill_jobs.py --reset` of CHUNK while an EMBED worker is at work: the document
  goes LIVE without vectors, and the second EMBED job skips it. One worker per stage,
  as the compose file deploys it, and no reset excludes both.
* `object_exists` takes an unreachable store for an absent object, so an erase can
  leave extracted text behind a tombstone (`object_storage.py:180`).
* A failed erase has already deleted some objects and cancelled the jobs
  (`erasure.py:88`; `erasure.py:56` says the document is "exactly as it was").
* A delete sent before the upload has answered may find no SCAN job to claim; the job
  is queued after it (`erasure.py:76`; `erasure.py:53`).
* `backfill_jobs.py` run between the commit of an erase's claim and its tombstone queues
  a job the erase does not see: the row is not marked deleted yet (`backfill_jobs.py:86`;
  `erasure.py:53` "so no worker can pick one up while the rest happens"). The `erase` run
  has no back-fill for that reason.

Drive. The properties are stated so that they exclude these:

* Erasing the newest version of a file leaves its status LIVE. The next pass's reconcile
  reads the status alone (`service.py:790`), takes it for a successor that is visible and
  hides the version before it, so that the file has nothing visible (`service.py:730`:
  "never leaving a file with nothing visible"). `NeverBlank` excepts it.
* A document of the Drive that somebody erased is not imported again, because the row of its
  file still says it is imported; `CatchesUp` is checked with nobody erasing.
* For a file with a checksum, an edit between listing and download that is undone
  before the next pass is kept (`CatchesUp` is checked for a Google-native file).
* A document settled FAILED at VALIDATION_FAILED may go live after all on a retry;
  then a removed file has a visible version (`RetiredIsHidden`).
* When the newest version is a duplicate or fails, an older PENDING one that is live
  stays visible (`service.py:729` says "for up to one sync interval").
* A file edited and moved to the restricted folder at once leaves its older visible
  version at the old tier until it is replaced (`FolderTierHolds` is of the newest).
* After a failed fetch, a tier raised by hand on the row's document is lost to the
  import that follows (`service.py:532`).
* A crash between changing a document's tier and recording it, after which the file is
  moved back, leaves the looser tier. A crash between receiving a document and recording
  it leaves a visible document no row tracks. A crash between hiding and marking, after
  which the file returns, leaves it hidden. (`Smooth` in the properties.)
* A file whose content duplicates another file's document has no document of its own;
  when the other file is removed, nothing is visible for it.
* A restore through the API whose checks are past when a pass retires the document
  undoes the pass (`byHand`).
* A folder reached by two ways may be seen first by the longer one, so that its subtree
  ends at the cap although a shorter way exists (`Plain` in `WatchedAsFiled`). A folder
  moved while the walk is at another may be in neither listing.

Questions:

* `BoundaryRecord` is said to carry the highest classification across every passage
  considered (`gateway/models.py:41`); `send` classifies only those kept
  (`gateway/service.py:192`). `RecordIsHonest` states the latter.
* The tiers are read again before the call, visibility is not: a passage of a document
  hidden or erased after the search may still be sent.
* A page may be short although the caller may see more: a passage without a vector (its
  document is CHUNKED or EMBEDDING_FAILED, or was re-chunked) is not in the semantic arm
  (`retrieval/service.py:130`), and the scan of the index ends at a memory budget before
  the filters are satisfied (`retrieval/service.py:106` "it raises the ceiling rather than
  removing it"). Where the words match nothing either, "the caller cannot tell whether the
  document was thin" (lines 77-78) all the same. `FullPage` therefore counts what was found.

Text. The first four are cases of a wrong citation, which `CitedRight` exempts
(`Doubtful`); `FitsWindow` exempts the fifth and `NothingLost` the sixth:

* Prose that repeats a heading's words before the heading is cut there, because the
  chunker looks for the heading's text from the start (`chunker.py:185`; the docstring
  says it degrades "instead of cutting in the wrong place"). `Mistaken` exempts what
  stands between the two, and nothing after the heading.
* On a typed page that OCR reads again because it has little text, a heading OCR is not
  sure of is looked for all the same (its native text gave it), and is found in whatever
  else says its title, although such a heading is to be "skipped rather than guessed at"
  (`chunker.py:186-187`). In a page A, B, A with the first A unread the last one is taken
  for it, B is not found after it, and B's text is cited under the section before.
  `Mistaken` exempts what follows either of the two, until a heading of a later page.
* Word footnotes are appended at the end and cited under the last heading
  (`extractors.py:413`).
* A table or picture above the only heading of its unit is cited under it (`KNOWN_DEBTS.md:371`:
  "Closed for DOCX, PPTX, XLSX").
* The hard wrap takes its width from the average of the text, less a tenth, and does not
  measure the pieces: "The 10% margin covers the densest stretch being worse than the
  average this ratio describes" (`chunker.py:254`). It does as long as no stretch is denser
  than the average by that tenth, less the special tokens (`Balanced`). The two averages
  that `sizing.py:9-11` names, 4.11 and 3.15 characters to a token, are 30 per cent apart: a
  run without breaks that is prose for most of its length and code at its end gives a last
  piece over the window, which is truncated when it is embedded, although neither a
  setting nor a model "can produce a chunk the model would truncate" (`sizing.py:86-87`).
* What OCR leaves out is to be found again: "a gap must be *recorded*" (`ocr.py:165`), a
  page past the budget is "Recorded, never silent" (`extractors.py:137`), and without an
  engine the scans are to be recorded "as unreadable" (`ocr.py:190`). The budget's pages and
  the unsure lines are; these leave no record at all: scanned pages when OCR is off, in a
  document that has other text (`extractors.py:247`); all pictures when there is no reader
  (`extraction/service.py:86`); a picture of an unknown extension (`pictures.py:132`), one that
  cannot be decoded (`pictures.py:160`), one whose lines are all unsure (`pictures.py:178`);
  one of a PDF page that cannot be drawn (`picture_source.py:81`, a debug line).
* The quality gate counts the text of the units alone: a Word file of nothing but
  tables, a deck of pictures, or a scan that is one ruled table fails as empty.
* A page read by OCR whose text is all table counts neither against `OCR_MAX_PAGES` nor
  as read by OCR. A page whose OCR fails leaves a log line only.
* The numbering of pictures in a workbook counts chart sheets; the text extractor's
  numbering of sheets does not.

## 6. Proofs

Proofs hold for every value of the constants that satisfies the named assumptions of
the modules (`QueueAssumption` and its kin say that the constants have their types).

`JobQueueProofs`, for every set of jobs, workers and stages and every retry limit:

* `QueueTypeCorrect`: `QueueTypeOK` is inductive by itself. `RowEdits`, `NewRows` and
  `WorkerEdits` say once what each UPDATE makes of a row, and all later proofs cite
  them instead of expanding records.
* `OwnershipHolds`: inductive together with the types (`OwnershipStep`).
* `RetryCeilingHolds`: the bound is not inductive, because nothing in it says how much
  late workers may still add. The invariant is
  `StaleInv == QueueTypeOK /\ OwnershipMatchesStatus /\ ClaimsDistinct /\ RetriesAccounted`.
  A row goes back to PENDING only with a higher count, so two workers on the job hold
  different counts (`ClaimsStep`); a worker may re-queue only if its count is below the
  limit, so there are at most `MaxRetries` such workers, and each re-queueing uses one
  up (`AccountedStep`, `AccountStep`, `RetryCountsBound`). The reaper re-queues only
  below the limit, where the bound holds anyway.
* `SingleExecutionHolds`, `RetryBudgetHolds`, `SettledIsFinalHolds`: under
  `LeaseLoss = {}`, from `HeldInv`: a worker that is on a job is the one its row names,
  the row is RUNNING with a held lease, and the counts agree. Late writes then do not
  exist, and a re-queueing finds the row's count below the limit.
* `NewestClaimHolds`: for any stalls; from `StaleInv`: a claim finds the counts of all
  others on the job below the row's (`ClaimsDistinct`), and no later UPDATE lowers the
  count or names another worker (`NewestStep`).
* `ClaimsAccounted` and `JobsHeld` state `StaleInv` and `HeldInv` as results of their
  own. `HeldInv` speaks of each stage by itself, so that a stage outside `LeaseLoss`
  keeps it while others stall. The pipeline's proofs take both from here.

`IngestionProofs`, for every instance of the pipeline and every choice of faults:

* `PipelineImplementsQueue`: `Spec => QueueSpec`. `HandlerStep` and `RequestStep` go
  through every handler and request step. The run `scan_stalls` checks the same on an
  instance.
* `PipelineRetryCeiling`, `PipelineOwnership`, and, where no lease is lost,
  `PipelineSingleExecution` and `PipelineRetryBudget`: the queue's theorems inside the
  pipeline.
* `PipelineTypeCorrect`: every table, object, handler and request keeps its type.
  `TypeOK` has one relational part, `TaskFits`: a handler's counter is one of its own
  stage's, and a handler past its load has a copy of a row. The lemmas around it (`Goes`, `Copies`,
  `CommitsTo`, `UpdatesTo`, `EscalatesTo`, `EraseEdits`, `QueueSteps`, `HandlerFrame`,
  `RequestsFrame`, `OthersKeep`) say what each committed write and each frame amounts
  to; everything below cites them.
* `ArtifactsPresentHolds`, under `Deletes = {}` and no reset, for any crashes, faults,
  lost leases and late workers. `ArtifactsPresent` says nothing of handlers, so it is not
  inductive; `KeptInv` adds what each handler has already put in place (`TaskKeeps`): one
  about to commit a status has stored what the status promises. `HandlerGrows` shows that
  nothing promised is ever removed.
* `StagesTakeTurns`: `StageInv`. A SCAN handler that has not written the document's fate
  works on an undecided document; a text handler that has not written works on a
  document in its stage's entry status, and alone; there is one SCAN job, and a received
  document is QUARANTINED until it is queued.
* `LiveIsCompleteHolds`, from `StageInv` and `LiveInv`: an EMBED handler at its commit
  has stored vectors on the passages that are there, and only CHUNK, which is then not
  at work on this document, replaces passages.

`LifeProofs`:

* `DedupTrue`: `DedupInv`. A checksum on a row is that of its bytes, the unique index
  holds, every DUPLICATE has a holder elsewhere, and a handler's copy of its row is still
  true when it is written back (`ScanKnows`). `ScanSolo`, one handler per document, comes
  from `HeldInv` or from `OneScanner`.
* `DuplicateHasCanonicalHolds` follows from it together with `KeptInv`.
* `StricterTierWinsHolds`: `TierInv` follows the escalation through the branch by
  checksum, which raises the tier before it writes DUPLICATE, and the branch after the
  `IntegrityError`, which writes DUPLICATE first. In the second the job is still RUNNING,
  which is why the property speaks of documents nobody works on.
* `PipelineImplementsLife`: `Spec => LifeSpec`, by `StageInv` (which life a step leaves),
  `DedupInv` (a document is only accepted if nobody else is) and the frames.
* `StrandedIsRecoverableHolds`, from `StrandInv`: a SCAN job is not COMPLETED while its
  document is undecided, a COMPLETED text job has moved its document on, and an upload
  that has not queued its job still holds the document in quarantine. With these, a
  document with no job, no FAILED job and no verdict stands in an entry status, and
  `KeptInv` gives the input.
* `ErasedNotSearchableHolds`, `TombstoneStaysHolds`: from `EraseInv`, with `StageInv` and
  `HeldInv`. A recorded claim has left the document's queue quiet, and nothing starts
  anew there (`QuietStays`); the passages are gone before the tombstone is written
  (`ErasedInOrder`). A worker is on a RUNNING job (`BusyOnIt`), so the only tombstone
  anybody can be on is that of a duplicate erased along with its original; its SCAN
  handler has written its status (`StageInv`) and touches the row no more
  (`ScanTouches`), and no text handler takes a DUPLICATE (`TextTouches`). The scan of
  another copy raises the tier of rows it finds by checksum, and a tombstone has none;
  that the scan itself has one by then is `HasChecksum`.
* `AuditTrailHolds`: the log alone cannot be inductive, since every handler commits first
  and records afterwards. `Due` says which event a handler at a given place has still to
  record, and `AuditInv` that the event of a document's status is in the log or due
  (`StatusAccounted`). `ScanRecords` and `TextRecords` go through the handlers: a commit
  puts its handler in front of the record of that very status, and a handler leaves
  the place only by recording. That every document gets beyond QUARANTINED takes the rest
  of `AuditInv`: a scan finds its bytes, which are given up only on the way to a verdict
  (`BytesThere`), so no SCAN job fails (`ScanNeverFails`), and a COMPLETED one has decided
  (`StrandHolds`). It holds for any number of workers per stage, with storage failing
  under the text stages, upload requests that die, and text stages that are back-filled,
  where the run `scan_tiers` has none of these.

The hypotheses of these theorems, and why each is needed:

* `Deletes = {}`: a delete removes objects and rewrites the row, and the properties but
  `LiveIsComplete` have no exception for it. What deletes do is the subject of the two
  erasure theorems.
* `EagerDelete = FALSE`, `BackfillStages = {}`, `LeaseLoss = {}` in the erasure theorems: a
  delete before the upload has answered, or a back-fill between the claim and the
  tombstone, lets a job in that nobody cancels (section 5), and a worker whose lease was
  lost works on although its job is no longer RUNNING. The run `erase` has the same bounds.
* `"reset" \notin Backfills` and `"SCAN" \notin BackfillStages`: both repeat a scan of a
  document that later stages may be working on, and its promotion would move a document
  back; nothing in the code prevents it but the operator.
* `Reliable` in `AuditTrailHolds`: the record of a status is a commit of its own, after
  that of the status. A worker that dies between the two, or a commit of the record that
  fails, leaves a retry that finds the work done and records nothing, so `Crashes` and
  `DatabaseFaults` leave out all stages. Where a lease is lost there, the worker that
  takes the job over finds the work done and completes the job while the first has still
  to record, so `LeaseLoss` is empty. A SCAN stage whose storage fails `MaxRetries`
  times leaves its document QUARANTINED, hence `"SCAN" \notin StorageFaults`.
* `OneWorkerPerStage`, `OneScanner`: the deployment of docker-compose, one process per
  stage. A theorem that only needs leases to keep up in SCAN takes either; that no
  lease is lost is a hypothesis about timing, one process per stage is not.
* `"SCAN" \notin Crashes \cup DatabaseFaults` in `StagesTakeTurns` and what rests on it: a
  scan that has queued EXTRACT and dies, or whose last UPDATE raises, is retried, and the
  document may be CHUNKED by then. The idempotency guard of `process` leaves out CHUNKED,
  so the retried scan starts over on a document that EMBED is working on.
* `"SCAN" \notin Crashes \cup DatabaseFaults` in `StricterTierWinsHolds`: a scan that dies
  between DUPLICATE and the escalation is not taken up again, because DUPLICATE counts as
  done. `scan_tiers` checks the property under the same restriction.

`AskProofs`, for every set of documents, users and passages, every deployment and every
ranking:

* `ListIsWhatOpensHolds`, `OfferIsKeptHolds`: from `AccessInv` (the rows have their
  types, and what is purged is deleted). The second fact is what makes the two forms of
  the rule agree: a list leaves out what is deleted, a request by id what is purged.
* `NothingRestrictedSentHolds`, `CitationsCheckOutHolds`: from
  `AskInv == RequestInv /\ TiersInv /\ PromptInv`. `TiersInv` ties each tier that was
  read to the passage it was read for, and the PUBLIC ones to `publicAt`; `PromptInv`
  leads each number of the prompt back to the page. Between the two stands `Kept`, the
  indices of what may cross, in order; `KthExists` shows by counting that they number
  the passages without a gap, and `KeptCross`, `PageOfPassages` and `SentFromPage` that
  what is sent is what was judged. One lemma per action preserves the invariant.
* `SamePlaceholderHolds`, `RecordIsHonestHolds`: from `HonestInv`. Placeholders number the
  values in the order in which they are first met. `MetAll` says that every value of the
  texts that cross gets a number, and `PlaceholdersDiffer`, by counting the values met up
  to each, that two values never get the same. Only `send` writes the record and the
  prompt (`OnlySend`), so one step is to be judged (`SendIsHonest`) and the rest keep it.
* `FullPageHolds`: each arm is cut to the pool after it is filtered, and the pool
  is at least as long as any limit the API accepts (`AskAssumption`: `le=50` in
  `retrieval.py:61`, `le=20` in `ask.py:59`, against the candidates each arm fetches).
  `FilterPasses` and `FilterKeeps` say what the filter keeps, `ArmReturns` that an arm
  has all that was found and allowed unless it has a whole pool, and `PageIsFull` that a
  page shorter than the limit holds all that was found and the caller may see.

`DriveWorkerProofs`, for every time of day, interval and length of a day:

* `CaughtUpHolds`: from `ScheduleInv == ClockTypes /\ RecordsInOrder /\ CaughtUp`. That no
  slot has passed between the last success and now without a pass needs what `IsDue`
  makes of days: `Division`, `DayApart` and `DayComes` are the arithmetic of remainders,
  and `NextSlot` says that between two instants with no slot the next one is not due.
* `NeverTwiceHolds`: a pass records the instant it started at, and no instant is due twice.
* `WatchedAsFiledHolds`, for every graph of folders, with cycles and folders of several
  parents, and every depth cap: `TreeInv`. Each folder the walk has met is on the frontier
  or has had its children met, and was met at a depth at which it is in the tree
  (`Walked`). At the end the frontier is empty, and `WalkReaches` turns that into
  completeness where each folder has one parent or the cap does not bind (`Plain`); the
  second rests on `WithinSettles`: the folders of a tree stop growing after as many levels
  as there are folders. Elsewhere the walk may see a folder by the longer way first, and
  the property only says that what it finds belongs there.

`DriveSyncProofs`, for any files, contents, syncers, edits, requests by hand, stalls, failures
and crashes:

* The base, `DriveBase`: one syncer is in a pass (`Alone`: the advisory lock), what a
  pass has in hand at each step (`PassFits`), and that a file's row names the youngest
  document the file has (`InOrder`). One lemma per action says what it does and that it
  keeps the base (`ReceivesBase`, `RecordsBase`, `AddsBase`, ..., `RetireMarksBase`), and
  `BaseStep` puts them together. The layers below cite these lemmas and not the actions;
  `Kinds` sorts the steps. `Newest` and the oldest of a set exist by `WellFoundedInduction`.
* `ReplacedHiddenHolds`: `Owned` (two files have no document in common) and `ReplacedInv`:
  what a pass has replaced so far is hidden, and no row names a superseded version, so
  that the restore of a file, which starts from its row, does not bring one back.
* `ImportedOnceHolds`: `MarksInv`. With no failed file the times of a Google-native file
  are in order: its versions', then its row's, then the listing's, then Drive's. A listed
  time that is new is later than every version's.
* `RetiredHiddenHolds`: `RetireInv` (what is left of a file to hide) and `RemovedInv`: a
  removed version is hidden unless a pass has just taken it up again, and a removed file
  has nothing that could become visible unless a pass is on it.
* `NeverBlankHolds`, an action property: `TargetsInv` (a pass hides documents of its own
  file only, and never the newest while it replaces) and `BlankInv`: if no pass was cut
  short, the only hidden versions still waiting are erased or those of a file in hand, and the
  newest version of a file that is being replaced is visible or erased until the pass is done.
  `ErasedInv` says that what is erased stays hidden: no restore brings it back.
* `FolderTierHoldsAlways`: `FoldersInv` (past its listing a pass leaves the listed tier in
  every row it is through with), `BackInv` (a pass that goes on to move a file that was
  gone has brought its newest version back first) and `TierInv`: the newest version of a
  file is as restricted as its row says, except on the file a pass is moving, and there
  the documents already moved are as restricted as it is listed.
  Without `BackInv` the move would leave out a version that is removed when the targets
  are taken, and take it up afterwards at its old tier.

`PassagesProofs`, for every file of the four formats, every outcome of OCR and of reading
its pictures, and every setting that `ChunkerAssumption` admits:

* `FitsWindowHolds`: no passage is longer than the embedding model reads, a table of one
  row aside, and a slice of a text of uneven density. Sizes add up over texts put
  together (`SizeOfConcat`), and a slice is as large as the stretch it is cut from,
  edges included (`SliceSize`, by counting what each word contributes). `WidthFits` is
  the arithmetic of the hard wrap: in a text that is `Balanced`, a slice's width in
  characters times the rate of any word is at most the window less the special tokens;
  `TokensWithin` bounds the tokens of a slice by its characters at the densest rate, and
  `HardWrapFits` joins the two: each slice fits, or its words are marked. From there one
  lemma per method: `PackFits`, `ParagraphFits`, `SplitFits`, then `GroupFits`, where
  rows are halved until a group fits or is one row, in as many rounds as there are rows
  at most (after each round no group that still does not fit is longer than the rows
  less the rounds), then `SectionsFit` and `UnitFits` for a whole unit. `OfficeRead`,
  `PageIs`, `PicturesMerged` and the lemmas before them say that what an extractor makes
  of any file is content the chunker can be given; the inductive invariant `TextInv`
  (TLC checks it, and `KeptInv` below, on a few of the files) puts the two together.
* `NothingLostHolds`: each word of each block is in passages in full, found by its
  title, left out on purpose, recorded, or dropped by its reader. `Held` says that the
  pieces of a word in some texts add up to its size; `HardWrapKeeps` shows it for a word
  that is cut (`SliceHas` and `Counting` follow the stretch of a text that each slice
  takes), and `PackKeeps`, `SplitKeeps`, `FitGroupKeeps` and `RenderKeeps` carry it to a
  section's text and a table's rows. `SectionsHave` says that the sections are the whole
  text, and `SectionsTell` that what waits for its heading is placed or waits on, so
  that with `UnitTells` all that a unit has is safe in its passages. On the way there,
  `OfficeHas`, `PageHas`, `OcrHas`, `PicturesHas` and `MergedHas` say where each kind of
  block ends up in each format, and `CleanedHas` what cleaning leaves. The inductive
  invariant `KeptInv` puts these in sequence: every block of a unit that was read is
  left out, a gap (`Gone`), a picture still to be read, or each of its words is with a
  unit not yet cut or safe in passages. One lemma per step keeps it (`ReadingKeeps`,
  `PicturesKeep`, `PicturesPassed`, `NormalizeKeeps`, `ChunkingKeeps`). What may be
  dropped is fixed by the actions: the drawings of a page when there is no OCR, and
  pictures that were to be read; whatever OCR or a reader returned is kept.

`SequenceLemmas` is what four of these modules need of numbers and sequences. The induction
theorems of the library take a predicate as a parameter, which the provers cannot
instantiate; here induction is over a set of numbers instead (`Induct`, from the
well-foundedness of `<`), so each proof by induction defines the set of numbers for which its
claim holds. A computation over a list, one element after the other, is a recursive
function of how many elements are done; `RunExists` says that such a function is what its
equations say, and `RunStays` that what each step preserves holds at the end. `KthExists`,
`OrderIsSeq`, `OrderHasAll` and `Flattened` are about the community modules' operators.
`SelectSeq` and `SortSeq` are defined recursively there and stay opaque to the prover, so
modules that are proved about filter with `Only` (Chunker) and `Filtered` (Retrieval), and
fold with a LET function.

What these theorems assume of the constants, beyond types: the special tokens fit in the
tenth that the hard wrap leaves (a tokenizer adds two, the limits are hundreds; without it a
wrapped text can be too long); a single character fits in a passage, at every rate of
`Rates`; a file is of a known format, with blocks that have parts and
are of the kinds its format has (`PassagesAssumption`, `Lacks`: a sheet is its grid, a PDF
page's charts are pictures and its notes prose); `OCR_MIN_NATIVE_CHARS` is not 0 (the
setting is 20; at 0 no page would be for OCR, and scanned pages would be lost without a
record); and a request's limit is one the API accepts.

Only model-checked:

* liveness, which is out of the prover's reach with fairness and ENABLED;
* `CitedRight`, with the exemptions of section 5. A proof would need, beyond `KeptInv`,
  the order in which words stand through every cut and the heading in force from unit to
  unit.

## 7. Not modelled

* Tables in pictures, charts and diagrams (`picture_tables.py`, chart and SmartArt
  readers): geometry over pixels and XML, with no state. Passages starts from the tables
  they return.
* Login and accounts, migrations, settings, the UI, evaluation scripts: library code,
  schema and offline measurement. No property of the corpus depends on them.
* The supersede/version branch of the scan: it needs an upload request with version
  metadata, which no worker passes to the handler.
* Upload's own checks, status and passage endpoints, paging; a request of several files
  that fails midway (a hazard without a property); a restore that races a purge between
  its check and its UPDATE.
* Query parsing and the expansion of follow-up questions; the order in which the vector
  index yields passages is any order, so its approximation has no model of its own.
* In Drive, owner resolution and dry runs, which change nothing here.
* The two counts of a page's characters: whether it is for OCR is decided by one library's
  text (`extractors.py:223`), whether its pictures are read by another's
  (`picture_source.py:73`). The model takes one size for both; near the limit a page may be
  enough for the first and not for the second, and then its pictures are read by neither.
* Characters: fonts, styles, title fallbacks, cleaning beyond page furniture, languages,
  repeated logos and pictures that are too small, which are passed over on purpose. A
  word's density is uniform, though a run of several words need not be; what OCR does not
  find at all leaves no trace in the code or the model. Separators between table rows cost
  nothing, so the halving in `_fit_group` is never forced by them.
* `CharacterBudget`, the fallback when no tokenizer can be had (`sizing.py:64`): it limits
  characters, and says itself that the model may truncate what it lets through.
* A commit that takes effect although its acknowledgement is lost; heartbeats, logging,
  back-off lengths; a `process_job` that hangs.

## 8. Plan

1. *Erasure beside questions.* Compose Api's step-by-step erase with Ask instead of the
   one step of Access.
2. *Proofs.* `AuditTrail` beside deletes; `CitedRight`, from lemmas
   that each cut keeps the order of the words.
3. *Versions.* The supersede branch of the scan, once a worker passes the metadata.
