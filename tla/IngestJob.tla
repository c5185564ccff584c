------------------------------ MODULE IngestJob ------------------------------
(***************************************************************************)
(* The life of an uploaded document: the handlers of app/api/v1/ingest.py, *)
(* the pipeline run that classifies, extracts and stages it, the bytes the *)
(* run reads (shared table ingest_files and local scratch files) and the   *)
(* pathway lock of the company.  A run is either a background task of the  *)
(* web process, which dies with it, or a step of the workflow engine,      *)
(* which the engine starts again.                                          *)
(*                                                                         *)
(* Handlers run on the event loop and do not interleave with one another   *)
(* between awaits; runs are threads and interleave with everything.  All   *)
(* uploads name the same company.  "A" stands for build_from_scratch, "B"  *)
(* for work_with_existing.                                                 *)
(***************************************************************************)
EXTENDS Naturals, FiniteSets

CONSTANTS
    Ings,           \* documents
    Runs,           \* pipeline runs
    Fanout,         \* documents uploaded in documents mode under the engine
    None,           \* no document or run
    Slots,          \* INGEST_PIPELINE_CONCURRENCY
    DocSize,        \* transactions a source document holds
    MaxAttempts,    \* validation attempts (OutputValidator.MAX_RETRIES)
    MaxNodeRetries, \* attempts of the write phase on a transient fault
    MaxEdits,       \* bound: requests of the user after the uploads
    MaxFaults       \* bound: database faults and restarts of the server

ASSUME IngestNat ==
    /\ Slots \in Nat \ {0} /\ DocSize \in Nat \ {0}
    /\ MaxAttempts \in Nat \ {0} /\ MaxNodeRetries \in Nat \ {0}
    /\ MaxEdits \in Nat /\ MaxFaults \in Nat
ASSUME IngestSets ==
    /\ IsFiniteSet(Runs) /\ Fanout \subseteq Ings
    /\ None \notin Ings \cup Runs

VARIABLES
    job,      \* Ings -> status, pathway, confirmation, errors of ingest_jobs
    blob,     \* documents with a row in ingest_files
    scratch,  \* documents with a local scratch file
    staged,   \* Ings -> rows of transactions_pending
    period,   \* Ings -> state of the period of its financial statement
    lock,     \* company_settings.locked_pathway
    upload,   \* the upload between its check of the lock and its commit
    run,      \* Runs -> what the pipeline run is doing
    writer,   \* the run that holds the write permit, or None
    attempts, \* Ings -> write phases begun for it (history)
    edits,    \* requests of the user so far
    faults,   \* database faults so far
    crashes   \* restarts so far

vars == <<job, blob, scratch, staged, period, lock, upload, run, writer,
          attempts, edits, faults, crashes>>
files == <<blob, scratch>>
books == <<staged, period, attempts>>
bounds == <<edits, faults, crashes>>

Pathways == {"none", "A", "B"}
Statuses == {"absent", "pending_processing", "pending_review", "processing",
             "completed", "failed", "cancelled"}
Terminal == {"completed", "failed", "cancelled"}
Pcs == {"idle", "event", "queued", "rehydrate", "route", "classified",
        "review", "lock", "extract", "interpret", "validate", "persist",
        "stage", "error", "cleanup", "done", "lost"}

NoUpload == [ing |-> None, path |-> "none"]
JobState == [status: Statuses, path: Pathways, confirmed: BOOLEAN,
             errors: BOOLEAN]
RunState == [ing: Ings \cup {None}, pc: Pcs, path: Pathways,
             kind: {"task", "step"}, n: Nat, tries: Nat]

IngestTypeOK ==
    /\ job \in [Ings -> JobState]
    /\ blob \subseteq Ings /\ scratch \subseteq Ings
    /\ staged \in [Ings -> Nat]
    /\ period \in [Ings -> {"none", "extracted", "reviewed"}]
    /\ lock \in Pathways
    /\ upload = NoUpload \/ upload \in [ing: Ings, path: Pathways]
    /\ run \in [Runs -> RunState]
    /\ writer \in Runs \cup {None}
    /\ attempts \in [Ings -> Nat]
    /\ edits \in 0..MaxEdits
    /\ faults \in Nat /\ crashes \in Nat /\ faults + crashes <= MaxFaults

NewJob == [status |-> "absent", path |-> "none", confirmed |-> FALSE,
           errors |-> FALSE]
RunOf(i, pc, kind) ==
    [ing |-> i, pc |-> pc, path |-> "none", kind |-> kind, n |-> 0, tries |-> 0]
NewRun == RunOf(None, "idle", "task")

Init ==
    /\ job = [i \in Ings |-> NewJob]
    /\ blob = {} /\ scratch = {}
    /\ staged = [i \in Ings |-> 0]
    /\ period = [i \in Ings |-> "none"]
    /\ lock = "none" /\ upload = NoUpload
    /\ run = [r \in Runs |-> NewRun]
    /\ attempts = [i \in Ings |-> 0]
    /\ writer = None /\ edits = 0 /\ faults = 0 /\ crashes = 0

Exists(i) == job[i].status # "absent"
Live(r) == run[r].pc \notin {"idle", "done", "lost"}
LiveOn(i) == {r \in Runs : Live(r) /\ run[r].ing = i}
InSlot(r) == Live(r) /\ run[r].kind = "task" /\ run[r].pc # "queued"
Edit == edits < MaxEdits /\ edits' = edits + 1
LoopFree == upload = NoUpload   \* no handler between two of its steps

\* Mutant: the label of the enum type is not the one of the program
SetJobMiscased(i, status) ==
    job' = [job EXCEPT ![i].status = IF status = "cancelled" THEN "CANCELLED"
                                     ELSE status]

\* update_ingest_job: the status is written whatever it was before
SetJob(i, status) == job' = [job EXCEPT ![i].status = status]
FailJob(i) == job' = [job EXCEPT ![i].status = "failed", ![i].errors = TRUE]

\* Mutant: an unconditional UPDATE
LockOver(p) == lock' = p

\* get_company_locked_pathway and the conditional UPDATE of
\* set_company_locked_pathway
LockWith(p) == lock' = IF lock = "none" THEN p ELSE lock

\* add_task, or client.send: the run waits for its slot or its event
Spawn(r, i, kind) ==
    run' = [run EXCEPT ![r] =
               RunOf(i, IF kind = "task" THEN "queued" ELSE "event", kind)]

FreeRun(r) == r = CHOOSE q \in Runs : run[q].pc = "idle"

Goto(r, pc) == run' = [run EXCEPT ![r].pc = pc]
Finish(r) == run' = [run EXCEPT ![r] = RunOf(run[r].ing, "done", "task")]

(***************************************************************************)
(* Handlers                                                                *)
(***************************************************************************)
\* sweep_expired: blobs older than a week, of documents nobody works on
SweepExpired(old) ==
    /\ \A i \in old : LiveOn(i) = {}
    /\ blob' = blob \ old

\* The part of upload_file up to the check of the lock.  p = "B" is a
\* statement whose type the user selected, "none" one still to classify.
UploadCheck(i, p, old) ==
    /\ LoopFree /\ ~Exists(i)
    /\ SweepExpired(old)
    /\ lock # "none" => lock = IF p = "none" THEN "A" ELSE p
    /\ upload' = [ing |-> i, path |-> p]
    /\ UNCHANGED <<job, scratch, lock, run, writer, books, bounds>>

\* The rest of upload_file: job and blob in one commit, the lock of the
\* company, and the run.
UploadStore(r) ==
    LET i == upload.ing
        p == upload.path IN
    /\ ~LoopFree
    /\ run[r].pc = "idle" /\ FreeRun(r)
    /\ job' = [job EXCEPT ![i] = [status |-> "pending_processing",
                  path |-> p, confirmed |-> (p # "none"), errors |-> FALSE]]
    /\ blob' = blob \cup {i}
    /\ IF p = "none" THEN UNCHANGED lock ELSE LockWith(p)
    /\ Spawn(r, i, IF i \in Fanout THEN "step" ELSE "task")
    /\ upload' = NoUpload
    /\ UNCHANGED <<scratch, writer, books, bounds>>

\* One file of an upload in documents mode whose event cannot be sent.
UploadNotSent ==
    LET i == upload.ing
        p == upload.path IN
    /\ ~LoopFree /\ i \in Fanout
    /\ job' = [job EXCEPT ![i] = [status |-> "failed", path |-> p,
                  confirmed |-> (p # "none"), errors |-> TRUE]]
    /\ IF p = "none" THEN UNCHANGED lock ELSE LockWith(p)
    /\ upload' = NoUpload
    /\ UNCHANGED <<run, writer, files, books, bounds>>

\* update_ingest_classification with confirmed = true: the status goes back
\* to pending_processing whatever it is; without files the job fails.
Confirm(i, p, r) ==
    /\ LoopFree /\ Edit /\ Exists(i)
    /\ \/ /\ i \in blob \cup scratch
          /\ run[r].pc = "idle" /\ FreeRun(r)
          /\ job' = [job EXCEPT ![i].status = "pending_processing",
                                ![i].path = p, ![i].confirmed = TRUE]
          /\ scratch' = scratch \cup {i}
          /\ Spawn(r, i, "task")
          /\ UNCHANGED blob
       \/ /\ i \notin blob \cup scratch
          /\ job' = [job EXCEPT ![i] = [status |-> "failed", path |-> p,
                        confirmed |-> TRUE, errors |-> TRUE]]
          /\ UNCHANGED <<run, files>>
    /\ UNCHANGED <<lock, upload, writer, books, faults, crashes>>

\* update_ingest_classification with confirmed = false
Reclassify(i, p) ==
    /\ LoopFree /\ Edit /\ Exists(i)
    /\ job' = [job EXCEPT ![i].status = "pending_review", ![i].path = p,
                          ![i].confirmed = FALSE]
    /\ UNCHANGED <<lock, upload, run, writer, files, books, faults, crashes>>

\* update_ingest_period: the reviewer overrides the extracted period
ReviewPeriod(i) ==
    /\ LoopFree /\ Edit /\ Exists(i)
    /\ period[i] # "none"
    /\ period' = [period EXCEPT ![i] = "reviewed"]
    /\ UNCHANGED <<attempts, job, staged, lock, upload, run, writer, files,
                   faults, crashes>>

\* cancel_ingest
Cancel(i) ==
    /\ LoopFree /\ Edit
    /\ job[i].status \notin Terminal \cup {"absent"}
    /\ SetJob(i, "cancelled")
    /\ blob' = blob \ {i} /\ scratch' = scratch \ {i}
    /\ UNCHANGED <<lock, upload, run, writer, books, faults, crashes>>

\* merge_ingest_jobs: the source is cancelled; its files and its staged rows
\* stay (raw_data, which is concatenated, is not modelled).
Merge(target, source) ==
    /\ LoopFree /\ Edit /\ target # source
    /\ \A i \in {target, source} :
          job[i].status \notin {"absent", "cancelled", "failed"}
    /\ job' = [job EXCEPT ![source].status = "cancelled",
                          ![source].errors = TRUE]
    /\ UNCHANGED <<lock, upload, run, writer, files, books, faults, crashes>>

\* get_ingest_status on a job older than a minute: staged rows on a job that
\* is still pending or processing, without errors, are read as its end.
Reconcile(i) ==
    /\ LoopFree
    /\ job[i].status \in {"pending_processing", "processing"}
    /\ staged[i] > 0 /\ ~job[i].errors
    /\ SetJob(i, "completed")
    /\ UNCHANGED <<books, files, lock, upload, run, writer, bounds>>

(***************************************************************************)
(* The run                                                                 *)
(***************************************************************************)
Keep == UNCHANGED <<lock, upload, writer, attempts, bounds>>

\* process_ingest_background: wait for INGEST_PIPELINE_SEMAPHORE
AcquireSlot(r) ==
    /\ run[r].pc = "queued"
    /\ Cardinality({q \in Runs : InSlot(q)}) < Slots
    /\ Goto(r, "rehydrate")
    /\ Keep /\ UNCHANGED <<job, staged, period, files>>

\* _ingest_pipeline_handler: an event for a job that has ended is skipped,
\* files that are gone fail the job, and otherwise the run starts, without a
\* slot of the semaphore.
StartStep(r) ==
    LET i == run[r].ing IN
    /\ run[r].pc = "event"
    /\ \/ /\ job[i].status \in Terminal
          /\ Finish(r)
          /\ UNCHANGED <<job, files>>
       \/ /\ job[i].status \notin Terminal
          /\ i \in blob \cup scratch
          /\ scratch' = scratch \cup {i}
          /\ Goto(r, "rehydrate")
          /\ UNCHANGED <<job, blob>>
       \/ /\ job[i].status \notin Terminal
          /\ i \notin blob \cup scratch
          /\ FailJob(i)
          /\ Finish(r)
          /\ UNCHANGED <<files>>
    /\ Keep /\ UNCHANGED <<staged, period>>

\* ensure_local_files at the head of _run_ingest_pipeline
Rehydrate(r) ==
    LET i == run[r].ing IN
    /\ run[r].pc = "rehydrate"
    /\ \/ /\ i \in blob \cup scratch
          /\ scratch' = scratch \cup {i}
          /\ Goto(r, "route")
          /\ UNCHANGED job
       \/ /\ i \notin blob \cup scratch
          /\ FailJob(i)
          /\ Goto(r, "cleanup")
          /\ UNCHANGED scratch
    /\ Keep /\ UNCHANGED <<blob, staged, period>>

\* route_ingest up to the read of the job.  A confirmed type is used as it
\* is; otherwise the document goes to the classifier.
Route(r) ==
    LET i == run[r].ing IN
    /\ run[r].pc = "route"
    /\ \/ /\ i \notin scratch                  \* the file vanished
          /\ Goto(r, "error")
       \/ /\ i \in scratch /\ job[i].confirmed
          /\ run' = [run EXCEPT ![r].pc = "lock", ![r].path = job[i].path]
       \/ /\ i \in scratch /\ ~job[i].confirmed
          /\ Goto(r, "classified")
    /\ Keep /\ UNCHANGED <<job, staged, period, files>>

\* An exception while routing: "continuing with default"
RouteRaises(r) ==
    /\ run[r].pc \in {"classified", "review"}
    /\ faults + crashes < MaxFaults /\ faults' = faults + 1
    /\ run' = [run EXCEPT ![r].pc = "extract", ![r].path = "A"]
    /\ UNCHANGED <<edits, job, lock, upload, writer, crashes, files, books>>

\* classify_document answers, and the answer is stored beside the status
\* the job has; or it cannot answer.
Classify(r) ==
    LET i == run[r].ing IN
    /\ run[r].pc = "classified"
    /\ \/ \E p \in {"A", "B"} :
             /\ job' = [job EXCEPT ![i].path = p]
             /\ run' = [run EXCEPT ![r].pc = "review", ![r].path = p]
       \/ /\ Goto(r, "error")
          /\ UNCHANGED job
    /\ Keep /\ UNCHANGED <<staged, period, files>>

\* An unconfirmed document is parked for review, whatever its status is by
\* now, and a confirmation that came meanwhile is withdrawn.
ParkForReview(r) ==
    LET i == run[r].ing IN
    /\ run[r].pc = "review"
    /\ job' = [job EXCEPT ![i].status = "pending_review",
                          ![i].path = run[r].path, ![i].confirmed = FALSE]
    /\ Goto(r, "cleanup")
    /\ Keep /\ UNCHANGED <<staged, period, files>>

\* Mutant: the router does not take the lock
LockNothing(r) ==
    /\ run[r].pc = "lock"
    /\ run' = [run EXCEPT ![r].pc = "extract"]
    /\ UNCHANGED <<job, files, books, lock, upload, writer, bounds>>

\* A confirmed document locks the company to its pathway, and is extracted.
\* A spreadsheet that looks like a bank statement is made a source document.
LockPathway(r) ==
    /\ run[r].pc = "lock"
    /\ LockWith(run[r].path)
    /\ \E p \in {"A", run[r].path} :
          run' = [run EXCEPT ![r].pc = "extract", ![r].path = p]
    /\ UNCHANGED <<job, upload, writer, files, books, bounds>>

\* _parse_single_file, for each page of the document: the parser in its two
\* modes, each with its retries
Parse(r) ==
    /\ run[r].pc = "extract"
    /\ Goto(r, "interpret") \/ Goto(r, "error")
    /\ Keep /\ UNCHANGED <<job, files, staged, period>>

\* _ingest_documents_mode: every file is parsed and interpreted by itself
IngestDocuments(r) ==
    /\ run[r].pc = "extract"
    /\ Goto(r, "validate") \/ Goto(r, "error")
    /\ Keep /\ UNCHANGED <<job, files, staged, period>>

\* The model interprets the text, with the corrections of the last attempt
Interpret(r) ==
    /\ run[r].pc = "interpret"
    /\ Goto(r, "validate") \/ Goto(r, "error")
    /\ Keep /\ UNCHANGED <<job, files, staged, period>>

\* Mutant: the attempt is not counted
ValidateForever(r) ==
    /\ run[r].pc = "validate"
    /\ Goto(r, "persist") \/ Goto(r, "interpret")
    /\ Keep /\ UNCHANGED <<job, files, staged, period>>

\* validate_output_node: valid; invalid with attempts left, which interprets
\* the text again (files read one by one are parsed again, their text was not
\* kept); or invalid for the last time
Validate(r) ==
    /\ run[r].pc = "validate"
    /\ \/ run' = [run EXCEPT ![r].pc = "persist", ![r].n = 0]
       \/ /\ run[r].n + 1 < MaxAttempts
          /\ \E pc \in {"interpret", "extract"} :
                run' = [run EXCEPT ![r].pc = pc, ![r].n = @ + 1]
       \/ /\ run[r].n + 1 = MaxAttempts
          /\ run' = [run EXCEPT ![r].pc = "error", ![r].n = 0]
    /\ Keep /\ UNCHANGED <<job, files, staged, period>>

\* db_persist_node waits two minutes for DB_WRITE_SEMAPHORE, which process
\* pipelines take as well
AcquireWriter(r) ==
    /\ run[r].pc = "persist"
    /\ \/ /\ writer = None
          /\ writer' = r
          /\ run' = [run EXCEPT ![r].pc = "stage", ![r].n = 0,
                                ![r].tries = 1]
          /\ attempts' = [attempts EXCEPT ![run[r].ing] = @ + 1]
          /\ IF run[r].path = "A"
             THEN SetJob(run[r].ing, "processing")
             ELSE UNCHANGED job
       \/ /\ Goto(r, "error")
          /\ UNCHANGED <<writer, job, attempts>>
    /\ UNCHANGED <<staged, period, lock, upload, files, bounds>>

\* Mutant: one row too many
StageOneMore(r) ==
    LET i == run[r].ing IN
    /\ run[r].pc = "stage" /\ run[r].path = "A"
    /\ \/ /\ run[r].n <= DocSize
          /\ staged' = [staged EXCEPT ![i] = @ + 1]
          /\ run' = [run EXCEPT ![r].n = @ + 1]
          /\ UNCHANGED <<job, writer>>
       \/ /\ run[r].n > DocSize
          /\ job' = [job EXCEPT ![i].status = "completed", ![i].path = "A"]
          /\ writer' = None
          /\ Goto(r, "cleanup")
          /\ UNCHANGED staged
    /\ UNCHANGED <<attempts, period, lock, upload, files, bounds>>

\* Source documents: one committed row of transactions_pending per
\* transaction, and the job is completed after the last
StageNext(r) ==
    LET i == run[r].ing IN
    /\ run[r].pc = "stage" /\ run[r].path = "A"
    /\ \/ /\ run[r].n < DocSize
          /\ staged' = [staged EXCEPT ![i] = @ + 1]
          /\ run' = [run EXCEPT ![r].n = @ + 1]
          /\ UNCHANGED <<job, writer>>
       \/ /\ run[r].n = DocSize
          /\ job' = [job EXCEPT ![i].status = "completed", ![i].path = "A"]
          /\ writer' = None
          /\ Goto(r, "cleanup")
          /\ UNCHANGED staged
    /\ UNCHANGED <<attempts, period, lock, upload, files, bounds>>

\* Statements: one commit of the statement and the end of the job
\* (_persist_financial_statement)
PersistStatement(r) ==
    LET i == run[r].ing IN
    /\ run[r].pc = "stage" /\ run[r].path = "B"
    /\ job' = [job EXCEPT ![i].status = "completed", ![i].path = "B"]
    /\ period' = [period EXCEPT ![i] = "extracted"]
    /\ writer' = None
    /\ Goto(r, "cleanup")
    /\ UNCHANGED <<attempts, staged, lock, upload, files, bounds>>

\* with_db_retry: a transient fault runs the write phase of a source
\* document from its start; a statement is rolled back and its job failed.
StageFaults(r) ==
    LET i == run[r].ing IN
    /\ run[r].pc = "stage"
    /\ faults + crashes < MaxFaults /\ faults' = faults + 1
    /\ \/ /\ run[r].path = "A"
          /\ run[r].tries < MaxNodeRetries
          /\ SetJob(i, "processing")
          /\ run' = [run EXCEPT ![r].n = 0, ![r].tries = @ + 1]
          /\ attempts' = [attempts EXCEPT ![i] = @ + 1]
          /\ UNCHANGED writer
       \/ /\ run[r].path = "A" /\ run[r].tries = MaxNodeRetries
          /\ writer' = None
          /\ Goto(r, "error")
          /\ UNCHANGED <<job, attempts>>
       \/ /\ FailJob(i)                           \* not a transient fault
          /\ writer' = None
          /\ Goto(r, "error")
          /\ UNCHANGED attempts
    /\ UNCHANGED <<edits, staged, period, lock, upload, crashes, files>>

\* An error of the pipeline, or an exception out of it, fails the job
ReportError(r) ==
    /\ run[r].pc = "error"
    /\ FailJob(run[r].ing)
    /\ Goto(r, "cleanup")
    /\ Keep /\ UNCHANGED <<staged, period, files>>

\* Mutant: a failed document keeps its files, to be tried again
CleanupCompleted(r) ==
    LET i == run[r].ing IN
    /\ run[r].pc = "cleanup"
    /\ IF job[i].status # "completed"
       THEN UNCHANGED files
       ELSE blob' = blob \ {i} /\ scratch' = scratch \ {i}
    /\ Finish(r)
    /\ Keep /\ UNCHANGED <<job, staged, period>>

\* The finally block: the files go unless the job waits for its review
Cleanup(r) ==
    LET i == run[r].ing IN
    /\ run[r].pc = "cleanup"
    /\ IF job[i].status = "pending_review"
       THEN UNCHANGED <<files>>
       ELSE blob' = blob \ {i} /\ scratch' = scratch \ {i}
    /\ Finish(r)
    /\ Keep /\ UNCHANGED <<job, staged, period>>

\* The server restarts: background tasks and scratch files are gone; the
\* workflow engine runs its unfinished steps again.
Crash ==
    /\ faults + crashes < MaxFaults /\ crashes' = crashes + 1
    /\ run' = [r \in Runs |->
                 IF ~Live(r) THEN run[r]
                 ELSE IF run[r].kind = "task"
                 THEN RunOf(run[r].ing, "lost", "task")
                 ELSE RunOf(run[r].ing, "event", "step")]
    /\ scratch' = {} /\ upload' = NoUpload /\ writer' = None
    /\ UNCHANGED <<edits, job, blob, lock, faults, books>>

Handler ==
    \/ \E i \in Ings, p \in {"none", "B"}, old \in SUBSET blob :
          UploadCheck(i, p, old)
    \/ \E r \in Runs : UploadStore(r)
    \/ UploadNotSent
    \/ \E i \in Ings, p \in {"A", "B"}, r \in Runs : Confirm(i, p, r)
    \/ \E i \in Ings, p \in {"A", "B"} : Reclassify(i, p)
    \/ \E i \in Ings : ReviewPeriod(i)
    \/ \E i \in Ings : Cancel(i)
    \/ \E i, j \in Ings : Merge(i, j)
    \/ \E i \in Ings : Reconcile(i)

RunStep(r) ==
    \/ AcquireSlot(r) \/ StartStep(r) \/ Rehydrate(r) \/ Route(r)
    \/ Classify(r) \/ ParkForReview(r) \/ LockPathway(r) \/ Parse(r)
    \/ IngestDocuments(r) \/ Interpret(r) \/ Validate(r)
    \/ AcquireWriter(r) \/ StageNext(r) \/ PersistStatement(r)
    \/ ReportError(r) \/ Cleanup(r)

Fault == \/ \E r \in Runs : RouteRaises(r) \/ StageFaults(r)
         \/ Crash

Next == Handler \/ (\E r \in Runs : RunStep(r)) \/ Fault

\* Runs are threads of the server: each keeps going, and a thread that waits
\* for the slot gets it when it becomes free often enough.  Users and faults
\* owe nothing.
Fairness == \A r \in Runs : WF_vars(RunStep(r)) /\ SF_vars(AcquireSlot(r))

Spec == Init /\ [][Next]_vars /\ Fairness

\* Nothing is staged, and no statement stored, in the books of a company that
\* is not yet locked to a pathway: a run writes only after it read a confirmed
\* type and took the lock.  A database fault is the exception: it makes
\* route_ingest go on without a confirmation.
LockedBeforeWritten ==
    \A i \in Ings :
        (staged[i] > 0 \/ period[i] # "none") /\ faults = 0 => lock # "none"

\* The bytes of a document do not outlive its processing: once the job is
\* completed or failed and no run of it is left, its blob is gone.  A restart
\* can leave it: the run that would delete it dies, or the engine's retry
\* skips the job because it has ended.
FilesReleased ==
    \A i \in Ings :
        /\ job[i].status \in {"completed", "failed"}
        /\ LiveOn(i) = {}
        /\ crashes = 0
        => i \notin blob

\* A document is staged at most once per write phase, and a second write
\* phase takes a second run, a transient fault or a restart of a step.
StagedOncePerAttempt ==
    \A i \in Ings :
        /\ staged[i] <= DocSize * attempts[i]
        /\ attempts[i] <= faults + crashes
                          + Cardinality({r \in Runs : run[r].ing = i})

\* The lock of a company is set once: no race of two first uploads, of an
\* upload and a run, or of two confirmations moves it.
LockNeverMoves == [][lock # "none" => lock' = lock]_vars

\* Every job leaves pending_processing and processing (completed, failed,
\* cancelled or parked for review) unless a restart killed a run of it.
JobSettles ==
    \A i \in Ings :
        (job[i].status \in {"pending_processing", "processing"})
        ~> (job[i].status \notin {"pending_processing", "processing"}
            \/ \E r \in Runs : run[r].ing = i /\ run[r].pc = "lost")
=============================================================================
