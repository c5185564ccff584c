-------------------------- MODULE IngestJob_proofs --------------------------
(***************************************************************************)
(* Theorems about ingest jobs, for any number of documents, runs, slots,   *)
(* attempts, requests, faults and restarts.  The inductive invariant       *)
(* relates a run to the job it works on, to the lock, to the bytes of its  *)
(* document, to the write permit and to the rows it has staged.            *)
(***************************************************************************)
EXTENDS IngestJob, FiniteSetTheorems, TLAPS

(* A run that has not begun its write phase.                               *)
Early == {"event", "queued", "rehydrate", "route", "classified", "review",
          "lock", "extract", "interpret", "validate", "persist"}

(* A run past the router.                                                  *)
Past == {"extract", "interpret", "validate", "persist", "stage"}

Working(r) == run[r].pc \notin {"idle", "done", "lost", "event"}

(* The runs of a document that have begun a write phase, or will not.      *)
Begun(i) == {r \in Runs : run[r].ing = i /\ run[r].pc \notin Early}

(* A run works on a job that exists; an upload between its two halves is   *)
(* of a job that does not.                                                 *)
HasJob(r) ==
    IF run[r].pc = "idle" THEN run[r].ing = None
    ELSE run[r].ing \in Ings /\ Exists(run[r].ing)

JobsExist ==
    /\ \A r \in Runs : HasJob(r)
    /\ ~LoopFree => ~Exists(upload.ing)

(* A document that was not uploaded has no bytes and no rows.              *)
AbsentIsBare == \A i \in Ings : ~Exists(i) => i \notin blob /\ staged[i] = 0

(* A confirmation names a pathway, and so does a run that goes to the lock.*)
PathKnown ==
    /\ \A i \in Ings : job[i].confirmed => job[i].path # "none"
    /\ \A r \in Runs : run[r].pc = "lock" => run[r].path # "none"

(* Behind the router the company is locked, unless a fault led there.      *)
LockTaken ==
    \A r \in Runs : run[r].pc \in Past /\ faults = 0 => lock # "none"

(* The bytes of a job that has ended, or that a status query may end, are  *)
(* the business of a run that will come to its clean-up.                   *)
Due(i) ==
    \/ job[i].status \in {"completed", "failed", "processing"}
    \/ job[i].status = "pending_processing" /\ staged[i] > 0

Owned(i) == \E r \in Runs : run[r].ing = i /\ Working(r)

BlobOwned == crashes = 0 => \A i \in blob : Due(i) => Owned(i)

(* The write permit is with the run that stages.                           *)
PermitHeld == \A r \in Runs : run[r].pc = "stage" <=> writer = r

(* What a run has still to stage fits into the write phases begun.         *)
StageFits ==
    /\ \A i \in Ings : staged[i] <= DocSize * attempts[i]
    /\ \A r \in Runs :
          run[r].pc = "stage" /\ run[r].path = "A" =>
              /\ run[r].n <= DocSize
              /\ staged[run[r].ing] + DocSize
                    <= DocSize * attempts[run[r].ing] + run[r].n

(* The workflow engine has at most one run of a document.                  *)
OneStep ==
    \A q, r \in Runs :
        /\ run[q].kind = "step" /\ run[r].kind = "step"
        /\ run[q].ing = run[r].ing /\ run[r].ing # None
        => q = r

(* A write phase is the first of its run, or follows a fault or a restart. *)
AttemptsExplained ==
    \A i \in Ings : attempts[i] <= faults + crashes + Cardinality(Begun(i))

IngestInv ==
    /\ IngestTypeOK
    /\ JobsExist
    /\ AbsentIsBare
    /\ PathKnown
    /\ LockTaken
    /\ LockedBeforeWritten
    /\ BlobOwned
    /\ PermitHeld
    /\ StageFits
    /\ OneStep
    /\ AttemptsExplained

-----------------------------------------------------------------------------
(* Types                                                                   *)
(* A classification is written: of the user, or of the classifier.         *)
Mark(i, s, p, c) ==
    job' = [job EXCEPT ![i].status = s, ![i].path = p, ![i].confirmed = c]

LEMMA MarkTyped ==
    ASSUME job \in [Ings -> JobState], NEW i \in Ings, NEW s \in Statuses,
           NEW p \in Pathways, NEW c \in BOOLEAN, Mark(i, s, p, c)
    PROVE  job' \in [Ings -> JobState]
BY DEF Mark, JobState

(* What the handlers write to a job is the record of a job.                *)
LEMMA HandlerJobs ==
    ASSUME job \in [Ings -> JobState], upload.path \in Pathways, Handler
    PROVE  job' \in [Ings -> JobState]
<1> USE DEF JobState, Statuses, Pathways, SetJob, NewJob
<1>1. ASSUME NEW i \in Ings, NEW p \in {"none", "B"}, NEW old \in SUBSET blob,
             UploadCheck(i, p, old)
      PROVE  job' \in [Ings -> JobState]
  BY <1>1 DEF UploadCheck
<1>2. ASSUME NEW r \in Runs, UploadStore(r)
      PROVE  job' \in [Ings -> JobState]
  BY <1>2 DEF UploadStore
<1>3. ASSUME UploadNotSent
      PROVE  job' \in [Ings -> JobState]
  BY <1>3 DEF UploadNotSent
<1>4. ASSUME NEW i \in Ings, NEW p \in {"A", "B"}, NEW r \in Runs, Confirm(i, p, r)
      PROVE  job' \in [Ings -> JobState]
  <2>1. CASE i \in blob \cup scratch
    <3>1. Mark(i, "pending_processing", p, TRUE)
      BY <1>4, <2>1 DEF Confirm, Mark
    <3> HIDE DEF JobState
    <3> QED
      BY <3>1, MarkTyped
  <2>2. CASE i \notin blob \cup scratch
    <3>1. job' = [job EXCEPT ![i] = [status |-> "failed", path |-> p,
                                     confirmed |-> TRUE, errors |-> TRUE]]
      BY <1>4, <2>2 DEF Confirm
    <3> QED
      BY <3>1
  <2> QED
    BY <2>1, <2>2
<1>5. ASSUME NEW i \in Ings, NEW p \in {"A", "B"}, Reclassify(i, p)
      PROVE  job' \in [Ings -> JobState]
  <2>1. Mark(i, "pending_review", p, FALSE)
    BY <1>5 DEF Reclassify, Mark
  <2> HIDE DEF JobState
  <2> QED
    BY <2>1, MarkTyped
<1>6. ASSUME NEW i \in Ings, ReviewPeriod(i) \/ Cancel(i) \/ Reconcile(i)
      PROVE  job' \in [Ings -> JobState]
  BY <1>6 DEF ReviewPeriod, Cancel, Reconcile
<1>7. ASSUME NEW i \in Ings, NEW j \in Ings, Merge(i, j)
      PROVE  job' \in [Ings -> JobState]
  BY <1>7 DEF Merge
<1> QED
  BY <1>1, <1>2, <1>3, <1>4, <1>5, <1>6, <1>7 DEF Handler

(* A run that begins, and one that has ended, are well typed.              *)
LEMMA RunBegins ==
    ASSUME run \in [Runs -> RunState], NEW r \in Runs, NEW i \in Ings,
           NEW kind \in {"task", "step"}, Spawn(r, i, kind)
    PROVE  run' \in [Runs -> RunState]
BY DEF Spawn, RunOf, RunState, Pathways, Pcs

LEMMA RunEnds ==
    ASSUME run \in [Runs -> RunState], NEW r \in Runs, Finish(r)
    PROVE  run' \in [Runs -> RunState]
BY DEF Finish, RunOf, RunState, Pathways, Pcs

(* A run that a handler starts is well typed.                              *)
LEMMA HandlerRuns ==
    ASSUME run \in [Runs -> RunState], IngestTypeOK, Handler
    PROVE  run' \in [Runs -> RunState]
<1>a. ~LoopFree => upload.ing \in Ings
  BY DEF IngestTypeOK, LoopFree
<1>1. ASSUME NEW r \in Runs, UploadStore(r)
      PROVE  run' \in [Runs -> RunState]
  BY <1>1, <1>a, RunBegins DEF UploadStore
<1>2. ASSUME NEW i \in Ings, NEW p \in {"A", "B"}, NEW r \in Runs, Confirm(i, p, r)
      PROVE  run' \in [Runs -> RunState]
  <2>1. Spawn(r, i, "task") \/ run' = run
    BY <1>2 DEF Confirm, files
  <2> QED
    BY <2>1, RunBegins
<1>3. ASSUME NEW i \in Ings, NEW p \in {"none", "B"}, NEW old \in SUBSET blob,
             UploadCheck(i, p, old)
      PROVE  run' = run
  BY <1>3 DEF UploadCheck
<1>4. ASSUME NEW i \in Ings, ReviewPeriod(i) \/ Cancel(i) \/ Reconcile(i)
      PROVE  run' = run
  BY <1>4 DEF ReviewPeriod, Cancel, Reconcile
<1>5. ASSUME NEW i \in Ings, NEW p \in {"A", "B"}, Reclassify(i, p)
      PROVE  run' = run
  BY <1>5 DEF Reclassify
<1>6. ASSUME NEW i \in Ings, NEW j \in Ings, Merge(i, j)
      PROVE  run' = run
  BY <1>6 DEF Merge
<1>7. ASSUME UploadNotSent
      PROVE  run' = run
  BY <1>7 DEF UploadNotSent
<1> QED
  BY <1>1, <1>2, <1>3, <1>4, <1>5, <1>6, <1>7 DEF Handler

LEMMA HandlerType ==
    ASSUME IngestTypeOK, Handler
    PROVE  IngestTypeOK'
<1>1. job' \in [Ings -> JobState] /\ run' \in [Runs -> RunState]
  BY HandlerJobs, HandlerRuns DEF IngestTypeOK, NoUpload, Pathways
<1> USE <1>1, IngestNat, IngestSets DEF IngestTypeOK, NoUpload, LoopFree, Pathways,
        Edit, LockWith, files, books, bounds
<1>2. ASSUME NEW i \in Ings, NEW p \in {"none", "B"}, NEW old \in SUBSET blob,
             UploadCheck(i, p, old)
      PROVE  IngestTypeOK'
  BY <1>2 DEF UploadCheck, SweepExpired
<1>3. ASSUME NEW r \in Runs, UploadStore(r)
      PROVE  IngestTypeOK'
  BY <1>3 DEF UploadStore
<1>4. ASSUME UploadNotSent
      PROVE  IngestTypeOK'
  BY <1>4 DEF UploadNotSent
<1>5. ASSUME NEW i \in Ings, NEW p \in {"A", "B"}, NEW r \in Runs, Confirm(i, p, r)
      PROVE  IngestTypeOK'
  BY <1>5 DEF Confirm
<1>6. ASSUME NEW i \in Ings, NEW p \in {"A", "B"}, Reclassify(i, p)
      PROVE  IngestTypeOK'
  BY <1>6 DEF Reclassify
<1>7. ASSUME NEW i \in Ings, ReviewPeriod(i) \/ Cancel(i) \/ Reconcile(i)
      PROVE  IngestTypeOK'
  BY <1>7 DEF ReviewPeriod, Cancel, Reconcile
<1>8. ASSUME NEW i \in Ings, NEW j \in Ings, Merge(i, j)
      PROVE  IngestTypeOK'
  BY <1>8 DEF Merge
<1> QED
  BY <1>2, <1>3, <1>4, <1>5, <1>6, <1>7, <1>8 DEF Handler

LEMMA RunStepType ==
    ASSUME IngestTypeOK, NEW r \in Runs, RunStep(r)
    PROVE  IngestTypeOK'
<1>1. job' \in [Ings -> JobState]
  <2>1. job \in [Ings -> JobState] /\ run[r].path \in Pathways
    BY DEF IngestTypeOK, RunState
  <2> USE <2>1 DEF JobState, Statuses, Pathways, SetJob, FailJob, Keep
  <2>2. CASE AcquireSlot(r) \/ Route(r) \/ Parse(r) \/ IngestDocuments(r) \/ Interpret(r)
    BY <2>2 DEF AcquireSlot, Route, Parse, IngestDocuments, Interpret
  <2>3. CASE StartStep(r) \/ Rehydrate(r) \/ Classify(r) \/ ParkForReview(r)
    BY <2>3 DEF StartStep, Rehydrate, Classify, ParkForReview
  <2>4. CASE LockPathway(r) \/ Validate(r) \/ AcquireWriter(r) \/ StageNext(r)
    BY <2>4 DEF LockPathway, Validate, AcquireWriter, StageNext
  <2>5. CASE PersistStatement(r) \/ ReportError(r) \/ Cleanup(r)
    BY <2>5 DEF PersistStatement, ReportError, Cleanup
  <2> QED
    BY <2>2, <2>3, <2>4, <2>5 DEF RunStep
<1>2. run' \in [Runs -> RunState]
  <2>1. run \in [Runs -> RunState] /\ job \in [Ings -> JobState] /\ scratch \subseteq Ings
    BY DEF IngestTypeOK
  <2> USE <2>1, IngestNat DEF RunState, Pathways, Pcs, Goto
  <2>2. CASE AcquireSlot(r) \/ Parse(r) \/ IngestDocuments(r) \/ Interpret(r)
    BY <2>2 DEF AcquireSlot, Parse, IngestDocuments, Interpret
  <2>3. CASE StartStep(r)
    <3>1. Finish(r) \/ Goto(r, "rehydrate")
      BY <2>3 DEF StartStep
    <3> QED
      BY <3>1, RunEnds
  <2>4. CASE Rehydrate(r) \/ Classify(r) \/ ParkForReview(r)
    BY <2>4 DEF Rehydrate, Classify, ParkForReview
  <2>7. CASE Route(r)
    BY <2>7 DEF Route, JobState
  <2>5. CASE LockPathway(r) \/ Validate(r) \/ AcquireWriter(r) \/ StageNext(r)
    BY <2>5 DEF LockPathway, Validate, AcquireWriter, StageNext
  <2>6. CASE PersistStatement(r) \/ ReportError(r)
    BY <2>6 DEF PersistStatement, ReportError
  <2>8. CASE Cleanup(r)
    <3>1. Finish(r)
      BY <2>8 DEF Cleanup
    <3> QED
      BY <3>1, RunEnds
  <2> QED
    BY <2>2, <2>3, <2>4, <2>5, <2>6, <2>7, <2>8 DEF RunStep
<1>3. run[r].path \in Pathways
  BY DEF IngestTypeOK, RunState
<1> USE <1>1, <1>2, <1>3 DEF IngestTypeOK, LockWith, Keep, files, books, bounds
<1>4. CASE AcquireSlot(r) \/ Route(r) \/ Parse(r) \/ IngestDocuments(r) \/ Interpret(r)
  BY <1>4 DEF AcquireSlot, Route, Parse, IngestDocuments, Interpret
<1>5. CASE StartStep(r) \/ Rehydrate(r) \/ Classify(r) \/ ParkForReview(r)
  BY <1>5 DEF StartStep, Rehydrate, Classify, ParkForReview
<1>6. CASE LockPathway(r) \/ Validate(r)
  BY <1>6 DEF LockPathway, Validate
<1>7. CASE AcquireWriter(r) \/ StageNext(r)
  BY <1>7 DEF AcquireWriter, StageNext
<1>8. CASE PersistStatement(r) \/ ReportError(r) \/ Cleanup(r)
  BY <1>8 DEF PersistStatement, ReportError, Cleanup
<1> QED
  BY <1>4, <1>5, <1>6, <1>7, <1>8 DEF RunStep

LEMMA FaultType ==
    ASSUME IngestTypeOK, Fault
    PROVE  IngestTypeOK'
<1>1. job' \in [Ings -> JobState]
  <2>1. job \in [Ings -> JobState]
    BY DEF IngestTypeOK
  <2>2. ASSUME NEW r \in Runs, StageFaults(r)
        PROVE  job' \in [Ings -> JobState]
    BY <2>1, <2>2 DEF StageFaults, SetJob, FailJob, JobState, Statuses
  <2>3. ASSUME NEW r \in Runs, RouteRaises(r)
        PROVE  job' = job
    BY <2>3 DEF RouteRaises
  <2>4. ASSUME Crash
        PROVE  job' = job
    BY <2>4 DEF Crash
  <2> QED
    BY <2>1, <2>2, <2>3, <2>4 DEF Fault
<1>2. run' \in [Runs -> RunState]
  <2>1. run \in [Runs -> RunState]
    BY DEF IngestTypeOK
  <2> USE <2>1, IngestNat DEF RunState, Pathways, Pcs, Goto, NewRun
  <2>2. ASSUME NEW r \in Runs, RouteRaises(r) \/ StageFaults(r)
        PROVE  run' \in [Runs -> RunState]
    BY <2>2 DEF RouteRaises, StageFaults
  <2>3. ASSUME Crash
        PROVE  run' \in [Runs -> RunState]
    BY <2>3 DEF Crash, RunOf
  <2> QED
    BY <2>2, <2>3 DEF Fault
<1> USE <1>1, <1>2, IngestNat DEF IngestTypeOK, NoUpload, Pathways, files, books, bounds
<1>3. ASSUME NEW r \in Runs, RouteRaises(r) \/ StageFaults(r)
      PROVE  IngestTypeOK'
  BY <1>3 DEF RouteRaises, StageFaults
<1>4. ASSUME Crash
      PROVE  IngestTypeOK'
  BY <1>4 DEF Crash
<1> QED
  BY <1>3, <1>4 DEF Fault

(* Every step keeps the types.                                             *)
LEMMA TypeStep ==
    ASSUME IngestTypeOK, Next
    PROVE  IngestTypeOK'
BY HandlerType, RunStepType, FaultType DEF Next

-----------------------------------------------------------------------------
(* What the steps leave alone                                              *)
ThreadStep(r) == RunStep(r) \/ RouteRaises(r) \/ StageFaults(r)

(* A run moves itself and writes to its own job; it deletes bytes only.    *)
LEMMA ThreadFootprint ==
    ASSUME IngestTypeOK, NEW r \in Runs, ThreadStep(r)
    PROVE  /\ Live(r)
           /\ \A q \in Runs \ {r} : run'[q] = run[q]
           /\ run'[r].ing = run[r].ing
           /\ run'[r].pc \notin {"idle", "lost", "event", "queued"}
           /\ run'[r].kind \in {run[r].kind, "task"}
           /\ \A i \in Ings \ {run[r].ing} :
                 /\ job'[i] = job[i] /\ staged'[i] = staged[i]
                 /\ attempts'[i] = attempts[i] /\ period'[i] = period[i]
           /\ blob' \subseteq blob
           /\ upload' = upload /\ crashes' = crashes
<1> USE DEF IngestTypeOK, JobState, RunState, Live, SetJob, FailJob, Goto, Finish,
        RunOf, Keep, files, books, bounds
<1>1. CASE AcquireSlot(r) \/ Route(r) \/ Parse(r) \/ IngestDocuments(r) \/ Interpret(r)
  BY <1>1 DEF AcquireSlot, Route, Parse, IngestDocuments, Interpret
<1>2. CASE StartStep(r) \/ Rehydrate(r)
  BY <1>2 DEF StartStep, Rehydrate
<1>3. CASE Classify(r) \/ ParkForReview(r)
  BY <1>3 DEF Classify, ParkForReview
<1>4. CASE LockPathway(r) \/ Validate(r)
  BY <1>4 DEF LockPathway, Validate
<1>5. CASE AcquireWriter(r) \/ StageNext(r)
  BY <1>5 DEF AcquireWriter, StageNext
<1>6. CASE PersistStatement(r) \/ ReportError(r) \/ Cleanup(r)
  BY <1>6 DEF PersistStatement, ReportError, Cleanup
<1>7. CASE RouteRaises(r) \/ StageFaults(r)
  BY <1>7 DEF RouteRaises, StageFaults
<1> QED
  BY <1>1, <1>2, <1>3, <1>4, <1>5, <1>6, <1>7 DEF ThreadStep, RunStep

(* A handler starts at most one run, of a job that exists by then; it      *)
(* leaves what runs write, and the permit, alone.                          *)
LEMMA HandlerFootprint ==
    ASSUME IngestTypeOK, Handler
    PROVE  /\ UNCHANGED <<staged, attempts, writer, faults, crashes>>
           /\ \/ run' = run
              \/ \E r \in Runs, i \in Ings, kind \in {"task", "step"} :
                    /\ run[r].pc = "idle" /\ Spawn(r, i, kind)
                    /\ job'[i].status # "absent"
                    /\ kind = "step" => ~LoopFree /\ upload.ing = i
           /\ \A i \in Ings : Exists(i) => job'[i].status # "absent"
<1> DEFINE Kept ==
        /\ UNCHANGED <<staged, attempts, writer, faults, crashes>>
        /\ \/ run' = run
           \/ \E r \in Runs, i \in Ings, kind \in {"task", "step"} :
                 /\ run[r].pc = "idle" /\ Spawn(r, i, kind)
                 /\ job'[i].status # "absent"
                 /\ kind = "step" => ~LoopFree /\ upload.ing = i
        /\ \A i \in Ings : Exists(i) => job'[i].status # "absent"
<1> USE DEF Exists, SetJob, files, books, bounds, Edit, Terminal
<1>t. job \in [Ings -> JobState] /\ (~LoopFree => upload.ing \in Ings)
  BY DEF IngestTypeOK, LoopFree
<1> USE <1>t DEF JobState
<1>1. ASSUME NEW i \in Ings, NEW p \in {"none", "B"}, NEW old \in SUBSET blob,
             UploadCheck(i, p, old)
      PROVE  Kept
  BY <1>1 DEF UploadCheck
<1>2. ASSUME NEW r \in Runs, UploadStore(r)
      PROVE  Kept
  BY <1>2 DEF UploadStore
<1>3. ASSUME UploadNotSent
      PROVE  Kept
  BY <1>3 DEF UploadNotSent
<1>4. ASSUME NEW i \in Ings, NEW p \in {"A", "B"}, NEW r \in Runs, Confirm(i, p, r)
      PROVE  Kept
  BY <1>4 DEF Confirm
<1>5. ASSUME NEW i \in Ings, NEW p \in {"A", "B"}, Reclassify(i, p)
      PROVE  Kept
  BY <1>5 DEF Reclassify
<1>6. ASSUME NEW i \in Ings, ReviewPeriod(i) \/ Cancel(i) \/ Reconcile(i)
      PROVE  Kept
  BY <1>6 DEF ReviewPeriod, Cancel, Reconcile
<1>7. ASSUME NEW i \in Ings, NEW j \in Ings, Merge(i, j)
      PROVE  Kept
  BY <1>7 DEF Merge
<1> QED
  BY <1>1, <1>2, <1>3, <1>4, <1>5, <1>6, <1>7 DEF Handler

-----------------------------------------------------------------------------
(* Documents and runs                                                      *)
(* A run does not undo the existence of its job.                           *)
LEMMA ThreadKeepsJobs ==
    ASSUME IngestTypeOK, NEW r \in Runs, ThreadStep(r), NEW i \in Ings, Exists(i)
    PROVE  job'[i].status # "absent"
<1> USE DEF IngestTypeOK, JobState, Exists, SetJob, FailJob, Keep, files, books, bounds
<1>1. CASE AcquireSlot(r) \/ Route(r) \/ Parse(r) \/ IngestDocuments(r) \/ Interpret(r)
  BY <1>1 DEF AcquireSlot, Route, Parse, IngestDocuments, Interpret
<1>2. CASE StartStep(r) \/ Rehydrate(r)
  BY <1>2 DEF StartStep, Rehydrate
<1>3. CASE Classify(r) \/ ParkForReview(r)
  BY <1>3 DEF Classify, ParkForReview
<1>4. CASE LockPathway(r) \/ Validate(r)
  BY <1>4 DEF LockPathway, Validate
<1>5. CASE AcquireWriter(r)
  BY <1>5 DEF AcquireWriter
<1>6. CASE StageNext(r)
  <2>1. CASE job' = job
    BY <2>1
  <2>2. CASE job' # job
    <3>1. job' = [job EXCEPT ![run[r].ing].status = "completed",
                             ![run[r].ing].path = "A"]
      BY <1>6, <2>2 DEF StageNext
    <3> QED
      BY <3>1
  <2> QED
    BY <2>1, <2>2
<1>7. CASE PersistStatement(r) \/ ReportError(r) \/ Cleanup(r)
  BY <1>7 DEF PersistStatement, ReportError, Cleanup
<1>8. CASE RouteRaises(r) \/ StageFaults(r)
  BY <1>8 DEF RouteRaises, StageFaults
<1> QED
  BY <1>1, <1>2, <1>3, <1>4, <1>5, <1>6, <1>7, <1>8 DEF ThreadStep, RunStep

(* A step of a run, of a handler, or a restart: the three kinds of Next.   *)
LEMMA NextCases ==
    ASSUME Next
    PROVE  Handler \/ (\E r \in Runs : ThreadStep(r)) \/ Crash
BY DEF Next, Fault, ThreadStep

(* A handler that opens an upload does it for a document not yet uploaded, *)
(* and one that closes it leaves none open.                                *)
LEMMA UploadMoves ==
    ASSUME IngestTypeOK, Handler, JobsExist
    PROVE  (~LoopFree)' => job'[upload'.ing].status = "absent"
<1> USE DEF LoopFree, Exists, files, books, bounds, Edit
<1>1. ASSUME NEW i \in Ings, NEW p \in {"none", "B"}, NEW old \in SUBSET blob,
             UploadCheck(i, p, old)
      PROVE  job'[upload'.ing].status = "absent"
  BY <1>1 DEF UploadCheck
<1>2. ASSUME NEW r \in Runs, UploadStore(r) \/ UploadNotSent
      PROVE  LoopFree'
  BY <1>2 DEF UploadStore, UploadNotSent
<1>3. ASSUME UploadNotSent
      PROVE  LoopFree'
  BY <1>3 DEF UploadNotSent
<1>4. ASSUME NEW i \in Ings, NEW p \in {"A", "B"}, NEW r \in Runs, Confirm(i, p, r)
      PROVE  LoopFree'
  BY <1>4 DEF Confirm
<1>5. ASSUME NEW i \in Ings, NEW p \in {"A", "B"}, Reclassify(i, p)
      PROVE  LoopFree'
  BY <1>5 DEF Reclassify
<1>6. ASSUME NEW i \in Ings, ReviewPeriod(i) \/ Cancel(i) \/ Reconcile(i)
      PROVE  LoopFree'
  BY <1>6 DEF ReviewPeriod, Cancel, Reconcile
<1>7. ASSUME NEW i \in Ings, NEW j \in Ings, Merge(i, j)
      PROVE  LoopFree'
  BY <1>7 DEF Merge
<1> QED
  BY <1>1, <1>2, <1>3, <1>4, <1>5, <1>6, <1>7 DEF Handler

LEMMA JobsExistStep ==
    ASSUME IngestTypeOK, JobsExist, Next
    PROVE  JobsExist'
<1>t. IngestTypeOK'
  BY TypeStep
<1>1. CASE Handler
  <2>1. ASSUME NEW r \in Runs
        PROVE  HasJob(r)'
    <3>1. HasJob(r)
      BY DEF JobsExist
    <3>2. \A i \in Ings : Exists(i) => job'[i].status # "absent"
      BY <1>1, HandlerFootprint
    <3>3. CASE run'[r] = run[r]
      BY <3>1, <3>2, <3>3 DEF HasJob, Exists
    <3>4. CASE run'[r] # run[r]
      <4>1. PICK q \in Runs, i \in Ings, kind \in {"task", "step"} :
               Spawn(q, i, kind) /\ job'[i].status # "absent"
        BY <1>1, <3>4, HandlerFootprint
      <4>2. run \in [Runs -> RunState]
        BY DEF IngestTypeOK
      <4>3. run'[r].ing = i /\ run'[r].pc # "idle"
        BY <3>4, <4>1, <4>2 DEF Spawn, RunOf
      <4> QED
        BY <4>1, <4>3 DEF HasJob, Exists
    <3> QED
      BY <3>3, <3>4
  <2>2. (~LoopFree => ~Exists(upload.ing))'
    BY <1>1, UploadMoves DEF Exists
  <2> QED
    BY <2>1, <2>2 DEF JobsExist
<1>2. ASSUME NEW r \in Runs, ThreadStep(r)
      PROVE  JobsExist'
  <2>1. /\ Live(r) /\ upload' = upload
        /\ \A q \in Runs \ {r} : run'[q] = run[q]
        /\ run'[r].ing = run[r].ing /\ run'[r].pc # "idle"
        /\ \A i \in Ings \ {run[r].ing} : job'[i] = job[i]
    BY <1>2, ThreadFootprint
  <2>2. \A i \in Ings : Exists(i) => job'[i].status # "absent"
    BY <1>2, ThreadKeepsJobs
  <2>3. (~LoopFree => ~Exists(upload.ing))'
    <3>1. Exists(run[r].ing) /\ (~LoopFree => ~Exists(upload.ing))
      BY <2>1 DEF JobsExist, HasJob, Live
    <3>2. ~LoopFree => upload.ing \in Ings
      BY DEF IngestTypeOK, LoopFree
    <3> QED
      BY <2>1, <3>1, <3>2 DEF LoopFree, Exists
  <2>4. ASSUME NEW q \in Runs
        PROVE  HasJob(q)'
    <3>1. HasJob(q)
      BY DEF JobsExist
    <3> QED
      BY <2>1, <2>2, <3>1 DEF HasJob, Exists, Live
  <2> QED
    BY <2>3, <2>4 DEF JobsExist
<1>3. CASE Crash
  BY <1>3 DEF Crash, Live, RunOf, JobsExist, HasJob, LoopFree, Exists, IngestTypeOK,
             RunState
<1> QED
  BY <1>1, <1>2, <1>3, NextCases

(* Only an upload makes bytes, and only a run makes rows: of jobs that     *)
(* exist.                                                                  *)
LEMMA AbsentStep ==
    ASSUME IngestTypeOK, JobsExist, AbsentIsBare, Next
    PROVE  AbsentIsBare'
<1>1. CASE Handler
  <2>1. \A i \in Ings : ~Exists(i)' => ~Exists(i) /\ staged'[i] = staged[i]
    BY <1>1, HandlerFootprint DEF Exists
  <2>2. ASSUME NEW i \in Ings, ~Exists(i)'
        PROVE  i \in blob' => i \in blob
    <3> USE <2>2 DEF Exists, files, books, bounds, Edit, SetJob, IngestTypeOK, JobState
    <3>1. ASSUME NEW j \in Ings, NEW p \in {"none", "B"}, NEW old \in SUBSET blob,
                 UploadCheck(j, p, old)
          PROVE  i \in blob' => i \in blob
      BY <3>1 DEF UploadCheck, SweepExpired
    <3>2. ASSUME NEW r \in Runs, UploadStore(r)
          PROVE  i \in blob' => i \in blob
      BY <3>2 DEF UploadStore, LoopFree
    <3>3. ASSUME NEW j \in Ings, NEW p \in {"A", "B"}, NEW r \in Runs, Confirm(j, p, r)
          PROVE  i \in blob' => i \in blob
      BY <3>3 DEF Confirm
    <3>4. ASSUME NEW j \in Ings, NEW p \in {"A", "B"}, Reclassify(j, p) \/ UploadNotSent
          PROVE  i \in blob' => i \in blob
      BY <3>4 DEF Reclassify, UploadNotSent
    <3>5. ASSUME NEW j \in Ings, ReviewPeriod(j) \/ Cancel(j) \/ Reconcile(j)
          PROVE  i \in blob' => i \in blob
      BY <3>5 DEF ReviewPeriod, Cancel, Reconcile
    <3>6. ASSUME NEW j \in Ings, NEW k \in Ings, Merge(j, k)
          PROVE  i \in blob' => i \in blob
      BY <3>6 DEF Merge
    <3>7. ASSUME UploadNotSent
          PROVE  i \in blob' => i \in blob
      BY <3>7 DEF UploadNotSent
    <3> QED
      BY <1>1, <3>1, <3>2, <3>3, <3>4, <3>5, <3>6, <3>7 DEF Handler
  <2> QED
    BY <2>1, <2>2 DEF AbsentIsBare
<1>2. ASSUME NEW r \in Runs, ThreadStep(r)
      PROVE  AbsentIsBare'
  <2>1. /\ Live(r) /\ blob' \subseteq blob
        /\ \A i \in Ings \ {run[r].ing} : job'[i] = job[i] /\ staged'[i] = staged[i]
    BY <1>2, ThreadFootprint
  <2>2. run[r].ing \in Ings /\ Exists(run[r].ing)
    BY <2>1 DEF JobsExist, HasJob, Live
  <2>3. job'[run[r].ing].status # "absent"
    BY <1>2, <2>2, ThreadKeepsJobs
  <2> QED
    BY <2>1, <2>2, <2>3 DEF AbsentIsBare, Exists
<1>3. CASE Crash
  BY <1>3 DEF Crash, AbsentIsBare, Exists, books
<1> QED
  BY <1>1, <1>2, <1>3, NextCases

-----------------------------------------------------------------------------
(* The pathway lock                                                        *)
(* Every write to the lock is the conditional update.                      *)
LEMMA LockStep ==
    ASSUME Next, lock # "none"
    PROVE  lock' = lock
<1> USE DEF LockWith, Keep, files, books, bounds
<1>1. CASE Handler
  BY <1>1 DEF Handler, UploadCheck, UploadStore, UploadNotSent, Confirm, Reclassify,
              ReviewPeriod, Cancel, Merge, Reconcile
<1>2. ASSUME NEW r \in Runs, RunStep(r)
      PROVE  lock' = lock
  BY <1>2 DEF RunStep, AcquireSlot, StartStep, Rehydrate, Route, Classify,
              ParkForReview, LockPathway, Parse, IngestDocuments, Interpret, Validate,
              AcquireWriter, StageNext, PersistStatement, ReportError, Cleanup
<1>3. CASE Fault
  BY <1>3 DEF Fault, RouteRaises, StageFaults, Crash
<1> QED
  BY <1>1, <1>2, <1>3 DEF Next

(* A confirmation comes with a pathway.                                    *)
LEMMA ConfirmedStep ==
    ASSUME IngestTypeOK, \A i \in Ings : job[i].confirmed => job[i].path # "none", Next
    PROVE  \A i \in Ings : job'[i].confirmed => job'[i].path # "none"
<1> DEFINE Named == \A i \in Ings : job'[i].confirmed => job'[i].path # "none"
<1>a. job \in [Ings -> JobState]
  BY DEF IngestTypeOK
<1> USE <1>a DEF JobState, SetJob, FailJob, Keep, files, books, bounds
<1>1. CASE Handler
  <2>1. ASSUME NEW i \in Ings, NEW p \in {"none", "B"}, NEW old \in SUBSET blob,
               UploadCheck(i, p, old)
        PROVE  Named
    BY <2>1 DEF UploadCheck
  <2>2. ASSUME NEW r \in Runs, UploadStore(r)
        PROVE  Named
    BY <2>2 DEF UploadStore
  <2>3. ASSUME UploadNotSent
        PROVE  Named
    BY <2>3 DEF UploadNotSent
  <2>4. ASSUME NEW i \in Ings, NEW p \in {"A", "B"}, NEW r \in Runs, Confirm(i, p, r)
        PROVE  Named
    BY <2>4 DEF Confirm
  <2>5. ASSUME NEW i \in Ings, NEW p \in {"A", "B"}, Reclassify(i, p)
        PROVE  Named
    BY <2>5 DEF Reclassify
  <2>6. ASSUME NEW i \in Ings, ReviewPeriod(i) \/ Cancel(i) \/ Reconcile(i)
        PROVE  Named
    BY <2>6 DEF ReviewPeriod, Cancel, Reconcile
  <2>7. ASSUME NEW i \in Ings, NEW j \in Ings, Merge(i, j)
        PROVE  Named
    BY <2>7 DEF Merge
  <2> QED
    BY <1>1, <2>1, <2>2, <2>3, <2>4, <2>5, <2>6, <2>7 DEF Handler
<1>2. ASSUME NEW r \in Runs, ThreadStep(r)
      PROVE  Named
  <2>1. CASE \/ AcquireSlot(r) \/ Route(r) \/ Parse(r) \/ IngestDocuments(r)
             \/ Interpret(r) \/ Validate(r) \/ LockPathway(r) \/ Cleanup(r)
             \/ RouteRaises(r)
    BY <2>1 DEF AcquireSlot, Route, Parse, IngestDocuments, Interpret, Validate,
                LockPathway, Cleanup, RouteRaises
  <2>2. CASE StartStep(r) \/ Rehydrate(r) \/ ReportError(r) \/ StageFaults(r)
    BY <2>2 DEF StartStep, Rehydrate, ReportError, StageFaults
  <2>3. CASE Classify(r) \/ ParkForReview(r)
    BY <2>3 DEF Classify, ParkForReview
  <2>4. CASE AcquireWriter(r)
    BY <2>4 DEF AcquireWriter
  <2>5. CASE StageNext(r) \/ PersistStatement(r)
    <3>1. \/ job' = job
          \/ \E p \in {"A", "B"} : job' = [job EXCEPT ![run[r].ing].status = "completed",
                                                      ![run[r].ing].path = p]
      BY <2>5 DEF StageNext, PersistStatement
    <3> QED
      BY <3>1
  <2> QED
    BY <1>2, <2>1, <2>2, <2>3, <2>4, <2>5 DEF ThreadStep, RunStep
<1>3. CASE Crash
  BY <1>3 DEF Crash
<1> QED
  BY <1>1, <1>2, <1>3, NextCases

(* A run comes to the lock with the pathway of a confirmation.             *)
LEMMA PathKnownStep ==
    ASSUME IngestTypeOK, PathKnown, Next
    PROVE  PathKnown'
<1>1. (\A i \in Ings : job[i].confirmed => job[i].path # "none")'
  BY ConfirmedStep DEF PathKnown
<1>2. CASE Handler
  <2>1. ASSUME NEW q \in Runs
        PROVE  (run[q].pc = "lock" => run[q].path # "none")'
    BY <1>2, HandlerFootprint DEF PathKnown, Spawn, RunOf, IngestTypeOK
  <2> QED
    BY <1>1, <2>1 DEF PathKnown
<1>3. ASSUME NEW r \in Runs, ThreadStep(r)
      PROVE  PathKnown'
  <2>1. run'[r].pc = "lock" => run'[r].path # "none"
    <3>a. run \in [Runs -> RunState] /\ scratch \subseteq Ings
      BY DEF IngestTypeOK
    <3> USE <3>a DEF RunState, Goto, Finish, RunOf
    <3>1. CASE \/ AcquireSlot(r) \/ Parse(r) \/ IngestDocuments(r) \/ Interpret(r)
               \/ Validate(r) \/ LockPathway(r)
      BY <3>1 DEF AcquireSlot, Parse, IngestDocuments, Interpret, Validate, LockPathway
    <3>2. CASE Route(r)
      BY <3>2 DEF Route, PathKnown
    <3>3. CASE \/ StartStep(r) \/ Rehydrate(r) \/ Classify(r) \/ ParkForReview(r)
               \/ ReportError(r) \/ Cleanup(r)
      BY <3>3 DEF StartStep, Rehydrate, Classify, ParkForReview, ReportError, Cleanup
    <3>4. CASE \/ AcquireWriter(r) \/ StageNext(r) \/ PersistStatement(r)
               \/ RouteRaises(r) \/ StageFaults(r)
      BY <3>4 DEF AcquireWriter, StageNext, PersistStatement, RouteRaises, StageFaults
    <3> QED
      BY <1>3, <3>1, <3>2, <3>3, <3>4 DEF ThreadStep, RunStep
  <2>2. \A q \in Runs \ {r} : run'[q] = run[q]
    BY <1>3, ThreadFootprint
  <2> QED
    BY <1>1, <2>1, <2>2 DEF PathKnown
<1>4. CASE Crash
  BY <1>1, <1>4 DEF Crash, PathKnown, RunOf
<1> QED
  BY <1>2, <1>3, <1>4, NextCases

(* A run gets behind the router by the lock, or by a fault.                *)
LEMMA LockTakenStep ==
    ASSUME IngestTypeOK, PathKnown, LockTaken, Next
    PROVE  LockTaken'
<1>t. run \in [Runs -> RunState] /\ faults \in Nat
  BY DEF IngestTypeOK
<1>1. CASE Handler
  <2>1. ASSUME NEW q \in Runs, run'[q].pc \in Past
        PROVE  run[q].pc \in Past
    BY <1>1, <1>t, <2>1, HandlerFootprint DEF Spawn, RunOf, Past
  <2> QED
    BY <1>1, <2>1, LockStep, HandlerFootprint DEF LockTaken
<1>2. ASSUME NEW r \in Runs, ThreadStep(r)
      PROVE  LockTaken'
  <2>1. /\ run'[r].pc \in Past /\ faults' = 0
        => run[r].pc \in Past \/ lock' # "none"
    <3> USE <1>t DEF RunState, Goto, Finish, RunOf, Past, Keep, bounds
    <3>1. CASE \/ AcquireSlot(r) \/ Parse(r) \/ IngestDocuments(r) \/ Interpret(r)
               \/ Validate(r) \/ Route(r)
      BY <3>1 DEF AcquireSlot, Parse, IngestDocuments, Interpret, Validate, Route
    <3>2. CASE LockPathway(r)
      BY <3>2 DEF LockPathway, LockWith, PathKnown
    <3>3. CASE \/ StartStep(r) \/ Rehydrate(r) \/ Classify(r) \/ ParkForReview(r)
               \/ ReportError(r) \/ Cleanup(r)
      BY <3>3 DEF StartStep, Rehydrate, Classify, ParkForReview, ReportError, Cleanup
    <3>4. CASE \/ AcquireWriter(r) \/ StageNext(r) \/ PersistStatement(r)
      BY <3>4 DEF AcquireWriter, StageNext, PersistStatement
    <3>5. CASE RouteRaises(r) \/ StageFaults(r)
      BY <3>5 DEF RouteRaises, StageFaults
    <3> QED
      BY <1>2, <3>1, <3>2, <3>3, <3>4, <3>5 DEF ThreadStep, RunStep
  <2>2. \A q \in Runs \ {r} : run'[q] = run[q]
    BY <1>2, ThreadFootprint
  <2>3. faults' = 0 => faults = 0
    BY <1>2, <1>t DEF ThreadStep, RunStep, AcquireSlot, StartStep, Rehydrate, Route,
        Classify, ParkForReview, LockPathway, Parse, IngestDocuments, Interpret,
        Validate, AcquireWriter, StageNext, PersistStatement, ReportError, Cleanup,
        RouteRaises, StageFaults, Keep, bounds
  <2> QED
    BY <2>1, <2>2, <2>3, LockStep DEF LockTaken
<1>3. CASE Crash
  BY <1>3 DEF Crash, LockTaken, RunOf, Past
<1> QED
  BY <1>1, <1>2, <1>3, NextCases

(* Only a run behind the router writes.                                    *)
LEMMA LockedStep ==
    ASSUME IngestTypeOK, LockTaken, LockedBeforeWritten, Next
    PROVE  LockedBeforeWritten'
<1>t. faults \in Nat
  BY DEF IngestTypeOK
<1>1. CASE Handler
  <2>1. ASSUME NEW i \in Ings, period'[i] # "none"
        PROVE  period[i] # "none"
    BY <1>1, <2>1 DEF Handler, UploadCheck, UploadStore, UploadNotSent, Confirm,
        Reclassify, ReviewPeriod, Cancel, Merge, Reconcile, books, IngestTypeOK
  <2> QED
    BY <1>1, <2>1, LockStep, HandlerFootprint DEF LockedBeforeWritten
<1>2. ASSUME NEW r \in Runs, ThreadStep(r)
      PROVE  LockedBeforeWritten'
  <2> USE <1>t DEF Keep, files, books, bounds
  <2>1. CASE \/ AcquireSlot(r) \/ StartStep(r) \/ Rehydrate(r) \/ Route(r)
             \/ Classify(r) \/ ParkForReview(r) \/ LockPathway(r) \/ Parse(r)
             \/ IngestDocuments(r) \/ Interpret(r) \/ Validate(r) \/ AcquireWriter(r)
             \/ ReportError(r) \/ Cleanup(r)
    <3>1. staged' = staged /\ period' = period /\ faults' = faults
      BY <2>1 DEF AcquireSlot, StartStep, Rehydrate, Route, Classify, ParkForReview,
          LockPathway, Parse, IngestDocuments, Interpret, Validate, AcquireWriter,
          ReportError, Cleanup
    <3> QED
      BY <3>1, LockStep DEF LockedBeforeWritten
  <2>2. CASE StageNext(r) \/ PersistStatement(r)
    <3>1. run[r].pc = "stage" /\ lock' = lock /\ faults' = faults
      BY <2>2 DEF StageNext, PersistStatement
    <3>2. faults' = 0 => lock' # "none"
      BY <3>1 DEF LockTaken, Past
    <3> QED
      BY <3>2 DEF LockedBeforeWritten
  <2>3. CASE RouteRaises(r) \/ StageFaults(r)
    <3>1. faults' # 0
      BY <2>3 DEF RouteRaises, StageFaults
    <3> QED
      BY <3>1 DEF LockedBeforeWritten
  <2> QED
    BY <1>2, <2>1, <2>2, <2>3 DEF ThreadStep, RunStep
<1>3. CASE Crash
  BY <1>3 DEF Crash, LockedBeforeWritten, books
<1> QED
  BY <1>1, <1>2, <1>3, NextCases

-----------------------------------------------------------------------------
(* The write permit and the runs of the engine                             *)
(* A run takes the permit when nobody has it and gives it back when it     *)
(* leaves its write phase.                                                 *)
LEMMA PermitMoves ==
    ASSUME IngestTypeOK, PermitHeld, NEW r \in Runs, ThreadStep(r)
    PROVE  \/ (run'[r].pc = "stage" <=> run[r].pc = "stage") /\ writer' = writer
           \/ run'[r].pc = "stage" /\ writer = None /\ writer' = r
           \/ run[r].pc = "stage" /\ run'[r].pc # "stage" /\ writer' = None
<1>t. run \in [Runs -> RunState]
  BY DEF IngestTypeOK
<1> USE <1>t DEF RunState, Goto, Finish, RunOf, Keep
<1>1. CASE \/ AcquireSlot(r) \/ Parse(r) \/ IngestDocuments(r) \/ Interpret(r)
           \/ Validate(r) \/ Route(r) \/ LockPathway(r)
  BY <1>1 DEF AcquireSlot, Parse, IngestDocuments, Interpret, Validate, Route,
              LockPathway
<1>2. CASE \/ StartStep(r) \/ Rehydrate(r) \/ Classify(r) \/ ParkForReview(r)
           \/ ReportError(r) \/ Cleanup(r) \/ RouteRaises(r)
  BY <1>2 DEF StartStep, Rehydrate, Classify, ParkForReview, ReportError, Cleanup,
              RouteRaises
<1>3. CASE AcquireWriter(r) \/ StageNext(r) \/ PersistStatement(r)
  BY <1>3 DEF AcquireWriter, StageNext, PersistStatement
<1>4. CASE StageFaults(r)
  BY <1>4 DEF StageFaults
<1> QED
  BY <1>1, <1>2, <1>3, <1>4 DEF ThreadStep, RunStep

LEMMA PermitStep ==
    ASSUME IngestTypeOK, PermitHeld, Next
    PROVE  PermitHeld'
<1>1. CASE Handler
  BY <1>1, HandlerFootprint DEF PermitHeld, Spawn, RunOf, IngestTypeOK
<1>2. ASSUME NEW r \in Runs, ThreadStep(r)
      PROVE  PermitHeld'
  BY <1>2, IngestSets, PermitMoves, ThreadFootprint DEF PermitHeld
<1>3. CASE Crash
  BY <1>3, IngestSets DEF Crash, PermitHeld, RunOf, Live
<1> QED
  BY <1>1, <1>2, <1>3, NextCases

(* The engine is given one run of a document, when it is uploaded.         *)
LEMMA OneStepStep ==
    ASSUME IngestTypeOK, JobsExist, OneStep, Next
    PROVE  OneStep'
<1>t. run \in [Runs -> RunState]
  BY DEF IngestTypeOK
<1>1. CASE Handler
  <2>1. CASE run' = run
    BY <2>1 DEF OneStep
  <2>2. CASE run' # run
    <3>1. PICK p \in Runs, i \in Ings, kind \in {"task", "step"} :
             /\ run[p].pc = "idle" /\ Spawn(p, i, kind)
             /\ kind = "step" => ~LoopFree /\ upload.ing = i
      BY <1>1, <2>2, HandlerFootprint
    <3>2. kind = "step" => ~Exists(i)
      BY <3>1 DEF JobsExist
    <3>3. \A q \in Runs : run[q].ing = i => Exists(i)
      BY IngestSets DEF JobsExist, HasJob
    <3>4. /\ run'[p].kind = kind /\ run'[p].ing = i
          /\ \A q \in Runs \ {p} : run'[q] = run[q]
      BY <1>t, <3>1 DEF Spawn, RunOf
    <3> QED
      BY <3>2, <3>3, <3>4 DEF OneStep
  <2> QED
    BY <2>1, <2>2
<1>2. ASSUME NEW r \in Runs, ThreadStep(r)
      PROVE  OneStep'
  BY <1>2, ThreadFootprint DEF OneStep
<1>3. CASE Crash
  <2>1. \A q \in Runs : /\ run'[q].ing = run[q].ing
                        /\ run'[q].kind = "step" => run[q].kind = "step"
    BY <1>t, <1>3 DEF Crash, RunOf, RunState
  <2> QED
    BY <2>1 DEF OneStep
<1> QED
  BY <1>1, <1>2, <1>3, NextCases

-----------------------------------------------------------------------------
(* The bytes                                                               *)
(* What a handler does to the bytes of a document, and to the question     *)
(* whether they are due.                                                   *)
LEMMA HandlerDue ==
    ASSUME IngestTypeOK, JobsExist, AbsentIsBare, Handler,
           NEW i \in Ings, i \in blob', Due(i)'
    PROVE  (i \in blob /\ Due(i)) \/ Owned(i)'
<1> DEFINE Explained == (i \in blob /\ Due(i)) \/ Owned(i)'
<1>t. /\ job \in [Ings -> JobState] /\ run \in [Runs -> RunState]
      /\ ~LoopFree => upload.ing \in Ings /\ ~Exists(upload.ing)
      /\ staged' = staged
  BY HandlerFootprint DEF IngestTypeOK, LoopFree, JobsExist
<1> USE <1>t DEF JobState, Due, SetJob, files, books, bounds, Edit
<1>1. ASSUME NEW j \in Ings, NEW p \in {"none", "B"}, NEW old \in SUBSET blob,
             UploadCheck(j, p, old)
      PROVE  Explained
  BY <1>1 DEF UploadCheck, SweepExpired
<1>2. ASSUME NEW r \in Runs, UploadStore(r)
      PROVE  Explained
  BY <1>2 DEF UploadStore, AbsentIsBare
<1>3. ASSUME UploadNotSent
      PROVE  Explained
  BY <1>3 DEF UploadNotSent, AbsentIsBare
<1>4. ASSUME NEW j \in Ings, NEW p \in {"A", "B"}, NEW r \in Runs, Confirm(j, p, r)
      PROVE  Explained
  <2>1. CASE i # j
    BY <1>4, <2>1 DEF Confirm
  <2>2. CASE i = j /\ i \in blob \cup scratch
    <3>1. Spawn(r, i, "task")
      BY <1>4, <2>2 DEF Confirm
    <3>2. run'[r].ing = i /\ run'[r].pc = "queued"
      BY <3>1 DEF Spawn, RunOf
    <3> QED
      BY <3>2 DEF Owned, Working
  <2>3. CASE i = j /\ i \notin blob \cup scratch
    BY <1>4, <2>3 DEF Confirm
  <2> QED
    BY <2>1, <2>2, <2>3
<1>5. ASSUME NEW j \in Ings, NEW p \in {"A", "B"}, Reclassify(j, p)
      PROVE  Explained
  BY <1>5 DEF Reclassify
<1>6. ASSUME NEW j \in Ings, ReviewPeriod(j) \/ Cancel(j) \/ Reconcile(j)
      PROVE  Explained
  BY <1>6 DEF ReviewPeriod, Cancel, Reconcile
<1>7. ASSUME NEW j \in Ings, NEW k \in Ings, Merge(j, k)
      PROVE  Explained
  BY <1>7 DEF Merge
<1> QED
  BY <1>1, <1>2, <1>3, <1>4, <1>5, <1>6, <1>7 DEF Handler

(* A run that ends leaves bytes only of a job that waits for its review,   *)
(* or of a job that the engine finds ended, in which case it owned nothing.*)
LEMMA RunEndsClean ==
    ASSUME IngestTypeOK, NEW r \in Runs, ThreadStep(r), run'[r].pc = "done",
           run[r].ing \in Ings, run[r].ing \in blob'
    PROVE  \/ job'[run[r].ing].status = "pending_review"
           \/ /\ ~Working(r)
              /\ job' = job /\ staged' = staged
<1>t. job \in [Ings -> JobState] /\ run \in [Runs -> RunState]
  BY DEF IngestTypeOK
<1> USE <1>t DEF JobState, RunState, Goto, Finish, RunOf, Keep, files, Working
<1>1. CASE Cleanup(r)
  BY <1>1 DEF Cleanup
<1>2. CASE StartStep(r)
  BY <1>2 DEF StartStep
<1>3. CASE \/ AcquireSlot(r) \/ Parse(r) \/ IngestDocuments(r) \/ Interpret(r)
           \/ Validate(r) \/ Route(r) \/ LockPathway(r)
  BY <1>3 DEF AcquireSlot, Parse, IngestDocuments, Interpret, Validate, Route,
              LockPathway
<1>4. CASE Rehydrate(r) \/ Classify(r) \/ ParkForReview(r) \/ ReportError(r)
  BY <1>4 DEF Rehydrate, Classify, ParkForReview, ReportError
<1>5. CASE AcquireWriter(r) \/ StageNext(r) \/ PersistStatement(r)
  BY <1>5 DEF AcquireWriter, StageNext, PersistStatement
<1>6. CASE RouteRaises(r) \/ StageFaults(r)
  BY <1>6 DEF RouteRaises, StageFaults
<1> QED
  BY <1>1, <1>2, <1>3, <1>4, <1>5, <1>6 DEF ThreadStep, RunStep

LEMMA BlobStep ==
    ASSUME IngestTypeOK, JobsExist, AbsentIsBare, BlobOwned, Next
    PROVE  BlobOwned'
<1>t. IngestTypeOK'
  BY TypeStep
<1>1. CASE Handler
  <2>1. \A i \in Ings : Owned(i) => Owned(i)'
    BY <1>1, HandlerFootprint DEF Owned, Working, Spawn, RunOf, IngestTypeOK
  <2>2. \A i \in Ings : i \in blob' /\ Due(i)' => (i \in blob /\ Due(i)) \/ Owned(i)'
    BY <1>1, HandlerDue
  <2>3. crashes' = crashes
    BY <1>1, HandlerFootprint
  <2> QED
    BY <1>t, <2>1, <2>2, <2>3 DEF BlobOwned, IngestTypeOK
<1>2. ASSUME NEW r \in Runs, ThreadStep(r)
      PROVE  BlobOwned'
  <2>1. /\ Live(r) /\ blob' \subseteq blob /\ crashes' = crashes
        /\ \A q \in Runs \ {r} : run'[q] = run[q]
        /\ run'[r].ing = run[r].ing /\ run'[r].pc \notin {"idle", "lost", "event"}
        /\ \A i \in Ings \ {run[r].ing} : job'[i] = job[i] /\ staged'[i] = staged[i]
    BY <1>2, ThreadFootprint
  <2>2. run[r].ing \in Ings
    BY <2>1 DEF JobsExist, HasJob, Live
  <2> SUFFICES ASSUME crashes' = 0, NEW i \in blob', Due(i)'
               PROVE  Owned(i)'
    BY DEF BlobOwned
  <2>3. i \in Ings /\ i \in blob
    BY <1>t, <2>1 DEF IngestTypeOK
  <2>4. CASE i # run[r].ing
    <3>1. Due(i)
      BY <2>1, <2>3, <2>4 DEF Due
    <3>2. Owned(i)
      BY <2>1, <2>3, <3>1 DEF BlobOwned
    <3> QED
      BY <2>1, <2>4, <3>2 DEF Owned, Working
  <2>5. CASE i = run[r].ing /\ run'[r].pc # "done"
    BY <2>1, <2>5 DEF Owned, Working
  <2>6. CASE i = run[r].ing /\ run'[r].pc = "done"
    <3>1. ~Working(r) /\ job' = job /\ staged' = staged
      BY <1>2, <2>2, <2>6, RunEndsClean DEF Due
    <3>2. Owned(i)
      BY <2>1, <2>3, <3>1 DEF Due, BlobOwned
    <3> QED
      BY <2>1, <3>1, <3>2 DEF Owned, Working
  <2> QED
    BY <2>4, <2>5, <2>6
<1>3. CASE Crash
  BY <1>3 DEF Crash, BlobOwned, IngestTypeOK
<1> QED
  BY <1>1, <1>2, <1>3, NextCases

-----------------------------------------------------------------------------
(* Rows and write phases                                                   *)
(* One more write phase makes room for one more document.                  *)
LEMMA OnePhaseMore ==
    ASSUME NEW a \in Nat
    PROVE  /\ DocSize * a \in Nat
           /\ DocSize * (a + 1) = DocSize * a + DocSize
BY IngestNat

(* What a run may do to the rows of its document and to the count of its   *)
(* write phases.                                                           *)
LEMMA StageMoves ==
    ASSUME IngestTypeOK, NEW r \in Runs, ThreadStep(r), run[r].ing \in Ings
    PROVE  LET i == run[r].ing IN
           \/ /\ staged' = staged /\ attempts' = attempts
              /\ run'[r].pc # "stage"
           \/ /\ staged' = staged /\ attempts'[i] = attempts[i] + 1
              /\ run'[r].pc = "stage" /\ run'[r].n = 0
           \/ /\ run[r].pc = "stage" /\ run'[r].pc = "stage"
              /\ run[r].path = "A" /\ run[r].n < DocSize
              /\ attempts' = attempts /\ staged'[i] = staged[i] + 1
              /\ run'[r].n = run[r].n + 1
<1>t. /\ run \in [Runs -> RunState] /\ staged \in [Ings -> Nat]
      /\ attempts \in [Ings -> Nat]
  BY DEF IngestTypeOK
<1> USE <1>t DEF RunState, Goto, Finish, RunOf, Keep, books
<1>1. CASE \/ AcquireSlot(r) \/ Parse(r) \/ IngestDocuments(r) \/ Interpret(r)
           \/ Validate(r) \/ Route(r) \/ LockPathway(r)
  BY <1>1 DEF AcquireSlot, Parse, IngestDocuments, Interpret, Validate, Route,
              LockPathway
<1>2. CASE \/ StartStep(r) \/ Rehydrate(r) \/ Classify(r) \/ ParkForReview(r)
           \/ ReportError(r) \/ Cleanup(r) \/ RouteRaises(r)
  BY <1>2 DEF StartStep, Rehydrate, Classify, ParkForReview, ReportError, Cleanup,
              RouteRaises
<1>3. CASE AcquireWriter(r)
  BY <1>3 DEF AcquireWriter
<1>4. CASE StageNext(r)
  BY <1>4 DEF StageNext
<1>5. CASE PersistStatement(r)
  BY <1>5 DEF PersistStatement
<1>6. CASE StageFaults(r)
  BY <1>6 DEF StageFaults
<1> QED
  BY <1>1, <1>2, <1>3, <1>4, <1>5, <1>6 DEF ThreadStep, RunStep

LEMMA StageStep ==
    ASSUME IngestTypeOK, JobsExist, PermitHeld, StageFits, Next
    PROVE  StageFits'
<1>t. /\ run \in [Runs -> RunState] /\ staged \in [Ings -> Nat]
      /\ attempts \in [Ings -> Nat] /\ DocSize \in Nat \ {0}
  BY IngestNat DEF IngestTypeOK
<1>1. CASE Handler
  BY <1>1, <1>t, HandlerFootprint DEF StageFits, Spawn, RunOf
<1>2. ASSUME NEW r \in Runs, ThreadStep(r)
      PROVE  StageFits'
  <2>1. /\ Live(r)
        /\ \A q \in Runs \ {r} : run'[q] = run[q]
        /\ run'[r].ing = run[r].ing
        /\ \A i \in Ings \ {run[r].ing} :
              staged'[i] = staged[i] /\ attempts'[i] = attempts[i]
    BY <1>2, ThreadFootprint
  <2>2. run[r].ing \in Ings
    BY <2>1 DEF JobsExist, HasJob, Live
  <2>3. CASE staged' = staged /\ attempts' = attempts /\ run'[r].pc # "stage"
    BY <2>1, <2>3 DEF StageFits
  <2>4. CASE run'[r].pc = "stage"
    <3>1. \A q \in Runs \ {r} : run'[q].pc # "stage"
      BY <1>2, <2>1, <2>4, TypeStep, PermitStep DEF PermitHeld, Next, ThreadStep, Fault
    <3> DEFINE i == run[r].ing
               D == DocSize
               a == attempts[i]
    <3>2. D * a \in Nat /\ D * (a + 1) = D * a + D
      BY <1>t, <2>2, OnePhaseMore
    <3>3. staged[i] <= D * a /\ staged[i] \in Nat /\ a \in Nat /\ D \in Nat
      BY <1>t, <2>2 DEF StageFits
    <3>4. /\ staged'[i] <= D * attempts'[i]
          /\ run'[r].path = "A" =>
                run'[r].n <= D /\ staged'[i] + D <= D * attempts'[i] + run'[r].n
      <4>1. CASE staged' = staged /\ attempts'[i] = a + 1 /\ run'[r].n = 0
        BY <3>2, <3>3, <4>1
      <4>2. CASE /\ run[r].pc = "stage" /\ run[r].path = "A" /\ run[r].n < DocSize
                 /\ attempts' = attempts /\ staged'[i] = staged[i] + 1
                 /\ run'[r].n = run[r].n + 1
        <5>1. staged[i] + D <= D * a + run[r].n /\ run[r].n \in Nat
          BY <1>t, <4>2 DEF StageFits, RunState
        <5>2. attempts'[i] = a
          BY <4>2
        <5> HIDE DEF i, D, a
        <5>3. D * attempts'[i] = D * a
          BY <5>2
        <5> QED
          BY <3>2, <3>3, <4>2, <5>1, <5>3 DEF D
      <4> QED
        BY <1>2, <2>2, <2>4, <4>1, <4>2, StageMoves
    <3> QED
      BY <2>1, <2>2, <3>1, <3>4 DEF StageFits
  <2> QED
    BY <1>2, <2>2, <2>3, <2>4, StageMoves
<1>3. CASE Crash
  BY <1>3 DEF Crash, StageFits, RunOf, Live, books
<1> QED
  BY <1>1, <1>2, <1>3, NextCases

(* A run that has begun its write phase does not go back, except by a      *)
(* restart; a new write phase is the first of the run, or costs a fault.   *)
LEMMA ThreadOnward ==
    ASSUME IngestTypeOK, NEW r \in Runs, ThreadStep(r), run[r].ing \in Ings
    PROVE  LET i == run[r].ing IN
           /\ run[r].pc \notin Early => run'[r].pc \notin Early
           /\ \/ attempts'[i] = attempts[i] /\ faults' >= faults
              \/ /\ attempts'[i] = attempts[i] + 1 /\ faults' = faults
                 /\ run[r].pc \in Early /\ run'[r].pc \notin Early
              \/ attempts'[i] = attempts[i] + 1 /\ faults' = faults + 1
<1>t. /\ run \in [Runs -> RunState] /\ attempts \in [Ings -> Nat] /\ faults \in Nat
  BY DEF IngestTypeOK
<1> USE <1>t DEF RunState, Goto, Finish, RunOf, Keep, books, bounds, Early
<1>1. CASE \/ AcquireSlot(r) \/ Parse(r) \/ IngestDocuments(r) \/ Interpret(r)
           \/ Validate(r) \/ Route(r) \/ LockPathway(r)
  BY <1>1 DEF AcquireSlot, Parse, IngestDocuments, Interpret, Validate, Route,
              LockPathway
<1>2. CASE \/ StartStep(r) \/ Rehydrate(r) \/ Classify(r) \/ ParkForReview(r)
           \/ ReportError(r) \/ Cleanup(r) \/ RouteRaises(r)
  BY <1>2 DEF StartStep, Rehydrate, Classify, ParkForReview, ReportError, Cleanup,
              RouteRaises
<1>3. CASE AcquireWriter(r)
  BY <1>3 DEF AcquireWriter
<1>4. CASE StageNext(r) \/ PersistStatement(r)
  BY <1>4 DEF StageNext, PersistStatement
<1>5. CASE StageFaults(r)
  BY <1>5 DEF StageFaults
<1> QED
  BY <1>1, <1>2, <1>3, <1>4, <1>5 DEF ThreadStep, RunStep

(* The sets of runs of a document are finite and are compared by inclusion.*)
LEMMA BegunFinite ==
    ASSUME NEW i, NEW S \in SUBSET Runs
    PROVE  /\ IsFiniteSet(S) /\ Cardinality(S) \in Nat
           /\ \A T \in SUBSET S : Cardinality(T) <= Cardinality(S)
           /\ \A r \in S : Cardinality(S \ {r}) = Cardinality(S) - 1
<1>1. IsFiniteSet(S)
  BY IngestSets, FS_Subset
<1> QED
  BY <1>1, FS_Subset, FS_CardinalityType, FS_RemoveElement

LEMMA AttemptsStep ==
    ASSUME IngestTypeOK, JobsExist, OneStep, AttemptsExplained, Next
    PROVE  AttemptsExplained'
<1>t. /\ run \in [Runs -> RunState] /\ attempts \in [Ings -> Nat]
      /\ faults \in Nat /\ crashes \in Nat
      /\ attempts' \in [Ings -> Nat] /\ faults' \in Nat /\ crashes' \in Nat
  BY TypeStep DEF IngestTypeOK
<1> SUFFICES ASSUME NEW i \in Ings
             PROVE  attempts'[i] <= faults' + crashes' + Cardinality(Begun(i)')
  BY DEF AttemptsExplained
<1> DEFINE S == Begun(i)
           T == Begun(i)'
<1>a. attempts[i] <= faults + crashes + Cardinality(S)
  BY DEF AttemptsExplained
<1>b. S \in SUBSET Runs /\ T \in SUBSET Runs
  BY DEF Begun
<1>c. Cardinality(S) \in Nat /\ Cardinality(T) \in Nat
  BY <1>b, BegunFinite
<1>d. S \subseteq T => Cardinality(S) <= Cardinality(T)
  BY <1>b, BegunFinite
<1>1. CASE Handler
  <2>1. S \subseteq T
    <3>1. \A r \in Runs : run[r].ing = i => run[r].pc # "idle"
      BY IngestSets DEF JobsExist, HasJob
    <3> QED
      BY <1>1, <1>t, <3>1, HandlerFootprint DEF Begun, Spawn, RunOf
  <2>2. attempts' = attempts /\ faults' = faults /\ crashes' = crashes
    BY <1>1, HandlerFootprint
  <2> HIDE DEF S, T
  <2>3. Cardinality(S) <= Cardinality(T)
    BY <1>d, <2>1
  <2> QED
    BY <1>t, <1>a, <1>c, <2>2, <2>3 DEF T
<1>2. ASSUME NEW r \in Runs, ThreadStep(r)
      PROVE  attempts'[i] <= faults' + crashes' + Cardinality(T)
  <2>1. /\ Live(r) /\ crashes' = crashes
        /\ \A q \in Runs \ {r} : run'[q] = run[q]
        /\ run'[r].ing = run[r].ing
        /\ \A j \in Ings \ {run[r].ing} : attempts'[j] = attempts[j]
    BY <1>2, ThreadFootprint
  <2>2. run[r].ing \in Ings
    BY <2>1 DEF JobsExist, HasJob, Live
  <2>3. run[r].pc \notin Early => run'[r].pc \notin Early
    BY <1>2, <2>2, ThreadOnward
  <2>4. S \subseteq T
    BY <2>1, <2>3 DEF Begun
  <2>5. Cardinality(S) <= Cardinality(T)
    BY <1>d, <2>4
  <2>6. faults' >= faults
    BY <1>2, <1>t, <2>2, ThreadOnward
  <2>7. CASE attempts'[i] = attempts[i]
    <3> HIDE DEF S, T
    <3> QED
      BY <1>t, <1>a, <1>c, <2>1, <2>5, <2>6, <2>7
  <2>8. CASE attempts'[i] = attempts[i] + 1 /\ faults' = faults + 1
    <3> HIDE DEF S, T
    <3> QED
      BY <1>t, <1>a, <1>c, <2>1, <2>5, <2>8
  <2>9. CASE /\ attempts'[i] = attempts[i] + 1 /\ faults' = faults
             /\ run[r].ing = i /\ run[r].pc \in Early /\ run'[r].pc \notin Early
    <3>1. r \in T /\ r \notin S
      BY <2>1, <2>9 DEF Begun
    <3>2. S \in SUBSET (T \ {r})
      BY <2>4, <3>1
    <3>3. Cardinality(T \ {r}) = Cardinality(T) - 1
      BY <1>b, <3>1, BegunFinite
    <3>4. T \ {r} \in SUBSET Runs
      BY <1>b
    <3> HIDE DEF S, T
    <3>5. Cardinality(S) <= Cardinality(T \ {r})
      BY <3>2, <3>4, BegunFinite
    <3> QED
      BY <1>t, <1>a, <1>c, <2>1, <2>9, <3>3, <3>5
  <2> QED
    <3>1. CASE run[r].ing = i
      BY <1>2, <2>2, <2>7, <2>8, <2>9, <3>1, ThreadOnward
    <3>2. CASE run[r].ing # i
      BY <2>1, <2>7, <3>2
    <3> QED
      BY <3>1, <3>2
<1>3. CASE Crash
  <2>1. attempts' = attempts /\ faults' = faults /\ crashes' = crashes + 1
    BY <1>3 DEF Crash, books
  <2>2. \A q \in S \ T : run[q].kind = "step" /\ run[q].ing = i
    BY <1>t, <1>3 DEF Crash, Begun, RunOf, Early, RunState
  <2>3. \A q, r \in S \ T : q = r
    BY <1>b, <2>2, IngestSets DEF OneStep
  <2>4. CASE S \subseteq T
    <3>1. Cardinality(S) <= Cardinality(T)
      BY <1>d, <2>4
    <3> HIDE DEF S, T
    <3> QED
      BY <1>t, <1>a, <1>c, <2>1, <3>1 DEF T
  <2>5. CASE ~(S \subseteq T)
    <3>1. PICK q \in S : q \notin T
      BY <2>5
    <3>2. S \ {q} \in SUBSET T
      BY <2>3, <3>1
    <3>3. Cardinality(S \ {q}) = Cardinality(S) - 1
      BY <1>b, <3>1, BegunFinite
    <3> HIDE DEF S, T
    <3>4. Cardinality(S \ {q}) <= Cardinality(T)
      BY <1>b, <3>2, BegunFinite
    <3> QED
      BY <1>t, <1>a, <1>c, <2>1, <3>3, <3>4 DEF T
  <2> QED
    BY <2>4, <2>5
<1> QED
  BY <1>1, <1>2, <1>3, NextCases

-----------------------------------------------------------------------------
(* The theorems                                                            *)
LEMMA IngestInit == Init => IngestInv
<1> SUFFICES ASSUME Init
             PROVE  IngestInv
  OBVIOUS
<1> USE DEF Init, NewJob, NewRun, RunOf, NoUpload
<1>1. IngestTypeOK
  BY IngestNat, IngestSets DEF IngestTypeOK, JobState, RunState, Statuses, Pathways, Pcs
<1>2. JobsExist /\ AbsentIsBare
  BY DEF JobsExist, HasJob, AbsentIsBare, LoopFree
<1>3. PathKnown /\ LockTaken /\ LockedBeforeWritten
  BY DEF PathKnown, LockTaken, LockedBeforeWritten, Past
<1>4. BlobOwned /\ PermitHeld /\ OneStep
  BY IngestSets DEF BlobOwned, PermitHeld, OneStep
<1>5. StageFits
  BY IngestNat DEF StageFits
<1>6. AttemptsExplained
  <2>1. \A i \in Ings : Cardinality(Begun(i)) \in Nat
    BY BegunFinite DEF Begun
  <2> QED
    BY <2>1 DEF AttemptsExplained
<1> QED
  BY <1>1, <1>2, <1>3, <1>4, <1>5, <1>6 DEF IngestInv

LEMMA IngestStep == IngestInv /\ [Next]_vars => IngestInv'
<1>1. ASSUME IngestInv, Next
      PROVE  IngestInv'
  BY <1>1, TypeStep, JobsExistStep, AbsentStep, PathKnownStep, LockTakenStep,
     LockedStep, BlobStep, PermitStep, StageStep, OneStepStep, AttemptsStep
     DEF IngestInv
<1>2. ASSUME IngestInv, UNCHANGED vars
      PROVE  IngestInv'
  BY <1>2 DEF IngestInv, vars, IngestTypeOK, JobsExist, HasJob, Exists, LoopFree,
     AbsentIsBare, PathKnown, LockTaken, LockedBeforeWritten, BlobOwned, Due, Owned,
     Working, PermitHeld, StageFits, OneStep, AttemptsExplained, Begun
<1> QED
  BY <1>1, <1>2

(* The inductive invariant of the ingest jobs holds in every state.        *)
THEOREM IngestInvariant == Spec => []IngestInv
BY IngestInit, IngestStep, PTL DEF Spec

(* Every state is well typed: in particular a status is one of those that  *)
(* the handlers know.                                                      *)
THEOREM IngestTypes == Spec => []IngestTypeOK
<1>1. IngestInv => IngestTypeOK
  BY DEF IngestInv
<1> QED
  BY <1>1, IngestInvariant, PTL

(* The books of a company are written only after its pathway was locked.   *)
THEOREM LockFirst == Spec => []LockedBeforeWritten
<1>1. IngestInv => LockedBeforeWritten
  BY DEF IngestInv
<1> QED
  BY <1>1, IngestInvariant, PTL

(* The lock of a company is set once, whoever races for it.                *)
THEOREM LockOnce == Spec => LockNeverMoves
<1>1. [Next]_vars => [lock # "none" => lock' = lock]_vars
  BY LockStep
<1> QED
  BY <1>1, PTL DEF Spec, LockNeverMoves

(* No bytes outlive the processing of their document, short of a restart.  *)
THEOREM BytesReleased == Spec => []FilesReleased
<1>1. IngestInv => FilesReleased
  <2> SUFFICES ASSUME IngestInv, NEW i \in Ings, LiveOn(i) = {}, crashes = 0,
                      job[i].status \in {"completed", "failed"}, i \in blob
               PROVE  FALSE
    BY DEF FilesReleased
  <2>1. Owned(i)
    BY DEF IngestInv, BlobOwned, Due
  <2> QED
    BY <2>1 DEF Owned, Working, LiveOn, Live
<1> QED
  BY <1>1, IngestInvariant, PTL

(* A document is staged at most once per write phase, and every write      *)
(* phase but one per run is owed to a fault or to a restart.               *)
THEOREM StagedOnce == Spec => []StagedOncePerAttempt
<1>1. IngestInv => StagedOncePerAttempt
  <2> SUFFICES ASSUME IngestInv, NEW i \in Ings
               PROVE  /\ staged[i] <= DocSize * attempts[i]
                      /\ attempts[i] <= faults + crashes
                            + Cardinality({r \in Runs : run[r].ing = i})
    BY DEF StagedOncePerAttempt
  <2> DEFINE On == {r \in Runs : run[r].ing = i}
  <2>1. Begun(i) \in SUBSET On /\ On \in SUBSET Runs
    BY DEF Begun
  <2>2. Cardinality(Begun(i)) <= Cardinality(On) /\ Cardinality(On) \in Nat
        /\ Cardinality(Begun(i)) \in Nat
    <3> HIDE DEF On
    <3>1. Begun(i) \in SUBSET Runs
      BY <2>1
    <3> QED
      BY <2>1, <3>1, BegunFinite
  <2>3. /\ attempts[i] \in Nat /\ faults \in Nat /\ crashes \in Nat
        /\ attempts[i] <= faults + crashes + Cardinality(Begun(i))
        /\ staged[i] <= DocSize * attempts[i]
    BY DEF IngestInv, IngestTypeOK, AttemptsExplained, StageFits
  <2> HIDE DEF On
  <2>4. attempts[i] <= faults + crashes + Cardinality(On)
    BY <2>2, <2>3
  <2> QED
    BY <2>3, <2>4 DEF On
<1> QED
  BY <1>1, IngestInvariant, PTL
=============================================================================
