----------------------------- MODULE ProcessJob -----------------------------
(***************************************************************************)
(* The life of a process job under the inline engine: the handlers of      *)
(* app/api/v1/process.py, the coroutine of app/services/jobs.py that       *)
(* drives one run, and the pipeline threads of PersistNode underneath.     *)
(*                                                                         *)
(* Handlers and coroutines share one event loop: between two awaits        *)
(* nothing else of the loop runs, but the pipeline threads do.  `loop' is  *)
(* what the loop is in the middle of; each step of it is one commit or one *)
(* read whose result a later commit uses.                                  *)
(***************************************************************************)
EXTENDS PersistNode, FiniteSets

CONSTANTS
    Ingests,      \* ingest jobs (documents)
    JobIngest,    \* Jobs -> Ingests
    TxIngest,     \* Txs -> Ingests
    ViaBIngests,  \* the documents whose type needs no accounting pipeline
    Slots,        \* PROCESS_PIPELINE_CONCURRENCY
    MaxCrashes    \* bound: how often the server may be restarted

ASSUME JobsAssumption == IsFiniteSet(Jobs)
ASSUME SlotsAssumption == Slots \in Nat /\ Slots >= 1
ASSUME CrashesAssumption == MaxCrashes \in Nat
ASSUME IngestAssumption ==
    /\ JobIngest \in [Jobs -> Ingests]
    /\ TxIngest \in [Txs -> Ingests]
    /\ ViaBIngests \subseteq Ingests

VARIABLES
    co,         \* Runs -> where run_process_job is
    seen,       \* Runs -> the status of the job its session has in memory
    freeSlots,  \* free permits of PROCESS_PIPELINE_SEMAPHORE
    orphans,    \* helper threads that wait for a permit nobody will release
    loop,       \* what the event loop is in the middle of
    starts,     \* Runs -> how often it was dispatched
    crashes     \* restarts so far

coVars == <<co, seen, freeSlots, orphans, loop, starts>>
jobVars == <<persistVars, coVars, crashes>>

CoStates == {"none", "waiting", "ready", "awaiting", "ended"}

(* op: which code the loop is in; step: what it does next; sel: the         *)
(* transactions an earlier read selected.                                  *)
Ops == {"start", "fail", "late", "chain", "cancel"}
Steps == {"mark", "launch", "status", "head", "sweep", "swept", "pending",
          "chain"}
Idle == [step |-> "idle"]
Frame(op, step, r, S) == [op |-> op, step |-> step, run |-> r, sel |-> S]

TxsOf(j) == {t \in Txs : TxIngest[t] = JobIngest[j]}
WithStatus(j, status) == {t \in TxsOf(j) : txStatus[t] = status}

(* A run that holds a slot is one of the permits taken, so that, leaked or   *)
(* late, never more pipelines are driven than there are slots.  One run is  *)
(* dispatched at most once (DispatchOnce): 2 is there to fail.              *)
ProcessTypeOK ==
    /\ PersistTypeOK
    /\ co \in [Runs -> CoStates]
    /\ seen \in [Runs -> JobStatuses]
    /\ freeSlots \in 0..Slots
    /\ freeSlots + Cardinality({r \in Runs : co[r] \in {"ready", "awaiting"}}) <= Slots
    /\ orphans \in 0..Cardinality(Runs)
    /\ loop = Idle \/ loop \in [op : Ops, step : Steps, run : Runs, sel : SUBSET Txs]
    /\ starts \in [Runs -> 0..2]
    /\ crashes \in 0..MaxCrashes

(* The coroutines and semaphores of a fresh process.                       *)
LoopIdle ==
    /\ co = [r \in Runs |-> "none"]
    /\ seen = [r \in Runs |-> "NONE"]
    /\ freeSlots = Slots
    /\ orphans = 0
    /\ loop = Idle

JobInit ==
    /\ jobStatus = [j \in Jobs |-> "NONE"]
    /\ txStatus = [t \in Txs |-> "NONE"]
    /\ posted = {}
    /\ lined = {}
    /\ faults = MaxFaults
    /\ ThreadsIdle
    /\ LoopIdle
    /\ starts = [r \in Runs |-> 0]
    /\ crashes = 0

Doing(ops, step) == loop # Idle /\ loop.op \in ops /\ loop.step = step
Proceed(step, S) == loop' = [loop EXCEPT !.step = step, !.sel = S]

SetJob(j, status) == jobStatus' = [jobStatus EXCEPT ![j] = status]
MarkTxs(S, status) ==
    txStatus' = [t \in Txs |-> IF t \in S THEN status ELSE txStatus[t]]

-----------------------------------------------------------------------------
(* The ingest pipeline stages the transactions of a document one by one.   *)
StageTransaction(t) ==
    /\ txStatus[t] = "NONE"
    /\ txStatus' = [txStatus EXCEPT ![t] = "PENDING"]
    /\ UNCHANGED <<jobStatus, posted, lined, threadVars, faults, coVars, crashes>>

(* dispatch_process_start, inline: a task that first waits for a slot.     *)
Dispatch(r) ==
    /\ co' = [co EXCEPT ![r] = "waiting"]
    /\ starts' = [starts EXCEPT ![r] = @ + 1]

(* get_active_process_job_for_ingest: COMPLETED counts as active.          *)
Active(i) == \E j \in Jobs :
    /\ JobIngest[j] = i
    /\ jobStatus[j] \in {"QUEUED", "RUNNING", "COMPLETED", "PENDING_AUDIT_REVIEW"}

(* POST /process/accounting/{ingest_id}                                    *)
ProcessAccounting(j) ==
    /\ loop = Idle
    /\ jobStatus[j] = "NONE"
    /\ ~Active(JobIngest[j])
    /\ \E t \in TxsOf(j) : txStatus[t] # "NONE"
    /\ SetJob(j, "QUEUED")
    /\ Dispatch(<<j, "first">>)
    /\ UNCHANGED <<txStatus, posted, lined, threadVars, faults, seen, freeSlots,
                   orphans, loop, crashes>>

(* A confirmation that reads no status before it writes RUNNING.           *)
ConfirmUnguarded(j) ==
    /\ loop = Idle
    /\ jobStatus[j] \in {"PENDING_AUDIT_REVIEW", "RUNNING"}
    /\ starts[<<j, "first">>] = 1 /\ starts[<<j, "force">>] < 2
    /\ SetJob(j, "RUNNING")
    /\ Dispatch(<<j, "force">>)
    /\ UNCHANGED <<txStatus, posted, lined, threadVars, faults, seen, freeSlots,
                   orphans, loop, crashes>>

(* POST /process/{process_id}/audit-confirm: one guarded UPDATE.           *)
ConfirmAuditReview(j) ==
    /\ loop = Idle
    /\ jobStatus[j] = "PENDING_AUDIT_REVIEW"
    /\ SetJob(j, "RUNNING")
    /\ Dispatch(<<j, "force">>)
    /\ UNCHANGED <<txStatus, posted, lined, threadVars, faults, seen, freeSlots,
                   orphans, loop, crashes>>

(* POST /process/{process_id}/cancel: the status is read, ...              *)
CancelRead(j) ==
    /\ loop = Idle
    /\ jobStatus[j] \in {"QUEUED", "RUNNING", "PENDING_AUDIT_REVIEW"}
    /\ loop' = Frame("cancel", "status", <<j, "first">>, {})
    /\ UNCHANGED <<persistVars, co, seen, freeSlots, orphans, starts, crashes>>

(* A cancellation that leaves the transactions to the coroutine.            *)
CancelWriteOnly ==
    /\ Doing({"cancel"}, "status")
    /\ SetJob(JobOf(loop.run), "CANCELLED")
    /\ loop' = Idle
    /\ UNCHANGED <<txStatus, posted, lined, threadVars, faults, co, seen,
                   freeSlots, orphans, starts, crashes>>

(* ... and CANCELLED written over whatever it is by now.                   *)
CancelWrite ==
    /\ Doing({"cancel"}, "status")
    /\ SetJob(JobOf(loop.run), "CANCELLED")
    /\ Proceed("sweep", {})
    /\ UNCHANGED <<txStatus, posted, lined, threadVars, faults, co, seen,
                   freeSlots, orphans, starts, crashes>>

-----------------------------------------------------------------------------
(* run_process_job: a helper thread waits for a slot, the coroutine for it. *)
AcquireSlot(r) ==
    /\ co[r] = "waiting"
    /\ freeSlots > 0
    /\ freeSlots' = freeSlots - 1
    /\ co' = [co EXCEPT ![r] = "ready"]
    /\ UNCHANGED <<persistVars, seen, orphans, loop, starts, crashes>>

(* A timeout that tells nobody.                                            *)
SlotTimeoutSilent(r) ==
    /\ co[r] = "waiting" /\ loop = Idle /\ freeSlots = 0
    /\ co' = [co EXCEPT ![r] = "ended"]
    /\ orphans' = orphans + 1
    /\ UNCHANGED <<persistVars, seen, freeSlots, loop, starts, crashes>>

(* wait_for gives up; the helper thread cannot be interrupted and stays.    *)
SlotTimeout(r) ==
    /\ co[r] = "waiting" /\ loop = Idle /\ freeSlots = 0
    /\ SetJob(JobOf(r), "FAILED")
    /\ co' = [co EXCEPT ![r] = "ended"]
    /\ orphans' = orphans + 1
    /\ UNCHANGED <<txStatus, posted, lined, threadVars, faults, seen, freeSlots,
                   loop, starts, crashes>>

(* The orphaned helper gets the slot that nobody will release.             *)
OrphanAcquires ==
    /\ orphans > 0
    /\ freeSlots > 0
    /\ orphans' = orphans - 1
    /\ freeSlots' = freeSlots - 1
    /\ UNCHANGED <<persistVars, co, seen, loop, starts, crashes>>

(* A clean-up that gives the slot back before the finally clause does.      *)
EndRunTwice(r) ==
    /\ co' = [co EXCEPT ![r] = "ended"]
    /\ freeSlots' = freeSlots + 2
    /\ loop' = Idle

(* The finally clause of run_process_job.                                  *)
EndRun(r) ==
    /\ co' = [co EXCEPT ![r] = "ended"]
    /\ freeSlots' = freeSlots + 1
    /\ loop' = Idle

(* A claim that takes whatever was staged and not posted.                   *)
ClaimableUnposted(r) == {t \in TxsOf(JobOf(r)) : txStatus[t] \in
                           {"PENDING", "PROCESSING", "ERROR"}}

(* The transactions a run claims: the pending ones, and those of the first  *)
(* run when a review was confirmed.                                        *)
Claimable(r) ==
    WithStatus(JobOf(r), "PENDING") \union
        (IF Forced(r) THEN WithStatus(JobOf(r), "PROCESSING") ELSE {})

(* No transaction is left: the job is COMPLETED at once.                    *)
StartEmpty(r) ==
    /\ co[r] = "ready" /\ loop = Idle
    /\ Claimable(r) = {}
    /\ SetJob(JobOf(r), "COMPLETED")
    /\ EndRun(r)
    /\ UNCHANGED <<txStatus, posted, lined, threadVars, faults, seen, orphans,
                   starts, crashes>>

StartSelect(r) ==
    /\ co[r] = "ready" /\ loop = Idle
    /\ Claimable(r) # {}
    /\ loop' = Frame("start", "mark", r, Claimable(r))
    /\ UNCHANGED <<persistVars, co, seen, freeSlots, orphans, starts, crashes>>

StartMark ==
    /\ Doing({"start"}, "mark")
    /\ MarkTxs(loop.sel, "PROCESSING")
    /\ Proceed("launch", loop.sel)
    /\ UNCHANGED <<jobStatus, posted, lined, threadVars, faults, co, seen,
                   freeSlots, orphans, starts, crashes>>

(* RUNNING is written, whatever the status was, and read back into the      *)
(* session; the pipeline goes to a thread of the graph executor.           *)
StartLaunch ==
    /\ Doing({"start"}, "launch")
    /\ JobIngest[JobOf(loop.run)] \notin ViaBIngests
    /\ SetJob(JobOf(loop.run), "RUNNING")
    /\ seen' = [seen EXCEPT ![loop.run] = "RUNNING"]
    /\ StartThread(loop.run, loop.sel)
    /\ co' = [co EXCEPT ![loop.run] = "awaiting"]
    /\ loop' = Idle
    /\ UNCHANGED <<txStatus, posted, lined, faults, freeSlots, orphans, starts,
                   crashes>>

(* A document that is already a financial statement: COMPLETED, and its     *)
(* transactions stay PROCESSING.                                           *)
StartViaB ==
    /\ Doing({"start"}, "launch")
    /\ JobIngest[JobOf(loop.run)] \in ViaBIngests
    /\ SetJob(JobOf(loop.run), "COMPLETED")
    /\ EndRun(loop.run)
    /\ UNCHANGED <<txStatus, posted, lined, threadVars, faults, seen, orphans,
                   starts, crashes>>

(* A database error on the way: the handler's own session is aborted, so    *)
(* only run_process_job's guard writes FAILED.                             *)
StartFails ==
    /\ Doing({"start"}, "mark") \/ Doing({"start"}, "launch")
    /\ faults > 0
    /\ faults' = faults - 1
    /\ SetJob(JobOf(loop.run), "FAILED")
    /\ EndRun(loop.run)
    /\ UNCHANGED <<txStatus, posted, lined, threadVars, seen, orphans, starts,
                   crashes>>

-----------------------------------------------------------------------------
(* The pipeline returned.  The cancellation guard reads the job through the *)
(* session that has held it since StartLaunch: what it sees is `seen'.      *)
Finish(r) ==
    /\ co[r] = "awaiting" /\ loop = Idle
    /\ pc[r] = "done"
    /\ IF seen[r] = "CANCELLED" THEN EndRun(r) /\ UNCHANGED jobStatus
       ELSE \/ /\ result[r] = "review"
               /\ SetJob(JobOf(r), "PENDING_AUDIT_REVIEW")
               /\ EndRun(r)
            \/ /\ result[r] = "error"
               /\ SetJob(JobOf(r), "FAILED")
               /\ loop' = Frame("fail", "head", r, {})
               /\ UNCHANGED <<co, freeSlots>>
            \/ /\ result[r] = "ok"
               /\ SetJob(JobOf(r), "COMPLETED")
               /\ loop' = Frame("chain", "chain", r, {})
               /\ UNCHANGED <<co, freeSlots>>
    /\ UNCHANGED <<txStatus, posted, lined, threadVars, faults, seen, orphans,
                   starts, crashes>>

(* More transactions were staged meanwhile: a follow-up job, as long as the *)
(* bound on Jobs allows one.                                               *)
Chain ==
    /\ Doing({"chain"}, "chain")
    /\ LET more == {j \in Jobs : /\ jobStatus[j] = "NONE"
                                 /\ JobIngest[j] = JobIngest[JobOf(loop.run)]
                                 /\ WithStatus(j, "PENDING") # {}}
       IN  \/ /\ more = {}
              /\ EndRun(loop.run)
              /\ UNCHANGED <<jobStatus, starts>>
           \/ \E j \in more :
              /\ SetJob(j, "QUEUED")
              /\ co' = [co EXCEPT ![<<j, "first">>] = "waiting", ![loop.run] = "ended"]
              /\ starts' = [starts EXCEPT ![<<j, "first">>] = @ + 1]
              /\ freeSlots' = freeSlots + 1
              /\ loop' = Idle
    /\ UNCHANGED <<txStatus, posted, lined, threadVars, faults, seen, orphans, crashes>>

(* MAX_PROCESS_SECONDS are over: the thread goes on, the coroutine does not *)
(* wait for it any more.  The rows posted so far decide the status.        *)
Timeout(r) ==
    /\ co[r] = "awaiting" /\ loop = Idle
    /\ pc[r] # "done"
    /\ loop' = Frame(IF WithStatus(JobOf(r), "POSTED") # {} THEN "late" ELSE "fail",
                     "status", r, {})
    /\ UNCHANGED <<persistVars, co, seen, freeSlots, orphans, starts, crashes>>

TimeoutStatus ==
    /\ Doing({"late", "fail"}, "status")
    /\ IF loop.op = "late"
       THEN SetJob(JobOf(loop.run), "COMPLETED") /\ Proceed("sweep", {})
       ELSE SetJob(JobOf(loop.run), "FAILED") /\ Proceed("head", {})
    /\ UNCHANGED <<txStatus, posted, lined, threadVars, faults, co, seen,
                   freeSlots, orphans, starts, crashes>>

-----------------------------------------------------------------------------
(* The clean-up stops after the first transaction of the batch.             *)
MarkHeadOnly ==
    /\ Doing({"fail"}, "head")
    /\ \E t \in batch[loop.run] : MarkTxs({t}, "ERROR")
    /\ EndRun(loop.run)
    /\ UNCHANGED <<jobStatus, posted, lined, threadVars, faults, seen, orphans,
                   starts, crashes>>

(* _mark_pending_failed_safe(pending_id): the first transaction of the      *)
(* batch, in whatever order the query returned it, and whatever its status. *)
MarkHead ==
    /\ Doing({"fail"}, "head")
    /\ \E t \in batch[loop.run] : MarkTxs({t}, "ERROR")
    /\ Proceed("sweep", {})
    /\ UNCHANGED <<jobStatus, posted, lined, threadVars, faults, co, seen,
                   freeSlots, orphans, starts, crashes>>

(* _mark_processing_transactions_failed_safe: every PROCESSING transaction  *)
(* of the document is read, ...                                            *)
SweepRead ==
    /\ Doing({"fail", "late", "cancel"}, "sweep")
    /\ Proceed("swept", WithStatus(JobOf(loop.run), "PROCESSING"))
    /\ UNCHANGED <<persistVars, co, seen, freeSlots, orphans, starts, crashes>>

(* A sweep that puts the transactions back for another job.                 *)
SweepBack ==
    /\ Doing({"fail", "late", "cancel"}, "swept")
    /\ MarkTxs(loop.sel, "PENDING")
    /\ IF loop.op = "fail" THEN EndRun(loop.run)
       ELSE Proceed("pending", {}) /\ UNCHANGED <<co, freeSlots>>
    /\ UNCHANGED <<jobStatus, posted, lined, threadVars, faults, seen, orphans,
                   starts, crashes>>

(* ... and each goes to ERROR, even if a thread posted it meanwhile.        *)
SweepWrite ==
    /\ Doing({"fail", "late", "cancel"}, "swept")
    /\ MarkTxs(loop.sel, "ERROR")
    /\ IF loop.op = "fail" THEN EndRun(loop.run)
       ELSE Proceed("pending", {}) /\ UNCHANGED <<co, freeSlots>>
    /\ UNCHANGED <<jobStatus, posted, lined, threadVars, faults, seen, orphans,
                   starts, crashes>>

(* After a late timeout or a cancellation the PENDING ones go to ERROR too; *)
(* no thread writes a PENDING transaction, so read and write are one step. *)
MarkPendingFailed ==
    /\ Doing({"late", "cancel"}, "pending")
    /\ MarkTxs(WithStatus(JobOf(loop.run), "PENDING"), "ERROR")
    /\ IF loop.op = "late" THEN EndRun(loop.run)
       ELSE loop' = Idle /\ UNCHANGED <<co, freeSlots>>
    /\ UNCHANGED <<jobStatus, posted, lined, threadVars, faults, seen, orphans,
                   starts, crashes>>

-----------------------------------------------------------------------------
(* The server stops and starts: threads, coroutines and semaphores are new, *)
(* the tables stay, and no start-up code looks at them.                    *)
Crash ==
    /\ crashes < MaxCrashes
    /\ crashes' = crashes + 1
    /\ pc' = [r \in Runs |-> "idle"]
    /\ batch' = [r \in Runs |-> {}]
    /\ todo' = [r \in Runs |-> {}]
    /\ cur' = [r \in Runs |-> NoTx]
    /\ attempt' = [r \in Runs |-> 1]
    /\ blocked' = [r \in Runs |-> FALSE]
    /\ result' = [r \in Runs |-> "none"]
    /\ permits' = 1
    /\ co' = [r \in Runs |-> "none"]
    /\ seen' = [r \in Runs |-> "NONE"]
    /\ freeSlots' = Slots
    /\ orphans' = 0
    /\ loop' = Idle
    /\ UNCHANGED <<dbVars, faults, starts>>

Thread(r) == ThreadStep(r) /\ UNCHANGED <<coVars, crashes>>

RunStep(r) ==
    \/ AcquireSlot(r)
    \/ SlotTimeout(r)
    \/ StartEmpty(r)
    \/ StartSelect(r)
    \/ Finish(r)
    \/ Timeout(r)

LoopStep ==
    \/ CancelWrite
    \/ StartMark
    \/ StartLaunch
    \/ StartViaB
    \/ Chain
    \/ TimeoutStatus
    \/ MarkHead
    \/ SweepRead
    \/ SweepWrite
    \/ MarkPendingFailed

UserStep ==
    \/ \E t \in Txs : StageTransaction(t)
    \/ \E j \in Jobs : ProcessAccounting(j) \/ ConfirmAuditReview(j) \/ CancelRead(j)

JobNext ==
    \/ UserStep
    \/ LoopStep
    \/ StartFails
    \/ OrphanAcquires
    \/ Crash
    \/ \E r \in Runs : RunStep(r) \/ Thread(r)

JobSpec == JobInit /\ [][JobNext]_jobVars

(* The event loop, the threads and the timers run.  Users, the ingest       *)
(* pipeline, faults and crashes owe nothing.                               *)
JobFairness ==
    /\ WF_jobVars(LoopStep)
    /\ \A r \in Runs :
        /\ WF_jobVars(RunStep(r))
        /\ WF_jobVars(AgentStep(r) /\ UNCHANGED <<coVars, crashes>>)
        /\ WF_jobVars(WriteStep(r) /\ UNCHANGED <<coVars, crashes>>)

FairJobSpec == JobSpec /\ JobFairness

-----------------------------------------------------------------------------
Quiet == crashes = 0 /\ faults = MaxFaults

(* The guarded UPDATE keeps a double confirmation, or one that crosses a    *)
(* cancellation, from starting two forced runs of a job.                   *)
DispatchOnce == \A r \in Runs : starts[r] <= 1

(* First runs claim what is PENDING, so no transaction is ever given to two  *)
(* of them, although a job that was cancelled or timed out leaves its        *)
(* thread running while the user starts another one for the document.       *)
FirstBatchesDisjoint ==
    \A r, s \in Runs :
        r # s /\ ~Forced(r) /\ ~Forced(s) => batch[r] \intersect batch[s] = {}

(* With one slot this is so of confirmed runs too: two threads never work on *)
(* the same transaction.  With two, a confirmed run may claim what the      *)
(* thread of another job of the document is at.                             *)
InFlight(r) == pc[r] \notin {"idle", "done"}

BatchesDisjoint ==
    \A r, s \in Runs :
        r # s /\ InFlight(r) /\ InFlight(s) => batch[r] \intersect batch[s] = {}

(* A transaction with a posted row is never staged again, by any mix of     *)
(* timeouts, sweeps, forced runs and restarts.                              *)
PostedNotReclaimed ==
    \A p \in posted : txStatus[p.tx] \notin {"NONE", "PENDING"}

(* Two runs post the same transaction only if it has no key, which is what   *)
(* find_duplicate_posted looks up, and one of them is a confirmed review,   *)
(* which claims what another job has PROCESSING.                            *)
TwiceOnlyByReview ==
    \A p, q \in posted : p.tx = q.tx /\ p.run # q.run =>
        NatKey[p.tx] = NoKey /\ (Forced(p.run) \/ Forced(q.run))

(* With one slot not even then.                                             *)
PostedByOneRun ==
    \A p, q \in posted : p.tx = q.tx => p.run = q.run

(* "So they don't stay stuck": when the loop is idle and nothing crashed, a *)
(* transaction is PROCESSING only on behalf of a run that is still driven, *)
(* of a review, or for a reason of the three known ones: a duplicate that   *)
(* was skipped, a document of Via B, a confirmed run that got no slot.      *)
ProcessingIsExplained ==
    (Quiet /\ loop = Idle) => \A t \in Txs : txStatus[t] = "PROCESSING" =>
        \/ TxIngest[t] \in ViaBIngests
        \/ KnownKey(t)
        \/ \E r \in Runs : t \in batch[r] /\ co[r] = "awaiting"
        \/ \E j \in Jobs : /\ t \in batch[<<j, "first">>]
                           /\ result[<<j, "first">>] = "review"
                           /\ \/ jobStatus[j] = "PENDING_AUDIT_REVIEW"
                              \/ co[<<j, "force">>] # "none"

(* "So the frontend doesn't poll RUNNING forever": without a restart or a   *)
(* database fault, a job that is queued or running comes to rest.           *)
InProgress(j) == jobStatus[j] \in {"QUEUED", "RUNNING"}
JobSettles == \A j \in Jobs : InProgress(j) ~> (~InProgress(j) \/ ~Quiet)

(* A cancelled job whose pipeline returns stays cancelled: "do NOT          *)
(* overwrite it with a terminal status".                                   *)
CancelSurvivesFinish ==
    [][\A r \in Runs :
        (/\ co[r] = "awaiting" /\ pc[r] = "done" /\ loop = Idle
         /\ jobStatus[JobOf(r)] = "CANCELLED")
        => jobStatus'[JobOf(r)] = "CANCELLED"]_jobVars

(* A slot is free or in the hands of a coroutine that will release it.      *)
SlotsAccounted ==
    freeSlots + Cardinality({r \in Runs : co[r] \in {"ready", "awaiting"}}) = Slots
=============================================================================
