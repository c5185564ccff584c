---------------------------- MODULE PersistNode ----------------------------
(***************************************************************************)
(* The DB write phase of the accounting pipeline: db_persist_node and      *)
(* _run_persist in app/agents/persist_node.py, mode "process".             *)
(*                                                                         *)
(* A run is one invocation of the pipeline for a process job, executed by  *)
(* a thread of the graph executor.  The threads of a server share one      *)
(* semaphore (DB_WRITE_SEMAPHORE) and the database.  Every commit of the   *)
(* code is a step of its own here, because another thread, the event loop  *)
(* or a crash can come between any two of them.                            *)
(***************************************************************************)
EXTENDS Naturals

CONSTANTS
    Jobs,         \* process jobs (process_jobs rows)
    Txs,          \* staged transactions (transactions_pending rows)
    NatKey,       \* Txs -> (company_nit, nit_emisor, fecha::date, total), or NoKey
    NoKey,        \* the key of a transaction that lacks one of the four fields
    NoTx,         \* "no transaction"
    MaxAttempts,  \* MAX_NODE_RETRIES: how often with_db_retry calls _run_persist
    MaxFaults     \* bound: how many database faults a behaviour may have

ASSUME NoTxAssumption == NoTx \notin Txs
ASSUME AttemptsAssumption == MaxAttempts \in Nat /\ MaxAttempts >= 1
ASSUME FaultsAssumption == MaxFaults \in Nat

(* A job is run once when it starts and once more when its review is       *)
(* confirmed (force_persist).                                              *)
Runs == Jobs \X {"first", "force"}
JobOf(r) == r[1]
Forced(r) == r[2] = "force"

JobStatuses == {"NONE", "QUEUED", "RUNNING", "COMPLETED", "FAILED",
                "CANCELLED", "PENDING_AUDIT_REVIEW"}
TxStatuses == {"NONE", "PENDING", "PROCESSING", "POSTED", "ERROR"}

(* Where the pipeline thread of a run is.  "idle": no thread.  "agents":   *)
(* before db_persist.  "acquire": blocked on the semaphore.  "check" to    *)
(* "release": holding it.  "done": the graph returned.                     *)
WritePhase == {"check", "open", "next", "dup", "post", "lines", "closing",
               "release"}
PCs == {"idle", "agents", "acquire", "done"} \union WritePhase

(* What the graph returns to the coroutine that awaits it.                 *)
Results == {"none", "ok", "error", "review"}

VARIABLES
    jobStatus,  \* process_jobs.status
    txStatus,   \* transactions_pending.status
    posted,     \* transactions_posted rows: which tx, by which run and attempt
    lined,      \* the posted rows whose journal_entry_lines are committed
    pc,         \* Runs -> PCs
    batch,      \* Runs -> the transactions the run was given
    todo,       \* Runs -> those the current attempt has still to persist
    cur,        \* Runs -> the transaction being persisted
    attempt,    \* Runs -> attempt of with_db_retry, from 1
    blocked,    \* Runs -> does the audit of this output hold a BLOCKER
    result,     \* Runs -> Results
    permits,    \* free permits of DB_WRITE_SEMAPHORE
    faults      \* database faults that may still happen

dbVars == <<jobStatus, txStatus, posted, lined>>
threadVars == <<pc, batch, todo, cur, attempt, blocked, result, permits>>
persistVars == <<dbVars, threadVars, faults>>

Rows == [tx : Txs, run : Runs, attempt : 1..MaxAttempts]

PersistTypeOK ==
    /\ jobStatus \in [Jobs -> JobStatuses]
    /\ txStatus \in [Txs -> TxStatuses]
    /\ posted \subseteq Rows
    /\ lined \subseteq Rows
    /\ pc \in [Runs -> PCs]
    /\ batch \in [Runs -> SUBSET Txs]
    /\ todo \in [Runs -> SUBSET Txs]
    /\ cur \in [Runs -> Txs \union {NoTx}]
    /\ attempt \in [Runs -> 1..MaxAttempts]
    /\ blocked \in [Runs -> BOOLEAN]
    /\ result \in [Runs -> Results]
    /\ permits \in {0, 1}
    /\ faults \in 0..MaxFaults

(* The thread variables before any run, also what a restart leaves: the    *)
(* semaphore is created free (DB_WRITE_CONCURRENCY = 1).                   *)
ThreadsIdle ==
    /\ pc = [r \in Runs |-> "idle"]
    /\ batch = [r \in Runs |-> {}]
    /\ todo = [r \in Runs |-> {}]
    /\ cur = [r \in Runs |-> NoTx]
    /\ attempt = [r \in Runs |-> 1]
    /\ blocked = [r \in Runs |-> FALSE]
    /\ result = [r \in Runs |-> "none"]
    /\ permits = 1

-----------------------------------------------------------------------------
(* Before the write phase                                                  *)

(* The graph is invoked on a new thread with the run's transactions.       *)
StartThread(r, B) ==
    /\ pc[r] = "idle"
    /\ pc' = [pc EXCEPT ![r] = "agents"]
    /\ batch' = [batch EXCEPT ![r] = B]
    /\ todo' = [todo EXCEPT ![r] = B]
    /\ UNCHANGED <<cur, attempt, blocked, result, permits>>

(* The agents finished.  They reach db_persist with an output whose audit  *)
(* is clean or blocked, or end with an error, or with a review request.    *)
(* A forced run is never sent to review.                                   *)
AgentsReachPersist(r, isBlocked) ==
    /\ pc[r] = "agents"
    /\ blocked' = [blocked EXCEPT ![r] = isBlocked]
    /\ pc' = [pc EXCEPT ![r] = "acquire"]
    /\ UNCHANGED <<dbVars, batch, todo, cur, attempt, result, permits, faults>>

AgentsStop(r, outcome) ==
    /\ pc[r] = "agents"
    /\ outcome = "review" => ~Forced(r)
    /\ result' = [result EXCEPT ![r] = outcome]
    /\ pc' = [pc EXCEPT ![r] = "done"]
    /\ UNCHANGED <<dbVars, batch, todo, cur, attempt, blocked, permits, faults>>

(* DB_WRITE_SEMAPHORE.acquire(timeout=120).                                *)
AcquireWrite(r) ==
    /\ pc[r] = "acquire"
    /\ permits > 0
    /\ permits' = permits - 1
    /\ pc' = [pc EXCEPT ![r] = "check"]
    /\ UNCHANGED <<dbVars, batch, todo, cur, attempt, blocked, result, faults>>

(* A timeout that goes through the finally clause all the same.            *)
AcquireTimesOutReleasing(r) ==
    /\ pc[r] = "acquire"
    /\ permits = 0
    /\ result' = [result EXCEPT ![r] = "error"]
    /\ pc' = [pc EXCEPT ![r] = "release"]
    /\ UNCHANGED <<dbVars, batch, todo, cur, attempt, blocked, permits, faults>>

AcquireTimesOut(r) ==
    /\ pc[r] = "acquire"
    /\ permits = 0
    /\ result' = [result EXCEPT ![r] = "error"]
    /\ pc' = [pc EXCEPT ![r] = "done"]
    /\ UNCHANGED <<dbVars, batch, todo, cur, attempt, blocked, permits, faults>>

-----------------------------------------------------------------------------
(* The write phase.  Leave(r, res): the attempt returns, with what it       *)
(* leaves in state["error"] or needs_hitl_review.  Goto(r, label): it goes  *)
(* on outside the loop over the batch.                                     *)
Leave(r, res) ==
    /\ pc' = [pc EXCEPT ![r] = "release"]
    /\ result' = [result EXCEPT ![r] = res]
    /\ cur' = [cur EXCEPT ![r] = NoTx]

Goto(r, label) ==
    /\ pc' = [pc EXCEPT ![r] = label]
    /\ cur' = [cur EXCEPT ![r] = NoTx]
    /\ UNCHANGED result

(* A fresh session reads the job.  CANCELLED: return without an error.      *)
(* Otherwise the pre-persist audit runs, unless the run is forced.         *)
CheckCancelled(r) ==
    /\ pc[r] = "check"
    /\ IF jobStatus[JobOf(r)] = "CANCELLED" THEN Leave(r, "ok")
       ELSE IF blocked[r] /\ ~Forced(r) THEN Leave(r, "review")
       ELSE Goto(r, "open")
    /\ UNCHANGED <<dbVars, batch, todo, attempt, blocked, permits, faults>>

(* The check is best-effort: when its query fails the run goes on as if     *)
(* the job were not cancelled.                                             *)
CheckFails(r) ==
    /\ pc[r] = "check"
    /\ faults > 0
    /\ faults' = faults - 1
    /\ IF blocked[r] /\ ~Forced(r) THEN Leave(r, "review") ELSE Goto(r, "open")
    /\ UNCHANGED <<dbVars, batch, todo, attempt, blocked, permits>>

(* The job goes to RUNNING, stage "persisting", whatever its status was.   *)
OpenBatch(r) ==
    /\ pc[r] = "open"
    /\ jobStatus' = [jobStatus EXCEPT ![JobOf(r)] = "RUNNING"]
    /\ todo' = [todo EXCEPT ![r] = batch[r]]
    /\ pc' = [pc EXCEPT ![r] = "next"]
    /\ UNCHANGED <<txStatus, posted, lined, batch, cur, attempt, blocked, result,
                   permits, faults>>

(* The loop over the batch, in the order an unordered query returned.       *)
NextTx(r) ==
    /\ pc[r] = "next"
    /\ \E t \in todo[r] : cur' = [cur EXCEPT ![r] = t]
    /\ pc' = [pc EXCEPT ![r] = "dup"]
    /\ UNCHANGED <<dbVars, batch, todo, attempt, blocked, result, permits, faults>>

SameKey(t, u) == NatKey[t] # NoKey /\ NatKey[t] = NatKey[u]

(* find_duplicate_posted that looks for the pending row, not for its key.   *)
KnownRow(t) == \E p \in posted : p.tx = t

(* find_duplicate_posted; not called when a field of the key is missing.    *)
KnownKey(t) == \E p \in posted : SameKey(t, p.tx)

Advance(r) ==
    /\ todo' = [todo EXCEPT ![r] = @ \ {cur[r]}]
    /\ cur' = [cur EXCEPT ![r] = NoTx]
    /\ pc' = [pc EXCEPT ![r] = "next"]

(* A known key: skip the transaction, whose status stays as it is.          *)
DupCheck(r) ==
    /\ pc[r] = "dup"
    /\ IF KnownKey(cur[r])
       THEN Advance(r)
       ELSE pc' = [pc EXCEPT ![r] = "post"] /\ UNCHANGED <<todo, cur>>
    /\ UNCHANGED <<dbVars, batch, attempt, blocked, result, permits, faults>>

(* The query fails and the transaction is taken for a duplicate.            *)
DupCheckFailsSkipping(r) ==
    /\ pc[r] = "dup"
    /\ NatKey[cur[r]] # NoKey
    /\ faults > 0
    /\ faults' = faults - 1
    /\ Advance(r)
    /\ UNCHANGED <<dbVars, batch, attempt, blocked, result, permits>>

(* The query for a duplicate fails: swallowed, but the session is aborted   *)
(* and neither the post nor the FAILED status of the handler goes through.  *)
DupCheckFails(r) ==
    /\ pc[r] = "dup"
    /\ NatKey[cur[r]] # NoKey
    /\ faults > 0
    /\ faults' = faults - 1
    /\ Leave(r, "error")
    /\ UNCHANGED <<dbVars, batch, todo, attempt, blocked, permits>>

(* create_transaction_posted: the row and the status of its transaction in  *)
(* one commit.                                                             *)
Post(r) ==
    /\ pc[r] = "post"
    /\ posted' = posted \union {[tx |-> cur[r], run |-> r, attempt |-> attempt[r]]}
    /\ txStatus' = [txStatus EXCEPT ![cur[r]] = "POSTED"]
    /\ pc' = [pc EXCEPT ![r] = "lines"]
    /\ UNCHANGED <<jobStatus, lined, batch, todo, cur, attempt, blocked, result,
                   permits, faults>>

(* persist_journal_entries: the lines of the row, a commit of their own.    *)
PersistLines(r) ==
    /\ pc[r] = "lines"
    /\ lined' = lined \union {[tx |-> cur[r], run |-> r, attempt |-> attempt[r]]}
    /\ Advance(r)
    /\ UNCHANGED <<jobStatus, txStatus, posted, batch, attempt, blocked,
                   result, permits, faults>>

(* The loop is over: the job goes to COMPLETED, then the ingest job does.   *)
CloseJob(r) ==
    /\ pc[r] = "next"
    /\ todo[r] = {}
    /\ jobStatus' = [jobStatus EXCEPT ![JobOf(r)] = "COMPLETED"]
    /\ pc' = [pc EXCEPT ![r] = "closing"]
    /\ UNCHANGED <<txStatus, posted, lined, batch, todo, cur, attempt, blocked,
                   result, permits, faults>>

CloseIngest(r) ==
    /\ pc[r] = "closing"
    /\ Leave(r, "ok")
    /\ UNCHANGED <<dbVars, batch, todo, attempt, blocked, permits, faults>>

(* What makes _run_persist raise: no entries at all, an entry without an    *)
(* account, an account that is not in the PUC, and, after the row is        *)
(* posted, a line without a date (whose transaction has no key).           *)
Rejected(r) ==
    \/ pc[r] = "open"
    \/ pc[r] = "next" /\ todo[r] # {}
    \/ pc[r] = "lines" /\ NatKey[cur[r]] = NoKey

(* A rejection that returns past the finally clause.                        *)
FailBatchUnreleased(r) ==
    /\ Rejected(r)
    /\ jobStatus' = [jobStatus EXCEPT ![JobOf(r)] = "FAILED"]
    /\ result' = [result EXCEPT ![r] = "error"]
    /\ cur' = [cur EXCEPT ![r] = NoTx]
    /\ pc' = [pc EXCEPT ![r] = "done"]
    /\ UNCHANGED <<txStatus, posted, lined, batch, todo, attempt, blocked,
                   permits, faults>>

(* A line that is rejected does not fail the batch.                         *)
FailBatchContinuing(r) ==
    /\ pc[r] = "lines" /\ Rejected(r)
    /\ Advance(r)
    /\ UNCHANGED <<dbVars, batch, attempt, blocked, result, permits, faults>>

(* A non-transient error: the job goes to FAILED and nothing is retried.    *)
FailBatch(r) ==
    /\ Rejected(r)
    /\ jobStatus' = [jobStatus EXCEPT ![JobOf(r)] = "FAILED"]
    /\ Leave(r, "error")
    /\ UNCHANGED <<txStatus, posted, lined, batch, todo, attempt, blocked,
                   permits, faults>>

(* An OperationalError between two commits: with_db_retry calls             *)
(* _run_persist again, from the start, with the permit still held; after    *)
(* the last attempt the job is left as it is.                              *)
TransientFault(r) ==
    /\ pc[r] \in {"open", "next", "post", "lines", "closing"}
    /\ faults > 0
    /\ faults' = faults - 1
    /\ IF attempt[r] < MaxAttempts
       THEN /\ attempt' = [attempt EXCEPT ![r] = @ + 1]
            /\ Goto(r, "check")
       ELSE Leave(r, "error") /\ UNCHANGED attempt
    /\ UNCHANGED <<dbVars, batch, todo, blocked, permits>>

ReleaseWrite(r) ==
    /\ pc[r] = "release"
    /\ permits' = permits + 1
    /\ pc' = [pc EXCEPT ![r] = "done"]
    /\ UNCHANGED <<dbVars, batch, todo, cur, attempt, blocked, result, faults>>

-----------------------------------------------------------------------------
(* Every step of a pipeline thread                                         *)
AgentStep(r) ==
    \/ \E b \in BOOLEAN : AgentsReachPersist(r, b)
    \/ \E outcome \in {"error", "review"} : AgentsStop(r, outcome)

WriteStep(r) ==
    \/ AcquireWrite(r)
    \/ AcquireTimesOut(r)
    \/ CheckCancelled(r)
    \/ OpenBatch(r)
    \/ NextTx(r)
    \/ DupCheck(r)
    \/ Post(r)
    \/ PersistLines(r)
    \/ CloseJob(r)
    \/ CloseIngest(r)
    \/ FailBatch(r)
    \/ ReleaseWrite(r)

FaultStep(r) == CheckFails(r) \/ DupCheckFails(r) \/ TransientFault(r)

ThreadStep(r) == AgentStep(r) \/ WriteStep(r) \/ FaultStep(r)

-----------------------------------------------------------------------------
(* The write phase on its own: the callers, reduced to what they do to the  *)
(* state above (ProcessJob models them in full).                           *)
PersistInit ==
    /\ jobStatus = [j \in Jobs |-> "QUEUED"]
    /\ txStatus = [t \in Txs |-> "PENDING"]
    /\ posted = {}
    /\ lined = {}
    /\ ThreadsIdle
    /\ faults = MaxFaults

(* A job claims staged transactions and starts its pipeline.               *)
SubmitFirst(j, B) ==
    /\ \A t \in B : txStatus[t] = "PENDING"
    /\ StartThread(<<j, "first">>, B)
    /\ txStatus' = [t \in Txs |-> IF t \in B THEN "PROCESSING" ELSE txStatus[t]]
    /\ jobStatus' = [jobStatus EXCEPT ![j] = "RUNNING"]
    /\ UNCHANGED <<posted, lined, faults>>

(* The user confirms a review: the pipeline again, forced.                 *)
SubmitForced(j) ==
    /\ pc[<<j, "first">>] = "done"
    /\ result[<<j, "first">>] = "review"
    /\ jobStatus[j] # "CANCELLED"
    /\ StartThread(<<j, "force">>, batch[<<j, "first">>])
    /\ jobStatus' = [jobStatus EXCEPT ![j] = "RUNNING"]
    /\ UNCHANGED <<txStatus, posted, lined, faults>>

UserCancels(j) ==
    /\ jobStatus[j] \in {"QUEUED", "RUNNING"}
    /\ jobStatus' = [jobStatus EXCEPT ![j] = "CANCELLED"]
    /\ UNCHANGED <<txStatus, posted, lined, threadVars, faults>>

CallerStep ==
    \E j \in Jobs :
        \/ \E B \in SUBSET Txs \ {{}} : SubmitFirst(j, B)
        \/ SubmitForced(j)
        \/ UserCancels(j)

PersistNext == CallerStep \/ \E r \in Runs : ThreadStep(r)

PersistSpec == PersistInit /\ [][PersistNext]_persistVars

-----------------------------------------------------------------------------
(* DB_WRITE_SEMAPHORE does its work: no two threads are between acquire and *)
(* release at once, whatever timed out, failed or was retried.             *)
WriteExclusive ==
    \A r, s \in Runs : pc[r] \in WritePhase /\ pc[s] \in WritePhase => r = s

(* "Must NOT create a duplicate TransactionPosted": however runs of a       *)
(* re-uploaded document, retries and forced runs interleave, the posted     *)
(* rows of one natural key are one row.                                    *)
OneRowPerKey ==
    \A p, q \in posted : SameKey(p.tx, q.tx) => p = q

(* What "ok" promises to the coroutine: each transaction the run is done    *)
(* with has a posted row of its own or one with its key.                   *)
OkCoversBatch ==
    \A r \in Runs : result[r] = "ok" =>
        \A t \in batch[r] \ todo[r] : KnownRow(t) \/ KnownKey(t)

(* A row can stay without journal lines only when the run failed after it   *)
(* or was retried over it: an attempt that ends well posted every row with  *)
(* its lines.                                                              *)
HalfPostedIsFailure ==
    \A p \in posted \ lined :
        result[p.run] = "ok" => p.attempt < attempt[p.run]

(* "uq_transactions_posted_pending_id": one posted row per staged           *)
(* transaction, with or without a key.                                     *)
OneRowPerPending ==
    \A p, q \in posted : p.tx = q.tx => p = q

(* No failure, timeout, retry or cancellation keeps the write permit:       *)
(* it is always given back.                                                *)
PermitReturns == []<>(permits = 1)
=============================================================================
