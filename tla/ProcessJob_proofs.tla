-------------------------- MODULE ProcessJob_proofs --------------------------
(***************************************************************************)
(* Theorems about process jobs, for any number of documents, jobs,         *)
(* transactions, slots, faults and restarts.                               *)
(***************************************************************************)
EXTENDS ProcessJob, PersistNode_proofs, FiniteSetTheorems

Frames == [op : Ops, step : Steps, run : Runs, sel : SUBSET Txs]
Busy(ops) == loop # Idle /\ loop.op \in ops

CoTypeOK ==
    /\ co \in [Runs -> CoStates]
    /\ seen \in [Runs -> JobStatuses]
    /\ freeSlots \in Nat
    /\ orphans \in Nat
    /\ loop = Idle \/ loop \in Frames
    /\ starts \in [Runs -> 0..1]
    /\ crashes \in 0..MaxCrashes

(* A run is dispatched once, and its thread starts once.                   *)
Driven == {"waiting", "ready", "awaiting"}

DispatchedOnce ==
    \A r \in Runs :
        /\ starts[r] = 0 => co[r] = "none"
        /\ co[r] \in {"none", "waiting", "ready"} => pc[r] = "idle"

(* A job that does not exist yet was not dispatched.                       *)
FreshJob ==
    \A j \in Jobs : jobStatus[j] = "NONE" =>
        starts[<<j, "first">>] = 0 /\ starts[<<j, "force">>] = 0

(* A review is only confirmed after the first run is over, and once: no run *)
(* is left that could ask for another.                                     *)
OneReview ==
    \A j \in Jobs :
        /\ co[<<j, "first">>] \in Driven => jobStatus[j] # "PENDING_AUDIT_REVIEW"
        /\ co[<<j, "first">>] \in Driven \/ jobStatus[j] = "PENDING_AUDIT_REVIEW"
              => starts[<<j, "force">>] = 0

ForcedNotReviewed == \A r \in Runs : Forced(r) => result[r] # "review"

(* What the event loop is in the middle of belongs to a run it drives.      *)
LoopRun ==
    /\ Busy({"start"}) => co[loop.run] = "ready" /\ loop.step \in {"mark", "launch"}
    /\ Busy({"fail", "late", "chain"}) => co[loop.run] = "awaiting"

DispatchInv ==
    DispatchedOnce /\ FreshJob /\ OneReview /\ ForcedNotReviewed /\ LoopRun

Holders == {r \in Runs : co[r] \in {"ready", "awaiting"}}
Ended == {r \in Runs : co[r] = "ended"}

SlotsInv ==
    /\ freeSlots + Cardinality(Holders) <= Slots
    /\ orphans <= Cardinality(Ended)

-----------------------------------------------------------------------------
(* The records of the loop.                                                *)
LEMMA FrameFacts ==
    ASSUME NEW op \in Ops, NEW step \in Steps, NEW r \in Runs, NEW S \in SUBSET Txs
    PROVE  /\ Frame(op, step, r, S) \in Frames
           /\ Frame(op, step, r, S).op = op /\ Frame(op, step, r, S).step = step
           /\ Frame(op, step, r, S).run = r /\ Frame(op, step, r, S).sel = S
BY DEF Frame, Frames

LEMMA FrameNotIdle == \A f \in Frames : f # Idle
<1>1. Idle.step \notin Steps
  BY DEF Idle, Steps
<1> QED
  BY <1>1 DEF Frames

LEMMA ProceedFacts ==
    ASSUME loop \in Frames, NEW step \in Steps, NEW S \in SUBSET Txs, Proceed(step, S)
    PROVE  /\ loop' \in Frames
           /\ loop'.op = loop.op /\ loop'.run = loop.run
           /\ loop'.step = step /\ loop'.sel = S
BY DEF Proceed, Frames

LEMMA RunFacts ==
    /\ \A j \in Jobs : <<j, "first">> \in Runs /\ <<j, "force">> \in Runs
    /\ \A r \in Runs : JobOf(r) \in Jobs
    /\ \A r \in Runs : r = <<JobOf(r), "first">> \/ r = <<JobOf(r), "force">>
    /\ \A r \in Runs : Forced(r) <=> r = <<JobOf(r), "force">>
    /\ \A j \in Jobs : JobOf(<<j, "first">>) = j /\ JobOf(<<j, "force">>) = j
    /\ \A j \in Jobs : ~Forced(<<j, "first">>) /\ Forced(<<j, "force">>)
BY DEF Runs, JobOf, Forced

(* The cases of a step, each action once.                                  *)
LoopOnly ==
    \/ CancelWrite \/ StartMark \/ StartViaB \/ TimeoutStatus \/ MarkHead
    \/ SweepRead \/ SweepWrite \/ MarkPendingFailed \/ StartFails \/ Chain

LEMMA NextCases ==
    ASSUME JobNext
    PROVE  \/ \E t \in Txs : StageTransaction(t)
           \/ \E j \in Jobs : ProcessAccounting(j) \/ ConfirmAuditReview(j) \/ CancelRead(j)
           \/ LoopOnly
           \/ StartLaunch
           \/ OrphanAcquires
           \/ Crash
           \/ \E r \in Runs : RunStep(r)
           \/ \E r \in Runs : Thread(r)
BY DEF JobNext, UserStep, LoopStep, LoopOnly

-----------------------------------------------------------------------------
(* The threads under the loop.                                             *)
JobTypeOK == WriteInv /\ CoTypeOK

LEMMA LoopRunTyped ==
    ASSUME CoTypeOK, loop # Idle
    PROVE  /\ loop \in Frames /\ loop.run \in Runs /\ JobOf(loop.run) \in Jobs
           /\ loop.sel \in SUBSET Txs /\ loop.op \in Ops /\ loop.step \in Steps
BY RunFacts DEF CoTypeOK, Frames

(* Handlers and coroutines write statuses and start threads.               *)
LEMMA StatusTypes ==
    ASSUME JobTypeOK
    PROVE  /\ \A j \in Jobs, status \in JobStatuses :
                 SetJob(j, status) => jobStatus' \in [Jobs -> JobStatuses]
           /\ \A S : \A status \in TxStatuses :
                 MarkTxs(S, status) => txStatus' \in [Txs -> TxStatuses]
           /\ jobStatus \in [Jobs -> JobStatuses]
           /\ txStatus \in [Txs -> TxStatuses]
           /\ faults \in 0..MaxFaults
           /\ \A r \in Runs : batch[r] \in SUBSET Txs
BY DEF JobTypeOK, WriteInv, PersistTypeOK, SetJob, MarkTxs

(* Everything else leaves the threads and the posted rows alone.           *)
StatusesOnly ==
    /\ UNCHANGED threadVars /\ posted' = posted /\ lined' = lined
    /\ jobStatus' \in [Jobs -> JobStatuses]
    /\ txStatus' \in [Txs -> TxStatuses]
    /\ faults' \in 0..MaxFaults

LEMMA StatusStep ==
    ASSUME JobTypeOK,
           \/ \E t \in Txs : StageTransaction(t)
           \/ \E j \in Jobs : ProcessAccounting(j) \/ ConfirmAuditReview(j) \/ CancelRead(j)
           \/ LoopOnly
           \/ OrphanAcquires
           \/ \E r \in Runs : RunStep(r)
    PROVE  StatusesOnly
<1> USE StatusTypes, RunFacts DEF StatusesOnly, persistVars, dbVars
<1> HIDE DEF SetJob, MarkTxs
<1>1. ASSUME NEW t \in Txs, StageTransaction(t) PROVE StatusesOnly
  BY <1>1 DEF StageTransaction, TxStatuses
<1>2. ASSUME NEW j \in Jobs, ProcessAccounting(j) \/ ConfirmAuditReview(j) \/ CancelRead(j)
      PROVE  StatusesOnly
  BY <1>2 DEF ProcessAccounting, ConfirmAuditReview, CancelRead, JobStatuses
<1>3. CASE LoopOnly
  <2>1. loop # Idle => loop.run \in Runs /\ JobOf(loop.run) \in Jobs
    BY LoopRunTyped DEF JobTypeOK
  <2>2. CASE CancelWrite \/ StartViaB \/ TimeoutStatus
    BY <2>1, <2>2 DEF Doing, CancelWrite, StartViaB, TimeoutStatus, JobStatuses
  <2>3. CASE StartMark \/ SweepRead \/ SweepWrite \/ MarkPendingFailed
    BY <2>1, <2>3 DEF Doing, StartMark, SweepRead, SweepWrite, MarkPendingFailed, TxStatuses
  <2>4. CASE MarkHead
    BY <2>1, <2>4 DEF Doing, MarkHead, TxStatuses
  <2>5. CASE StartFails
    BY <2>1, <2>5, FaultsAssumption DEF Doing, StartFails, JobStatuses
  <2>6. CASE Chain
    BY <2>1, <2>6 DEF Doing, Chain, JobStatuses
  <2> QED
    BY <1>3, <2>2, <2>3, <2>4, <2>5, <2>6 DEF LoopOnly
<1>4. CASE OrphanAcquires
  BY <1>4 DEF OrphanAcquires
<1>5. ASSUME NEW r \in Runs, RunStep(r) PROVE StatusesOnly
  <2>1. CASE AcquireSlot(r) \/ StartSelect(r) \/ Timeout(r)
    BY <2>1 DEF AcquireSlot, StartSelect, Timeout
  <2>2. CASE SlotTimeout(r) \/ StartEmpty(r)
    BY <2>2 DEF SlotTimeout, StartEmpty, JobStatuses
  <2>3. CASE Finish(r)
    BY <2>3 DEF Finish, JobStatuses
  <2> QED
    BY <1>5, <2>1, <2>2, <2>3 DEF RunStep
<1> QED
  BY <1>1, <1>2, <1>3, <1>4, <1>5

(* A restart: no thread is left, and the permit is free.                   *)
LEMMA CrashKeeps ==
    ASSUME WriteInv, Crash
    PROVE  WriteInv'
<1>1. PersistTypeOK'
  BY AttemptsAssumption DEF WriteInv, PersistTypeOK, Crash, dbVars, PCs, Results
<1>2. /\ \A r \in Runs : pc'[r] = "idle" /\ batch'[r] = {} /\ result'[r] = "none"
      /\ posted' = posted
  BY DEF Crash, dbVars
<1> QED
  BY <1>1, <1>2 DEF WriteInv, PermitHeld, WriteExclusive, WritePhase, HasTx,
     KeyStillFree, RowPosted, DoneIsKnown, NoResultYet, OneRowPerKey

LEMMA WriteStays ==
    ASSUME JobTypeOK, [JobNext]_jobVars
    PROVE  WriteInv'
<1>w. WriteInv
  BY DEF JobTypeOK
<1>1. CASE StatusesOnly
  BY <1>1, <1>w, StatusKeeps DEF StatusesOnly
<1>2. CASE StartLaunch
  <2>1. loop.run \in Runs /\ loop.sel \in SUBSET Txs /\ JobOf(loop.run) \in Jobs
    BY <1>2, LoopRunTyped DEF StartLaunch, Doing, JobTypeOK
  <2>2. StartThread(loop.run, loop.sel) /\ SetJob(JobOf(loop.run), "RUNNING")
    BY <1>2 DEF StartLaunch
  <2>3. /\ posted' = posted /\ lined' = lined /\ faults' = faults
        /\ jobStatus' \in [Jobs -> JobStatuses] /\ txStatus' \in [Txs -> TxStatuses]
    BY <1>2, <2>1, <2>2, StatusTypes DEF StartLaunch, JobStatuses
  <2> QED
    BY <1>w, <2>1, <2>2, <2>3, StartKeeps
<1>3. CASE Crash
  BY <1>3, <1>w, CrashKeeps
<1>4. ASSUME NEW r \in Runs, Thread(r) PROVE WriteInv'
  BY <1>4, <1>w, ThreadStepWrite DEF Thread
<1>5. CASE UNCHANGED jobVars
  <2>1. StatusesOnly
    BY <1>5, StatusTypes DEF jobVars, persistVars, dbVars, StatusesOnly
  <2> QED
    BY <2>1, <1>1
<1> QED
  BY <1>1, <1>2, <1>3, <1>4, <1>5, NextCases, StatusStep

-----------------------------------------------------------------------------
(* Types of the coroutines and the loop.                                   *)
LEMMA EndRunTypes ==
    ASSUME CoTypeOK, NEW r \in Runs, EndRun(r)
    PROVE  co' \in [Runs -> CoStates] /\ freeSlots' \in Nat /\ loop' = Idle
BY DEF CoTypeOK, EndRun, CoStates

LEMMA CoTypeStep ==
    ASSUME JobTypeOK, DispatchInv, [JobNext]_jobVars
    PROVE  CoTypeOK'
<1>t. /\ CoTypeOK
      /\ co \in [Runs -> CoStates] /\ seen \in [Runs -> JobStatuses]
      /\ freeSlots \in Nat /\ orphans \in Nat /\ crashes \in 0..MaxCrashes
      /\ loop = Idle \/ loop \in Frames
      /\ starts \in [Runs -> 0..1]
  BY DEF JobTypeOK, CoTypeOK
<1>l. loop # Idle => /\ loop \in Frames /\ loop.run \in Runs /\ JobOf(loop.run) \in Jobs
                     /\ loop.sel \in SUBSET Txs
  BY <1>t, LoopRunTyped
<1>s. \A r \in Runs : WithStatus(JobOf(r), "PROCESSING") \in SUBSET Txs /\ Claimable(r) \in SUBSET Txs
  BY DEF WithStatus, TxsOf, Claimable
<1>p. \A step \in Steps, S \in SUBSET Txs : loop # Idle /\ Proceed(step, S) => loop' \in Frames
  BY <1>l, ProceedFacts
<1>e. \A r \in Runs : EndRun(r) => co' \in [Runs -> CoStates] /\ freeSlots' \in Nat /\ loop' = Idle
  BY <1>t, EndRunTypes
<1>1. ASSUME NEW t \in Txs, StageTransaction(t) PROVE CoTypeOK'
  BY <1>t, <1>1 DEF StageTransaction, coVars, CoTypeOK
<1>2. ASSUME NEW j \in Jobs, ProcessAccounting(j) \/ ConfirmAuditReview(j) PROVE CoTypeOK'
  <2>1. \A r \in Runs : starts[r] = 0 /\ Dispatch(r) =>
             co' \in [Runs -> CoStates] /\ starts' \in [Runs -> 0..1]
    BY <1>t DEF Dispatch, CoStates
  <2> QED
    BY <1>t, <1>2, <2>1, RunFacts
       DEF ProcessAccounting, ConfirmAuditReview, CoTypeOK, DispatchInv, FreshJob, OneReview
<1>3. ASSUME NEW j \in Jobs, CancelRead(j) PROVE CoTypeOK'
  <2>1. Frame("cancel", "status", <<j, "first">>, {}) \in Frames
    <3>1. "cancel" \in Ops /\ "status" \in Steps /\ <<j, "first">> \in Runs /\ {} \in SUBSET Txs
      BY RunFacts DEF Ops, Steps
    <3> QED
      BY <3>1, FrameFacts
  <2> QED
    BY <1>t, <1>3, <2>1 DEF CancelRead, CoTypeOK
<1>4. CASE LoopOnly
  <2>1. CASE CancelWrite \/ StartMark \/ MarkHead \/ SweepRead \/ TimeoutStatus
    BY <1>t, <1>l, <1>s, <1>p, <2>1
       DEF CancelWrite, StartMark, MarkHead, SweepRead, TimeoutStatus, Doing, CoTypeOK, Steps
  <2>2. CASE SweepWrite \/ MarkPendingFailed
    BY <1>t, <1>l, <1>p, <1>e, <2>2 DEF SweepWrite, MarkPendingFailed, Doing, CoTypeOK, Steps
  <2>3. CASE StartViaB \/ StartFails
    BY <1>t, <1>l, <1>e, <2>3 DEF StartViaB, StartFails, Doing, CoTypeOK
  <2>4. CASE Chain
    <3>1. PICK more \in SUBSET {j \in Jobs : jobStatus[j] = "NONE"} :
               \/ EndRun(loop.run) /\ UNCHANGED starts
               \/ \E j \in more :
                     /\ co' = [co EXCEPT ![<<j, "first">>] = "waiting", ![loop.run] = "ended"]
                     /\ starts' = [starts EXCEPT ![<<j, "first">>] = @ + 1]
                     /\ freeSlots' = freeSlots + 1
                     /\ loop' = Idle
      BY <2>4 DEF Chain
    <3>2. \A j \in more : starts[<<j, "first">>] = 0 /\ <<j, "first">> \in Runs
      BY RunFacts DEF DispatchInv, FreshJob
    <3>3. co' \in [Runs -> CoStates] /\ freeSlots' \in Nat /\ loop' = Idle
          /\ starts' \in [Runs -> 0..1]
      <4>1. CASE EndRun(loop.run) /\ UNCHANGED starts
        BY <1>t, <1>l, <1>e, <2>4, <4>1 DEF Chain, Doing
      <4>2. ASSUME NEW j \in more,
                   co' = [co EXCEPT ![<<j, "first">>] = "waiting", ![loop.run] = "ended"],
                   starts' = [starts EXCEPT ![<<j, "first">>] = @ + 1],
                   freeSlots' = freeSlots + 1, loop' = Idle
            PROVE  /\ co' \in [Runs -> CoStates] /\ freeSlots' \in Nat /\ loop' = Idle
                   /\ starts' \in [Runs -> 0..1]
        <5>1. co' \in [Runs -> CoStates]
          BY <1>t, <4>2 DEF CoStates
        <5>2. starts' \in [Runs -> 0..1]
          BY <1>t, <3>2, <4>2
        <5> QED
          BY <1>t, <4>2, <5>1, <5>2
      <4> QED
        BY <3>1, <4>1, <4>2
    <3> QED
      BY <1>t, <2>4, <3>3 DEF Chain, CoTypeOK
  <2> QED
    BY <1>4, <2>1, <2>2, <2>3, <2>4 DEF LoopOnly
<1>5. CASE StartLaunch
  BY <1>t, <1>l, <1>5 DEF StartLaunch, Doing, CoTypeOK, CoStates, JobStatuses
<1>6. CASE OrphanAcquires
  BY <1>t, <1>6 DEF OrphanAcquires, CoTypeOK
<1>7. CASE Crash
  BY <1>t, <1>7, CrashesAssumption, SlotsAssumption DEF Crash, CoTypeOK, CoStates, JobStatuses
<1>8. ASSUME NEW r \in Runs, RunStep(r) PROVE CoTypeOK'
  <2>1. CASE AcquireSlot(r) \/ SlotTimeout(r)
    BY <1>t, <2>1 DEF AcquireSlot, SlotTimeout, CoTypeOK, CoStates
  <2>2. CASE StartEmpty(r)
    BY <1>t, <1>e, <2>2 DEF StartEmpty, CoTypeOK
  <2>3. CASE StartSelect(r) \/ Timeout(r)
    BY <1>t, <1>s, <2>3, FrameFacts DEF StartSelect, Timeout, CoTypeOK, Ops, Steps
  <2>4. CASE Finish(r)
    BY <1>t, <1>e, <2>4, FrameFacts DEF Finish, CoTypeOK, Ops, Steps
  <2> QED
    BY <1>8, <2>1, <2>2, <2>3, <2>4 DEF RunStep
<1>9. ASSUME NEW r \in Runs, Thread(r) PROVE CoTypeOK'
  BY <1>t, <1>9 DEF Thread, coVars, CoTypeOK
<1>10. CASE UNCHANGED jobVars
  BY <1>t, <1>10 DEF jobVars, coVars, CoTypeOK
<1> QED
  BY <1>1, <1>2, <1>3, <1>4, <1>5, <1>6, <1>7, <1>8, <1>9, <1>10, NextCases

-----------------------------------------------------------------------------
(* How a step moves the coroutines, the slots and the orphaned helpers.     *)
Stays == UNCHANGED <<co, starts, freeSlots, orphans>>

Moves(r, from, to) == co[r] \in from /\ co' = [co EXCEPT ![r] = to]

Dispatches(r) ==
    /\ starts[r] = 0 /\ starts' = [starts EXCEPT ![r] = 1]
    /\ Moves(r, {"none"}, "waiting") /\ UNCHANGED <<freeSlots, orphans>>

Acquires(r) ==
    /\ Moves(r, {"waiting"}, "ready") /\ freeSlots > 0 /\ freeSlots' = freeSlots - 1
    /\ UNCHANGED <<starts, orphans>>

GivesUp(r) ==
    /\ Moves(r, {"waiting"}, "ended") /\ orphans' = orphans + 1
    /\ UNCHANGED <<starts, freeSlots>>

Launches(r) ==
    /\ Moves(r, {"ready"}, "awaiting")
    /\ UNCHANGED <<starts, freeSlots, orphans>>

Releases(r) ==
    /\ Moves(r, {"ready", "awaiting"}, "ended") /\ freeSlots' = freeSlots + 1
    /\ UNCHANGED <<starts, orphans>>

Chains(r, next) ==
    /\ next # r /\ co[r] = "awaiting" /\ co[next] = "none" /\ starts[next] = 0
    /\ co' = [co EXCEPT ![next] = "waiting", ![r] = "ended"]
    /\ starts' = [starts EXCEPT ![next] = 1]
    /\ freeSlots' = freeSlots + 1 /\ UNCHANGED orphans

Leaks ==
    /\ orphans > 0 /\ freeSlots > 0
    /\ orphans' = orphans - 1 /\ freeSlots' = freeSlots - 1 /\ UNCHANGED <<co, starts>>

CoMove ==
    \/ Stays
    \/ Leaks
    \/ \E r \in Runs : Dispatches(r) \/ Acquires(r) \/ GivesUp(r) \/ Launches(r) \/ Releases(r)
    \/ \E r \in Runs, next \in Runs : Chains(r, next)

(* A new job or a confirmed one has not been dispatched before.             *)
LEMMA NotDispatched ==
    ASSUME CoTypeOK, DispatchInv
    PROVE  /\ \A j \in Jobs : jobStatus[j] = "NONE" =>
                 starts[<<j, "first">>] = 0 /\ co[<<j, "first">>] = "none"
           /\ \A j \in Jobs : jobStatus[j] = "PENDING_AUDIT_REVIEW" =>
                 starts[<<j, "force">>] = 0 /\ co[<<j, "force">>] = "none"
           /\ \A r \in Runs : Dispatch(r) /\ starts[r] = 0 => starts' = [starts EXCEPT ![r] = 1]
<1>1. \A r \in Runs : starts[r] = 0 => co[r] = "none"
  BY DEF DispatchInv, DispatchedOnce
<1>2. ASSUME NEW r \in Runs, Dispatch(r), starts[r] = 0 PROVE starts' = [starts EXCEPT ![r] = 1]
  BY <1>2 DEF Dispatch, CoTypeOK
<1> QED
  BY <1>1, <1>2, RunFacts DEF DispatchInv, FreshJob, OneReview

(* The run that the loop ends holds a slot.                                 *)
LEMMA LoopMove ==
    ASSUME JobTypeOK, DispatchInv, LoopOnly
    PROVE  CoMove
<1>l. loop # Idle => loop.run \in Runs
  BY LoopRunTyped DEF JobTypeOK
<1>r. /\ loop # Idle /\ loop.op = "start" => co[loop.run] = "ready"
      /\ loop # Idle /\ loop.op \in {"fail", "late", "chain"} => co[loop.run] = "awaiting"
  BY DEF DispatchInv, LoopRun, Busy
<1>1. CASE CancelWrite \/ StartMark \/ TimeoutStatus \/ MarkHead \/ SweepRead
  BY <1>1 DEF CancelWrite, StartMark, TimeoutStatus, MarkHead, SweepRead, CoMove, Stays
<1>2. CASE StartViaB \/ StartFails
  <2>1. Releases(loop.run)
    BY <1>2, <1>r DEF StartViaB, StartFails, Doing, EndRun, Releases, Moves
  <2> QED
    BY <1>2, <1>l, <2>1 DEF StartViaB, StartFails, Doing, CoMove
<1>3. CASE SweepWrite \/ MarkPendingFailed
  <2>1. Releases(loop.run) \/ Stays
    BY <1>3, <1>r DEF SweepWrite, MarkPendingFailed, Doing, EndRun, Releases, Moves, Stays
  <2> QED
    BY <1>3, <1>l, <2>1 DEF SweepWrite, MarkPendingFailed, Doing, CoMove
<1>4. CASE Chain
  <2>1. loop.run \in Runs /\ co[loop.run] = "awaiting"
    BY <1>4, <1>l, <1>r DEF Chain, Doing
  <2>2. CASE EndRun(loop.run) /\ UNCHANGED starts
    BY <1>4, <2>1, <2>2 DEF Chain, EndRun, Releases, Moves, CoMove
  <2>3. CASE ~(EndRun(loop.run) /\ UNCHANGED starts)
    <3>1. PICK j \in Jobs :
             /\ jobStatus[j] = "NONE"
             /\ co' = [co EXCEPT ![<<j, "first">>] = "waiting", ![loop.run] = "ended"]
             /\ starts' = [starts EXCEPT ![<<j, "first">>] = @ + 1]
             /\ freeSlots' = freeSlots + 1
      BY <1>4, <2>3 DEF Chain
    <3>2. /\ <<j, "first">> \in Runs
          /\ starts[<<j, "first">>] = 0 /\ co[<<j, "first">>] = "none"
      BY <3>1, NotDispatched, RunFacts DEF JobTypeOK
    <3>3. starts' = [starts EXCEPT ![<<j, "first">>] = 1]
      BY <3>1, <3>2 DEF JobTypeOK, CoTypeOK
    <3>4. Chains(loop.run, <<j, "first">>)
      BY <1>4, <2>1, <3>1, <3>2, <3>3 DEF Chain, Chains
    <3> QED
      BY <2>1, <3>2, <3>4 DEF CoMove
  <2> QED
    BY <2>2, <2>3
<1> QED
  BY <1>1, <1>2, <1>3, <1>4 DEF LoopOnly

LEMMA CoMoves ==
    ASSUME JobTypeOK, DispatchInv, [JobNext]_jobVars
    PROVE  CoMove \/ Crash
<1>l. loop # Idle => loop.run \in Runs
  BY LoopRunTyped DEF JobTypeOK
<1>1. ASSUME NEW t \in Txs, StageTransaction(t) PROVE CoMove
  BY <1>1 DEF StageTransaction, coVars, CoMove, Stays
<1>2. ASSUME NEW j \in Jobs, ProcessAccounting(j) \/ ConfirmAuditReview(j) \/ CancelRead(j)
      PROVE  CoMove
  <2>1. CASE ProcessAccounting(j)
    <3>1. Dispatches(<<j, "first">>)
      BY <2>1, NotDispatched, RunFacts DEF ProcessAccounting, Dispatch, Dispatches, Moves, JobTypeOK
    <3> QED
      BY <3>1, RunFacts DEF CoMove
  <2>2. CASE ConfirmAuditReview(j)
    <3>1. Dispatches(<<j, "force">>)
      BY <2>2, NotDispatched, RunFacts DEF ConfirmAuditReview, Dispatch, Dispatches, Moves, JobTypeOK
    <3> QED
      BY <3>1, RunFacts DEF CoMove
  <2>3. CASE CancelRead(j)
    BY <2>3 DEF CancelRead, CoMove, Stays
  <2> QED
    BY <1>2, <2>1, <2>2, <2>3
<1>3. CASE LoopOnly
  BY <1>3, LoopMove
<1>4. CASE StartLaunch
  <2>1. Launches(loop.run)
    BY <1>4 DEF StartLaunch, Doing, Launches, Moves, DispatchInv, LoopRun, Busy
  <2> QED
    BY <1>4, <1>l, <2>1 DEF StartLaunch, Doing, CoMove
<1>5. CASE OrphanAcquires
  BY <1>5 DEF OrphanAcquires, CoMove, Leaks
<1>6. ASSUME NEW r \in Runs, RunStep(r) PROVE CoMove
  <2>1. Acquires(r) \/ GivesUp(r) \/ Releases(r) \/ Stays
    BY <1>6 DEF RunStep, AcquireSlot, SlotTimeout, StartEmpty, StartSelect, Finish, Timeout,
       EndRun, Moves, Acquires, GivesUp, Releases, Stays
  <2> QED
    BY <2>1 DEF CoMove
<1>7. ASSUME NEW r \in Runs, Thread(r) PROVE CoMove
  BY <1>7 DEF Thread, coVars, CoMove, Stays
<1>8. CASE UNCHANGED jobVars
  BY <1>8 DEF jobVars, coVars, CoMove, Stays
<1> QED
  BY <1>1, <1>2, <1>3, <1>4, <1>5, <1>6, <1>7, <1>8, NextCases

-----------------------------------------------------------------------------
(* Slots                                                                   *)
LEMMA SetFacts ==
    ASSUME NEW S \in SUBSET Runs
    PROVE  /\ Cardinality(S) \in Nat
           /\ \A x : x \in S => Cardinality(S \ {x}) = Cardinality(S) - 1
           /\ \A x : x \notin S => Cardinality(S \union {x}) = Cardinality(S) + 1
           /\ \A T : T \subseteq S => Cardinality(T) <= Cardinality(S)
<1>1. IsFiniteSet({"first", "force"})
  <2>1. IsFiniteSet({"first"}) /\ {"first", "force"} = {"first"} \union {"force"}
    BY FS_Singleton
  <2> QED
    BY <2>1, FS_AddElement
<1>2. IsFiniteSet(Runs)
  BY <1>1, JobsAssumption, FS_Product DEF Runs
<1>3. IsFiniteSet(S)
  BY <1>2, FS_Subset
<1> QED
  BY <1>3, FS_CardinalityType, FS_RemoveElement, FS_AddElement, FS_Subset

(* A slot is taken by whoever is counted as its holder, and given back by   *)
(* one who is; a helper is left behind only by a run that is over.          *)
LEMMA SlotsStep ==
    ASSUME JobTypeOK, SlotsInv, CoMove \/ Crash
    PROVE  SlotsInv'
<1>t. co \in [Runs -> CoStates] /\ freeSlots \in Nat /\ orphans \in Nat
  BY DEF JobTypeOK, CoTypeOK
<1>h. Holders \in SUBSET Runs /\ Ended \in SUBSET Runs
  BY DEF Holders, Ended
<1>n. Cardinality(Holders) \in Nat /\ Cardinality(Ended) \in Nat
  BY <1>h, SetFacts
<1>s. Slots \in Nat /\ freeSlots + Cardinality(Holders) <= Slots /\ orphans <= Cardinality(Ended)
  BY SlotsAssumption DEF SlotsInv
<1>k. ASSUME Holders' = Holders, Ended' = Ended, freeSlots' \in Nat, freeSlots' <= freeSlots,
             orphans' \in Nat, orphans' <= orphans
      PROVE  SlotsInv'
  <2>1. Cardinality(Holders)' = Cardinality(Holders) /\ Cardinality(Ended)' = Cardinality(Ended)
    BY <1>k
  <2> HIDE DEF Holders, Ended
  <2> QED
    BY <1>k, <1>s, <1>n, <1>t, <2>1 DEF SlotsInv
<1>1. CASE Stays \/ Leaks
  <2>1. Holders' = Holders /\ Ended' = Ended
    BY <1>1 DEF Stays, Leaks, Holders, Ended
  <2> QED
    BY <1>1, <1>t, <1>k, <2>1 DEF Stays, Leaks
<1>2. ASSUME NEW r \in Runs, Dispatches(r) \/ Launches(r) PROVE SlotsInv'
  <2>1. Holders' = Holders /\ Ended' = Ended
    BY <1>2, <1>t DEF Dispatches, Launches, Moves, Holders, Ended
  <2> QED
    BY <1>2, <1>t, <1>k, <2>1 DEF Dispatches, Launches
<1>3. ASSUME NEW r \in Runs, Acquires(r) PROVE SlotsInv'
  <2>1. Holders' = Holders \union {r} /\ r \notin Holders /\ Ended' = Ended
    BY <1>3, <1>t DEF Acquires, Moves, Holders, Ended
  <2>2. Cardinality(Holders') = Cardinality(Holders) + 1 /\ Cardinality(Ended') = Cardinality(Ended)
    BY <1>h, <2>1, SetFacts
  <2>3. freeSlots > 0 /\ freeSlots' = freeSlots - 1 /\ orphans' = orphans
    BY <1>3 DEF Acquires
  <2> HIDE DEF Holders, Ended
  <2> QED
    BY <1>t, <1>n, <1>s, <2>2, <2>3 DEF SlotsInv
<1>4. ASSUME NEW r \in Runs, GivesUp(r) PROVE SlotsInv'
  <2>1. Holders' = Holders /\ Ended' = Ended \union {r} /\ r \notin Ended
    BY <1>4, <1>t DEF GivesUp, Moves, Holders, Ended
  <2>2. Cardinality(Holders') = Cardinality(Holders) /\ Cardinality(Ended') = Cardinality(Ended) + 1
    BY <1>h, <2>1, SetFacts
  <2>3. freeSlots' = freeSlots /\ orphans' = orphans + 1
    BY <1>4 DEF GivesUp
  <2> HIDE DEF Holders, Ended
  <2> QED
    BY <1>t, <1>n, <1>s, <2>2, <2>3 DEF SlotsInv
<1>5. ASSUME NEW r \in Runs,
             Releases(r) \/ \E next \in Runs : Chains(r, next) PROVE SlotsInv'
  <2>1. /\ Holders' = Holders \ {r} /\ r \in Holders
        /\ Ended' = Ended \union {r} /\ r \notin Ended
    BY <1>5, <1>t DEF Releases, Chains, Moves, Holders, Ended
  <2>2. /\ Cardinality(Holders') = Cardinality(Holders) - 1
        /\ Cardinality(Ended') = Cardinality(Ended) + 1
    BY <1>h, <2>1, SetFacts
  <2>3. freeSlots' = freeSlots + 1 /\ orphans' = orphans
    BY <1>5 DEF Releases, Chains
  <2> HIDE DEF Holders, Ended
  <2> QED
    BY <1>t, <1>n, <1>s, <2>2, <2>3 DEF SlotsInv
<1>6. CASE Crash
  <2>1. Holders' = {} /\ Ended' \in SUBSET Runs /\ freeSlots' = Slots /\ orphans' = 0
    BY <1>6 DEF Crash, Holders, Ended
  <2>2. Cardinality(Holders') = 0 /\ Cardinality(Ended') \in Nat
    BY <2>1, SetFacts, FS_EmptySet
  <2> HIDE DEF Holders, Ended
  <2> QED
    BY <1>s, <2>1, <2>2 DEF SlotsInv
<1> QED
  BY <1>1, <1>2, <1>3, <1>4, <1>5, <1>6 DEF CoMove

-----------------------------------------------------------------------------
(* Dispatching.  A plain step dispatches nothing, drives no new run, and    *)
(* neither creates a job nor asks for a review.                            *)
Plain ==
    /\ starts' = starts
    /\ \A j \in Jobs : jobStatus'[j] = jobStatus[j] \/ jobStatus'[j] \notin {"NONE", "PENDING_AUDIT_REVIEW"}
    /\ \A r \in Runs : co'[r] \in Driven => co[r] \in Driven

LEMMA SetPlain ==
    ASSUME jobStatus \in [Jobs -> JobStatuses], NEW i, NEW status, SetJob(i, status),
           status \notin {"NONE", "PENDING_AUDIT_REVIEW"}
    PROVE  \A j \in Jobs : jobStatus'[j] = jobStatus[j] \/ jobStatus'[j] \notin {"NONE", "PENDING_AUDIT_REVIEW"}
BY DEF SetJob

(* A thread writes RUNNING, COMPLETED or FAILED.                            *)
LEMMA ThreadPlain ==
    ASSUME PersistTypeOK, NEW r \in Runs, ThreadStep(r)
    PROVE  \A j \in Jobs : jobStatus'[j] = jobStatus[j] \/ jobStatus'[j] \notin {"NONE", "PENDING_AUDIT_REVIEW"}
<1> USE DEF PersistTypeOK, dbVars, Leave, Goto, Advance
<1>1. CASE AgentStep(r)
  BY <1>1 DEF AgentStep, AgentsReachPersist, AgentsStop
<1>2. CASE WriteStep(r)
  BY <1>2 DEF WriteStep, AcquireWrite, AcquireTimesOut, CheckCancelled, OpenBatch,
     NextTx, DupCheck, Post, PersistLines, CloseJob, CloseIngest, FailBatch, ReleaseWrite
<1>3. CASE FaultStep(r)
  BY <1>3 DEF FaultStep, CheckFails, DupCheckFails, TransientFault
<1> QED
  BY <1>1, <1>2, <1>3 DEF ThreadStep

LEMMA PlainSteps ==
    ASSUME JobTypeOK, DispatchInv, [JobNext]_jobVars
    PROVE  \/ Plain
           \/ \E j \in Jobs : ProcessAccounting(j) \/ ConfirmAuditReview(j)
           \/ Chain
           \/ \E r \in Runs : Finish(r)
<1>t. /\ jobStatus \in [Jobs -> JobStatuses] /\ co \in [Runs -> CoStates]
      /\ crashes \in Int
  BY StatusTypes DEF JobTypeOK, CoTypeOK
<1>c. ASSUME CoMove, starts' = starts PROVE \A r \in Runs : co'[r] \in Driven => co[r] \in Driven
  BY <1>c, <1>t DEF CoMove, Stays, Leaks, Dispatches, Acquires, GivesUp, Launches, Releases,
     Chains, Moves, Driven, CoStates, JobTypeOK, CoTypeOK
<1>m. CoMove \/ Crash
  BY CoMoves
<1>1. ASSUME NEW t \in Txs, StageTransaction(t) PROVE Plain
  BY <1>1 DEF StageTransaction, coVars, Plain
<1>2. ASSUME NEW j \in Jobs, CancelRead(j) PROVE Plain
  BY <1>2 DEF CancelRead, persistVars, dbVars, Plain
<1>3. CASE CancelWrite \/ StartMark \/ StartViaB \/ TimeoutStatus \/ MarkHead
           \/ SweepRead \/ SweepWrite \/ MarkPendingFailed \/ StartFails
  <2>1. starts' = starts /\ ~Crash
    BY <1>t, <1>3 DEF CancelWrite, StartMark, StartViaB, TimeoutStatus, MarkHead, SweepRead,
       SweepWrite, MarkPendingFailed, StartFails, Crash, Doing
  <2>2. \/ jobStatus' = jobStatus
        \/ \E i, status : SetJob(i, status) /\ status \notin {"NONE", "PENDING_AUDIT_REVIEW"}
    BY <1>3 DEF CancelWrite, StartMark, StartViaB, TimeoutStatus, MarkHead, SweepRead,
       SweepWrite, MarkPendingFailed, StartFails, persistVars, dbVars
  <2> QED
    BY <1>c, <1>m, <1>t, <2>1, <2>2, SetPlain DEF Plain
<1>4. CASE StartLaunch
  BY <1>4, <1>c, <1>m, <1>t, SetPlain DEF StartLaunch, Plain, Crash
<1>5. CASE OrphanAcquires
  BY <1>5 DEF OrphanAcquires, persistVars, dbVars, Plain
<1>6. CASE Crash
  BY <1>6 DEF Crash, dbVars, Plain, Driven
<1>7. ASSUME NEW r \in Runs, RunStep(r), ~Finish(r) PROVE Plain
  <2>1. starts' = starts /\ ~Crash
    BY <1>t, <1>7 DEF RunStep, AcquireSlot, SlotTimeout, StartEmpty, StartSelect, Timeout, Crash
  <2>2. \/ jobStatus' = jobStatus
        \/ \E i, status : SetJob(i, status) /\ status \notin {"NONE", "PENDING_AUDIT_REVIEW"}
    BY <1>7 DEF RunStep, AcquireSlot, SlotTimeout, StartEmpty, StartSelect, Timeout,
       persistVars, dbVars
  <2> QED
    BY <1>c, <1>m, <1>t, <2>1, <2>2, SetPlain DEF Plain
<1>8. ASSUME NEW r \in Runs, Thread(r) PROVE Plain
  BY <1>8, ThreadPlain DEF Thread, coVars, Plain, JobTypeOK, WriteInv
<1>9. CASE UNCHANGED jobVars
  BY <1>9 DEF jobVars, coVars, persistVars, dbVars, Plain
<1> QED
  BY <1>1, <1>2, <1>3, <1>4, <1>5, <1>6, <1>7, <1>8, <1>9, NextCases DEF LoopOnly

(* A job is created when it is first dispatched.                           *)
LEMMA FreshJobStep ==
    ASSUME JobTypeOK, DispatchInv, [JobNext]_jobVars
    PROVE  FreshJob'
<1>t. jobStatus \in [Jobs -> JobStatuses] /\ starts \in [Runs -> 0..1]
  BY StatusTypes DEF JobTypeOK, CoTypeOK
<1>f. FreshJob
  BY DEF DispatchInv
<1>1. CASE Plain
  BY <1>1, <1>f DEF Plain, FreshJob
<1>2. ASSUME NEW j \in Jobs, ProcessAccounting(j) \/ ConfirmAuditReview(j) PROVE FreshJob'
  <2>1. \A i \in Jobs : i # j => /\ jobStatus'[i] = jobStatus[i]
                                 /\ starts'[<<i, "first">>] = starts[<<i, "first">>]
                                 /\ starts'[<<i, "force">>] = starts[<<i, "force">>]
    BY <1>2, <1>t, RunFacts DEF ProcessAccounting, ConfirmAuditReview, SetJob, Dispatch
  <2>2. jobStatus'[j] # "NONE"
    BY <1>2, <1>t DEF ProcessAccounting, ConfirmAuditReview, SetJob
  <2> QED
    BY <1>f, <2>1, <2>2 DEF FreshJob
<1>3. CASE Chain
  <2>1. CASE UNCHANGED <<jobStatus, starts>>
    BY <1>f, <2>1 DEF FreshJob
  <2>2. CASE ~UNCHANGED <<jobStatus, starts>>
    <3>1. PICK j \in Jobs : SetJob(j, "QUEUED") /\ starts' = [starts EXCEPT ![<<j, "first">>] = @ + 1]
      BY <1>3, <2>2 DEF Chain
    <3>2. \A i \in Jobs : i # j => /\ jobStatus'[i] = jobStatus[i]
                                   /\ starts'[<<i, "first">>] = starts[<<i, "first">>]
                                   /\ starts'[<<i, "force">>] = starts[<<i, "force">>]
      BY <3>1, <1>t, RunFacts DEF SetJob
    <3>3. jobStatus'[j] # "NONE"
      BY <3>1, <1>t DEF SetJob
    <3> QED
      BY <1>f, <3>2, <3>3 DEF FreshJob
  <2> QED
    BY <2>1, <2>2
<1>4. ASSUME NEW r \in Runs, Finish(r) PROVE FreshJob'
  <2>1. starts' = starts /\ \A j \in Jobs : jobStatus'[j] = jobStatus[j] \/ jobStatus'[j] # "NONE"
    BY <1>4, <1>t DEF Finish, SetJob
  <2> QED
    BY <1>f, <2>1 DEF FreshJob
<1> QED
  BY <1>1, <1>2, <1>3, <1>4, PlainSteps

(* A review is asked for by a first run, which ends with it.               *)
LEMMA OneReviewStep ==
    ASSUME JobTypeOK, DispatchInv, [JobNext]_jobVars
    PROVE  OneReview'
<1>t. /\ jobStatus \in [Jobs -> JobStatuses] /\ starts \in [Runs -> 0..1]
      /\ co \in [Runs -> CoStates]
  BY StatusTypes DEF JobTypeOK, CoTypeOK
<1>f. FreshJob /\ OneReview
  BY DEF DispatchInv
<1>1. CASE Plain
  BY <1>1, <1>f, RunFacts DEF Plain, OneReview
<1>2. ASSUME NEW j \in Jobs, ProcessAccounting(j) PROVE OneReview'
  <2>1. \A i \in Jobs :
            /\ starts'[<<i, "force">>] = starts[<<i, "force">>]
            /\ i # j => jobStatus'[i] = jobStatus[i] /\ co'[<<i, "first">>] = co[<<i, "first">>]
    BY <1>2, <1>t, RunFacts DEF ProcessAccounting, SetJob, Dispatch
  <2>2. jobStatus'[j] = "QUEUED" /\ starts[<<j, "force">>] = 0
    BY <1>2, <1>t, <1>f DEF ProcessAccounting, SetJob, FreshJob
  <2> QED
    BY <1>f, <2>1, <2>2 DEF OneReview
<1>3. ASSUME NEW j \in Jobs, ConfirmAuditReview(j) PROVE OneReview'
  <2>1. \A i \in Jobs :
            /\ co'[<<i, "first">>] = co[<<i, "first">>]
            /\ i # j => jobStatus'[i] = jobStatus[i] /\ starts'[<<i, "force">>] = starts[<<i, "force">>]
    BY <1>3, <1>t, RunFacts DEF ConfirmAuditReview, SetJob, Dispatch
  <2>2. jobStatus'[j] = "RUNNING" /\ co[<<j, "first">>] \notin Driven
    BY <1>3, <1>t, <1>f DEF ConfirmAuditReview, SetJob, OneReview
  <2> QED
    BY <1>f, <2>1, <2>2 DEF OneReview
<1>4. CASE Chain
  <2>r. loop.run \in Runs
    BY <1>4, LoopRunTyped DEF Chain, Doing, JobTypeOK
  <2>1. CASE UNCHANGED <<jobStatus, starts>> /\ EndRun(loop.run)
    <3>1. \A r \in Runs : co'[r] \in Driven => co[r] \in Driven
      BY <1>t, <2>1 DEF EndRun, Driven
    <3> QED
      BY <1>f, <2>1, <3>1, RunFacts DEF OneReview
  <2>2. CASE ~(UNCHANGED <<jobStatus, starts>> /\ EndRun(loop.run))
    <3>1. PICK j \in Jobs :
             /\ jobStatus[j] = "NONE" /\ SetJob(j, "QUEUED")
             /\ co' = [co EXCEPT ![<<j, "first">>] = "waiting", ![loop.run] = "ended"]
             /\ starts' = [starts EXCEPT ![<<j, "first">>] = @ + 1]
      BY <1>4, <2>2 DEF Chain
    <3>2. \A i \in Jobs :
            /\ starts'[<<i, "force">>] = starts[<<i, "force">>]
            /\ i # j => jobStatus'[i] = jobStatus[i]
            /\ i # j /\ co'[<<i, "first">>] \in Driven => co[<<i, "first">>] \in Driven
      BY <3>1, <1>t, RunFacts DEF SetJob, Driven
    <3>3. jobStatus'[j] = "QUEUED" /\ starts[<<j, "force">>] = 0
      BY <3>1, <1>t, <1>f DEF SetJob, FreshJob
    <3>4. \A i \in Jobs : i # j =>
             /\ co'[<<i, "first">>] \in Driven => jobStatus'[i] # "PENDING_AUDIT_REVIEW"
             /\ co'[<<i, "first">>] \in Driven \/ jobStatus'[i] = "PENDING_AUDIT_REVIEW"
                   => starts'[<<i, "force">>] = 0
      BY <1>f, <3>2 DEF OneReview
    <3> QED
      BY <3>2, <3>3, <3>4 DEF OneReview
  <2> QED
    BY <2>1, <2>2
<1>5. ASSUME NEW r \in Runs, Finish(r) PROVE OneReview'
  <2>1. starts' = starts /\ \A s \in Runs : co'[s] \in Driven => co[s] \in Driven
    BY <1>5, <1>t DEF Finish, EndRun, Driven
  <2>2. CASE \A j \in Jobs : jobStatus'[j] = jobStatus[j] \/ jobStatus'[j] # "PENDING_AUDIT_REVIEW"
    BY <1>f, <2>1, <2>2, RunFacts DEF OneReview
  <2>3. CASE result[r] = "review" /\ SetJob(JobOf(r), "PENDING_AUDIT_REVIEW") /\ EndRun(r)
    <3>1. r = <<JobOf(r), "first">> /\ JobOf(r) \in Jobs
      BY <2>3, RunFacts DEF DispatchInv, ForcedNotReviewed
    <3>2. co[r] = "awaiting" /\ co'[r] = "ended"
      BY <1>5, <1>t, <2>3 DEF Finish, EndRun
    <3>3. \A i \in Jobs : i # JobOf(r) => jobStatus'[i] = jobStatus[i]
      BY <2>3, <1>t DEF SetJob
    <3>4. starts[<<JobOf(r), "force">>] = 0
      BY <1>f, <3>1, <3>2 DEF OneReview, Driven
    <3> QED
      BY <1>f, <2>1, <3>1, <3>2, <3>3, <3>4, RunFacts DEF OneReview, Driven
  <2> QED
    BY <1>5, <1>t, <2>2, <2>3 DEF Finish, SetJob
<1> QED
  BY <1>1, <1>2, <1>3, <1>4, <1>5, PlainSteps

(* A coroutine whose thread has not started yet, or never will, has none.  *)
LEMMA DispatchedOnceStep ==
    ASSUME JobTypeOK, DispatchInv, [JobNext]_jobVars
    PROVE  DispatchedOnce'
<1>t. /\ co \in [Runs -> CoStates] /\ starts \in [Runs -> 0..1]
      /\ pc \in [Runs -> PCs]
  BY DEF JobTypeOK, CoTypeOK, WriteInv, PersistTypeOK
<1>f. DispatchedOnce
  BY DEF DispatchInv
<1>c. CoMove => \A r \in Runs :
          /\ starts'[r] = 0 => starts[r] = 0 /\ co'[r] = co[r]
          /\ co'[r] \in {"none", "waiting", "ready"} => co[r] \in {"none", "waiting", "ready"}
  BY <1>t, <1>f DEF CoMove, Stays, Leaks, Dispatches, Acquires, GivesUp, Launches, Releases,
     Chains, Moves, DispatchedOnce
<1>1. CASE CoMove /\ pc' = pc
  BY <1>1, <1>c, <1>f DEF DispatchedOnce
<1>2. CASE StartLaunch
  <2>1. loop.run \in Runs
    BY <1>2, LoopRunTyped DEF StartLaunch, Doing, JobTypeOK
  <2>2. /\ co' = [co EXCEPT ![loop.run] = "awaiting"] /\ pc' = [pc EXCEPT ![loop.run] = "agents"]
        /\ starts' = starts /\ co[loop.run] = "ready"
    BY <1>2 DEF StartLaunch, StartThread, Doing, DispatchInv, LoopRun, Busy
  <2> QED
    BY <1>t, <1>f, <2>1, <2>2 DEF DispatchedOnce
<1>3. ASSUME NEW r \in Runs, Thread(r) PROVE DispatchedOnce'
  <2>1. co' = co /\ starts' = starts /\ ThreadStep(r)
    BY <1>3 DEF Thread, coVars
  <2>2. \A s \in Runs \ {r} : pc'[s] = pc[s]
    BY <2>1, Footprint DEF JobTypeOK, WriteInv
  <2>3. pc[r] # "idle"
    BY <2>1 DEF ThreadStep, AgentStep, AgentsReachPersist, AgentsStop,
       WriteStep, AcquireWrite, AcquireTimesOut, CheckCancelled, OpenBatch, NextTx,
       DupCheck, Post, PersistLines, CloseJob, CloseIngest, FailBatch, Rejected, ReleaseWrite,
       FaultStep, CheckFails, DupCheckFails, TransientFault
  <2> QED
    BY <1>f, <2>1, <2>2, <2>3 DEF DispatchedOnce
<1>4. CASE Crash
  BY <1>4 DEF Crash, DispatchedOnce
<1>5. CASE UNCHANGED jobVars
  BY <1>5, <1>f DEF jobVars, persistVars, threadVars, coVars, DispatchedOnce
<1> QED
  <2>1. CASE StatusesOnly
    BY <1>1, <1>4, <2>1, CoMoves DEF StatusesOnly, threadVars
  <2> QED
    BY <1>2, <1>3, <1>4, <1>5, <2>1, NextCases, StatusStep

(* Only a run that is not forced is sent to review.                        *)
LEMMA ForcedNotReviewedStep ==
    ASSUME JobTypeOK, DispatchInv, [JobNext]_jobVars
    PROVE  ForcedNotReviewed'
<1>f. ForcedNotReviewed
  BY DEF DispatchInv
<1>1. CASE StatusesOnly
  BY <1>1, <1>f DEF StatusesOnly, threadVars, ForcedNotReviewed
<1>2. CASE StartLaunch
  BY <1>2, <1>f DEF StartLaunch, StartThread, ForcedNotReviewed
<1>3. ASSUME NEW r \in Runs, Thread(r) PROVE ForcedNotReviewed'
  <2>1. ThreadStep(r) /\ PersistTypeOK
    BY <1>3 DEF Thread, JobTypeOK, WriteInv
  <2>2. \A s \in Runs \ {r} : result'[s] = result[s]
    BY <2>1, Footprint
  <2>3. Forced(r) => result'[r] # "review"
    <3> USE <1>f DEF PersistTypeOK, ForcedNotReviewed, Leave, Goto, Advance
    <3>1. CASE AgentStep(r)
      BY <2>1, <3>1 DEF AgentStep, AgentsReachPersist, AgentsStop
    <3>2. CASE WriteStep(r)
      BY <2>1, <3>2 DEF WriteStep, AcquireWrite, AcquireTimesOut, CheckCancelled, OpenBatch,
         NextTx, DupCheck, Post, PersistLines, CloseJob, CloseIngest, FailBatch, ReleaseWrite
    <3>3. CASE FaultStep(r)
      BY <2>1, <3>3 DEF FaultStep, CheckFails, DupCheckFails, TransientFault
    <3> QED
      BY <2>1, <3>1, <3>2, <3>3 DEF ThreadStep
  <2> QED
    BY <1>f, <2>2, <2>3 DEF ForcedNotReviewed
<1>4. CASE Crash
  BY <1>4 DEF Crash, ForcedNotReviewed
<1>5. CASE UNCHANGED jobVars
  BY <1>5, <1>f DEF jobVars, persistVars, threadVars, ForcedNotReviewed
<1> QED
  BY <1>1, <1>2, <1>3, <1>4, <1>5, NextCases, StatusStep

(* The loop goes on with the run it is at, or takes up a run it drives.    *)
LEMMA LoopRunStep ==
    ASSUME JobTypeOK, DispatchInv, [JobNext]_jobVars
    PROVE  LoopRun'
<1>t. co \in [Runs -> CoStates]
  BY DEF JobTypeOK, CoTypeOK
<1>l. loop # Idle => loop \in Frames /\ loop.run \in Runs /\ loop.sel \in SUBSET Txs
  BY LoopRunTyped DEF JobTypeOK
<1>f. /\ loop # Idle /\ loop.op = "start" => co[loop.run] = "ready" /\ loop.step \in {"mark", "launch"}
      /\ loop # Idle /\ loop.op \in {"fail", "late", "chain"} => co[loop.run] = "awaiting"
  BY DEF DispatchInv, LoopRun, Busy
<1>i. loop' = Idle => LoopRun'
  BY DEF LoopRun, Busy
<1>1. CASE loop' = loop /\ co' = co
  BY <1>1, <1>f DEF LoopRun, Busy
<1>2. ASSUME NEW j \in Jobs, CancelRead(j) PROVE LoopRun'
  BY <1>2 DEF CancelRead, Frame, LoopRun, Busy
<1>3. CASE CancelWrite \/ TimeoutStatus \/ MarkHead \/ SweepRead
  <2>1. PICK step \in Steps, S \in SUBSET Txs : Proceed(step, S)
    BY <1>3 DEF CancelWrite, TimeoutStatus, MarkHead, SweepRead, WithStatus, TxsOf, Steps
  <2>2. loop # Idle /\ loop.op # "start" /\ co' = co
    BY <1>3 DEF CancelWrite, TimeoutStatus, MarkHead, SweepRead, Doing
  <2>3. loop'.op = loop.op /\ loop'.run = loop.run
    BY <1>l, <2>1, <2>2, ProceedFacts
  <2> QED
    BY <1>f, <2>2, <2>3 DEF LoopRun, Busy
<1>4. CASE StartMark
  <2>1. loop # Idle /\ Proceed("launch", loop.sel) /\ "launch" \in Steps /\ co' = co
    BY <1>4 DEF StartMark, Doing, Steps
  <2>2. loop'.op = loop.op /\ loop'.run = loop.run /\ loop'.step = "launch"
    BY <1>l, <2>1, ProceedFacts
  <2> QED
    BY <1>f, <2>1, <2>2 DEF LoopRun, Busy
<1>5. CASE SweepWrite \/ MarkPendingFailed
  <2>1. CASE loop' = Idle
    BY <2>1, <1>i
  <2>2. CASE loop' # Idle
    <3>1. loop # Idle /\ Proceed("pending", {}) /\ "pending" \in Steps /\ co' = co /\ loop.op # "start"
      BY <1>5, <2>2 DEF SweepWrite, MarkPendingFailed, EndRun, Doing, Steps
    <3>2. loop'.op = loop.op /\ loop'.run = loop.run
      BY <1>l, <3>1, ProceedFacts
    <3> QED
      BY <1>f, <3>1, <3>2 DEF LoopRun, Busy
  <2> QED
    BY <2>1, <2>2
<1>6. CASE StartViaB \/ StartFails \/ Chain \/ StartLaunch
  BY <1>6, <1>i DEF StartViaB, StartFails, Chain, StartLaunch, EndRun
<1>7. ASSUME NEW r \in Runs, RunStep(r) PROVE LoopRun'
  <2>1. CASE AcquireSlot(r)
    BY <1>t, <1>f, <2>1 DEF AcquireSlot, LoopRun, Busy
  <2>2. CASE SlotTimeout(r) \/ StartEmpty(r)
    BY <1>i, <2>2 DEF SlotTimeout, StartEmpty, EndRun
  <2>3. CASE StartSelect(r) \/ Timeout(r)
    BY <2>3 DEF StartSelect, Timeout, Frame, LoopRun, Busy
  <2>4. CASE Finish(r)
    BY <1>i, <2>4 DEF Finish, EndRun, Frame, LoopRun, Busy
  <2> QED
    BY <1>7, <2>1, <2>2, <2>3, <2>4 DEF RunStep
<1>8. CASE Crash
  BY <1>8, <1>i DEF Crash
<1> QED
  <2>1. (\E t \in Txs : StageTransaction(t)) => loop' = loop /\ co' = co
    BY DEF StageTransaction, coVars
  <2>2. (\E j \in Jobs : ProcessAccounting(j) \/ ConfirmAuditReview(j)) => loop' = Idle
    BY DEF ProcessAccounting, ConfirmAuditReview
  <2>3. OrphanAcquires \/ (\E r \in Runs : Thread(r)) \/ UNCHANGED jobVars => loop' = loop /\ co' = co
    BY DEF OrphanAcquires, Thread, jobVars, coVars
  <2> QED
    BY <1>i, <1>1, <1>2, <1>3, <1>4, <1>5, <1>6, <1>7, <1>8, <2>1, <2>2, <2>3, NextCases DEF LoopOnly

LEMMA DispatchStep ==
    ASSUME JobTypeOK, DispatchInv, [JobNext]_jobVars
    PROVE  DispatchInv'
BY FreshJobStep, OneReviewStep, DispatchedOnceStep, ForcedNotReviewedStep, LoopRunStep
   DEF DispatchInv

-----------------------------------------------------------------------------
(* Claims                                                                  *)

(* What a run was given is neither staged nor pending any more.            *)
Taken == \A r \in Runs : \A t \in batch[r] : txStatus[t] \notin {"NONE", "PENDING"}

(* A thread works on what its run was given.                               *)
WorksOnBatch ==
    \A r \in Runs :
        /\ todo[r] \subseteq batch[r]
        /\ pc[r] \in {"dup", "post", "lines"} => cur[r] \in batch[r]

(* A row of a first run, also of one that a restart has ended, is of a      *)
(* transaction that no other first run has.                                *)
RowOfClaimant ==
    \A p \in posted, s \in Runs :
        ~Forced(p.run) /\ ~Forced(s) /\ p.tx \in batch[s] => s = p.run

OneFirstRun ==
    \A p, q \in posted : p.tx = q.tx /\ ~Forced(p.run) /\ ~Forced(q.run) => p.run = q.run

BatchInv ==
    /\ Taken
    /\ WorksOnBatch
    /\ FirstBatchesDisjoint
    /\ RowOfClaimant
    /\ OneFirstRun
    /\ PostedNotReclaimed

(* What a run has selected and not started yet: pending, then processing.   *)
(* Nobody else can have got hold of what a first run selects.              *)
Untouched(t) == (\A s \in Runs : t \notin batch[s]) /\ (\A p \in posted : p.tx # t)

Selected ==
    Busy({"start"}) => \A t \in loop.sel :
        /\ txStatus[t] # "NONE"
        /\ loop.step = "launch" => txStatus[t] # "PENDING"
        /\ ~Forced(loop.run) => Untouched(t)

ClaimInv == BatchInv /\ Selected

(* Statuses only go forward, except that a sweep or a claim may go over     *)
(* whatever it meets.                                                      *)
Forward ==
    \A t \in Txs :
        \/ txStatus'[t] = txStatus[t]
        \/ txStatus[t] = "NONE" /\ txStatus'[t] = "PENDING"
        \/ txStatus'[t] = "ERROR"
        \/ txStatus'[t] = "PROCESSING" /\ Busy({"start"}) /\ t \in loop.sel

LEMMA ForwardStep ==
    ASSUME JobTypeOK,
           \/ \E t \in Txs : StageTransaction(t)
           \/ \E j \in Jobs : ProcessAccounting(j) \/ ConfirmAuditReview(j) \/ CancelRead(j)
           \/ LoopOnly
           \/ OrphanAcquires
           \/ \E r \in Runs : RunStep(r)
           \/ UNCHANGED jobVars
    PROVE  Forward
<1>t. txStatus \in [Txs -> TxStatuses]
  BY StatusTypes
<1> USE DEF Forward, persistVars, dbVars
<1>1. ASSUME NEW t \in Txs, StageTransaction(t) PROVE Forward
  BY <1>1, <1>t DEF StageTransaction
<1>2. (\E j \in Jobs : ProcessAccounting(j) \/ ConfirmAuditReview(j) \/ CancelRead(j)) => Forward
  BY DEF ProcessAccounting, ConfirmAuditReview, CancelRead
<1>3. CASE LoopOnly
  <2>1. CASE CancelWrite \/ StartViaB \/ TimeoutStatus \/ SweepRead \/ StartFails \/ Chain
    BY <2>1 DEF CancelWrite, StartViaB, TimeoutStatus, SweepRead, StartFails, Chain
  <2>2. CASE StartMark \/ MarkHead \/ SweepWrite \/ MarkPendingFailed
    BY <2>2 DEF StartMark, MarkHead, SweepWrite, MarkPendingFailed, MarkTxs, Doing, Busy
  <2> QED
    BY <1>3, <2>1, <2>2 DEF LoopOnly
<1>4. OrphanAcquires \/ UNCHANGED jobVars => Forward
  BY DEF OrphanAcquires, jobVars
<1>5. ASSUME NEW r \in Runs, RunStep(r) PROVE Forward
  BY <1>5 DEF RunStep, AcquireSlot, SlotTimeout, StartEmpty, StartSelect, Finish, Timeout
<1> QED
  BY <1>1, <1>2, <1>3, <1>4, <1>5

(* Statuses that go forward give no claim away.                            *)
LEMMA ForwardKeeps ==
    ASSUME PersistTypeOK, BatchInv, UNCHANGED threadVars, posted' = posted, Forward
    PROVE  BatchInv'
<1>1. \A t \in Txs : txStatus[t] \notin {"NONE", "PENDING"} => txStatus'[t] \notin {"NONE", "PENDING"}
  BY DEF Forward
<1>2. (\A r \in Runs : batch[r] \subseteq Txs) /\ (\A p \in posted : p.tx \in Txs)
  BY DEF PersistTypeOK, Rows
<1>3. Taken' /\ PostedNotReclaimed'
  BY <1>1, <1>2 DEF BatchInv, Taken, PostedNotReclaimed, threadVars
<1> QED
  BY <1>3 DEF BatchInv, threadVars, WorksOnBatch, FirstBatchesDisjoint, RowOfClaimant, OneFirstRun

(* A thread takes its transactions from its list, ...                      *)
LEMMA CurFromTodo ==
    ASSUME PersistTypeOK, NEW r \in Runs, ThreadStep(r)
    PROVE  pc'[r] \in {"dup", "post", "lines"} =>
               \/ cur'[r] \in todo[r]
               \/ cur'[r] = cur[r] /\ pc[r] \in {"dup", "post", "lines"}
<1> USE DEF PersistTypeOK, Leave, Goto, Advance
<1>1. CASE AgentStep(r)
  BY <1>1 DEF AgentStep, AgentsReachPersist, AgentsStop
<1>2. CASE WriteStep(r)
  BY <1>2 DEF WriteStep, AcquireWrite, AcquireTimesOut, CheckCancelled, OpenBatch,
     NextTx, DupCheck, Post, PersistLines, CloseJob, CloseIngest, FailBatch, ReleaseWrite
<1>3. CASE FaultStep(r)
  BY <1>3 DEF FaultStep, CheckFails, DupCheckFails, TransientFault
<1> QED
  BY <1>1, <1>2, <1>3 DEF ThreadStep

(* ... and posts none but the one it is at.                                *)
LEMMA ThreadPosts ==
    ASSUME PersistTypeOK, HasTx, NEW r \in Runs, ThreadStep(r)
    PROVE  \/ posted' = posted /\ txStatus' = txStatus
           \/ /\ pc[r] = "post" /\ cur[r] \in Txs
              /\ posted' = posted \union {RowOf(r)}
              /\ txStatus' = [txStatus EXCEPT ![cur[r]] = "POSTED"]
<1> USE DEF PersistTypeOK, dbVars
<1>1. CASE Post(r)
  BY <1>1 DEF Post, HasTx, RowOf
<1>2. CASE AgentStep(r)
  BY <1>2 DEF AgentStep, AgentsReachPersist, AgentsStop
<1>3. CASE WriteStep(r) /\ ~Post(r)
  BY <1>3 DEF WriteStep, AcquireWrite, AcquireTimesOut, CheckCancelled, OpenBatch,
     NextTx, DupCheck, PersistLines, CloseJob, CloseIngest, FailBatch, ReleaseWrite
<1>4. CASE FaultStep(r)
  BY <1>4 DEF FaultStep, CheckFails, DupCheckFails, TransientFault
<1> QED
  BY <1>1, <1>2, <1>3, <1>4 DEF ThreadStep

LEMMA ThreadKeepsBatches ==
    ASSUME WriteInv, BatchInv, NEW r \in Runs, ThreadStep(r)
    PROVE  BatchInv'
<1>t. PersistTypeOK /\ HasTx /\ RowPosted
  BY DEF WriteInv
<1>b. batch' = batch
  BY <1>t, Footprint
<1>1. WorksOnBatch'
  <2>1. todo'[r] \subseteq batch'[r]
    BY <1>t, <1>b, TodoShrinks DEF BatchInv, WorksOnBatch
  <2>2. pc'[r] \in {"dup", "post", "lines"} => cur'[r] \in batch'[r]
    BY <1>t, <1>b, CurFromTodo DEF BatchInv, WorksOnBatch
  <2> QED
    BY <1>t, <1>b, <2>1, <2>2, Footprint DEF BatchInv, WorksOnBatch
<1>2. FirstBatchesDisjoint'
  BY <1>b DEF BatchInv, FirstBatchesDisjoint
<1>3. CASE posted' = posted /\ txStatus' = txStatus
  BY <1>b, <1>1, <1>2, <1>3 DEF BatchInv, Taken, RowOfClaimant, OneFirstRun, PostedNotReclaimed
<1>4. CASE /\ pc[r] = "post" /\ cur[r] \in Txs
           /\ posted' = posted \union {RowOf(r)}
           /\ txStatus' = [txStatus EXCEPT ![cur[r]] = "POSTED"]
  <2>1. cur[r] \in batch[r] /\ RowOf(r).tx = cur[r] /\ RowOf(r).run = r
    BY <1>4 DEF BatchInv, WorksOnBatch, RowOf
  <2>2. \A t \in Txs : txStatus'[t] = txStatus[t] \/ txStatus'[t] = "POSTED"
    BY <1>t, <1>4 DEF PersistTypeOK
  <2>3. (\A s \in Runs : batch[s] \subseteq Txs) /\ (\A p \in posted : p.tx \in Txs /\ p.run \in Runs)
    BY <1>t DEF PersistTypeOK, Rows
  <2>4. Taken'
    BY <1>b, <2>2, <2>3 DEF BatchInv, Taken
  <2>5. PostedNotReclaimed'
    <3>1. txStatus'[cur[r]] = "POSTED"
      BY <1>t, <1>4 DEF PersistTypeOK
    <3> QED
      BY <1>4, <2>1, <2>2, <2>3, <3>1 DEF BatchInv, PostedNotReclaimed
  <2>6. RowOfClaimant'
    BY <1>b, <1>4, <2>1, <2>3 DEF BatchInv, FirstBatchesDisjoint, RowOfClaimant
  <2>7. OneFirstRun'
    BY <1>4, <2>1, <2>3 DEF BatchInv, RowOfClaimant, OneFirstRun
  <2> QED
    BY <1>1, <1>2, <2>4, <2>5, <2>6, <2>7 DEF BatchInv
<1> QED
  BY <1>t, <1>3, <1>4, ThreadPosts

(* The thread of a run starts with what the run selected.                  *)
LEMMA LaunchKeepsBatches ==
    ASSUME JobTypeOK, DispatchInv, ClaimInv, StartLaunch
    PROVE  BatchInv'
<1>t. /\ batch \in [Runs -> SUBSET Txs] /\ todo \in [Runs -> SUBSET Txs] /\ pc \in [Runs -> PCs]
  BY DEF JobTypeOK, WriteInv, PersistTypeOK
<1>l. loop.run \in Runs /\ loop # Idle /\ loop.op = "start" /\ loop.step = "launch"
  BY LoopRunTyped DEF StartLaunch, Doing, JobTypeOK
<1>s. \A t \in loop.sel :
          /\ txStatus[t] \notin {"NONE", "PENDING"}
          /\ ~Forced(loop.run) => Untouched(t)
  BY <1>l DEF ClaimInv, Selected, Busy
<1>b. /\ batch' = [batch EXCEPT ![loop.run] = loop.sel]
      /\ todo' = [todo EXCEPT ![loop.run] = loop.sel]
      /\ pc' = [pc EXCEPT ![loop.run] = "agents"]
      /\ UNCHANGED <<cur, posted, txStatus>>
  BY DEF StartLaunch, StartThread
<1>i. BatchInv
  BY DEF ClaimInv
<1>e. /\ batch'[loop.run] = loop.sel
      /\ \A r \in Runs : r # loop.run => batch'[r] = batch[r]
  BY <1>t, <1>l, <1>b
<1>1. Taken'
  BY <1>s, <1>b, <1>e, <1>i DEF BatchInv, Taken
<1>2. WorksOnBatch'
  BY <1>t, <1>l, <1>b, <1>i DEF BatchInv, WorksOnBatch
<1>3. FirstBatchesDisjoint'
  <2>1. ASSUME ~Forced(loop.run), NEW r \in Runs, r # loop.run
        PROVE  batch[r] \intersect loop.sel = {}
    BY <1>s, <2>1 DEF Untouched
  <2> QED
    BY <1>e, <1>i, <2>1 DEF BatchInv, FirstBatchesDisjoint
<1>4. RowOfClaimant'
  <2>1. ASSUME ~Forced(loop.run), NEW p \in posted PROVE p.tx \notin loop.sel
    BY <1>s, <2>1 DEF Untouched
  <2> QED
    BY <1>b, <1>e, <1>i, <2>1 DEF BatchInv, RowOfClaimant
<1> QED
  BY <1>1, <1>2, <1>3, <1>4, <1>b, <1>i DEF BatchInv, OneFirstRun, PostedNotReclaimed

LEMMA BatchStep ==
    ASSUME JobTypeOK, DispatchInv, ClaimInv, [JobNext]_jobVars
    PROVE  BatchInv'
<1>i. WriteInv /\ PersistTypeOK /\ BatchInv
  BY DEF JobTypeOK, WriteInv, ClaimInv
<1>1. CASE StatusesOnly /\ Forward
  BY <1>1, <1>i, ForwardKeeps DEF StatusesOnly
<1>2. CASE StartLaunch
  BY <1>2, LaunchKeepsBatches
<1>3. ASSUME NEW r \in Runs, Thread(r) PROVE BatchInv'
  BY <1>3, <1>i, ThreadKeepsBatches DEF Thread
<1>4. CASE Crash
  <2>1. /\ \A r \in Runs : batch'[r] = {} /\ todo'[r] = {} /\ pc'[r] = "idle"
        /\ posted' = posted /\ txStatus' = txStatus
    BY <1>4 DEF Crash, dbVars
  <2> QED
    BY <1>i, <2>1 DEF BatchInv, Taken, WorksOnBatch, FirstBatchesDisjoint, RowOfClaimant,
       OneFirstRun, PostedNotReclaimed
<1>5. CASE UNCHANGED jobVars
  BY <1>5, <1>i, ForwardKeeps, ForwardStep DEF jobVars, persistVars, dbVars
<1> QED
  BY <1>1, <1>2, <1>3, <1>4, <1>5, NextCases, StatusStep, ForwardStep

(* Nothing pending is in a batch, and nothing posted is pending.            *)
LEMMA PendingUntouched ==
    ASSUME BatchInv, NEW t, txStatus[t] = "PENDING"
    PROVE  Untouched(t)
BY DEF BatchInv, Taken, PostedNotReclaimed, Untouched

LEMMA SelectedStep ==
    ASSUME JobTypeOK, DispatchInv, ClaimInv, [JobNext]_jobVars
    PROVE  Selected'
<1>t. /\ txStatus \in [Txs -> TxStatuses]
      /\ loop # Idle => loop \in Frames /\ loop.run \in Runs /\ loop.sel \in SUBSET Txs
  BY StatusTypes, LoopRunTyped DEF JobTypeOK
<1>i. Selected /\ BatchInv /\ PersistTypeOK /\ HasTx
  BY DEF ClaimInv, JobTypeOK, WriteInv
<1>o. loop' = Idle \/ loop'.op # "start" => Selected'
  BY DEF Selected, Busy
<1>k. ASSUME loop' = loop, batch' = batch, posted' = posted,
             \A t \in Txs : txStatus'[t] = txStatus[t] \/ txStatus[t] = "NONE"
      PROVE  Selected'
  BY <1>k, <1>t, <1>i DEF Selected, Busy, Untouched
<1>1. ASSUME NEW t \in Txs, StageTransaction(t) PROVE Selected'
  BY <1>1, <1>t, <1>k DEF StageTransaction, threadVars, coVars
<1>2. ASSUME NEW j \in Jobs, ProcessAccounting(j) \/ ConfirmAuditReview(j) \/ CancelRead(j)
      PROVE  Selected'
  BY <1>2, <1>o DEF ProcessAccounting, ConfirmAuditReview, CancelRead, Frame
<1>3. CASE StartMark
  <2>1. /\ loop # Idle /\ loop.op = "start" /\ Proceed("launch", loop.sel) /\ "launch" \in Steps
        /\ loop.sel \in SUBSET Txs
    BY <1>3, <1>t DEF StartMark, Doing, Steps
  <2>2. loop'.run = loop.run /\ loop'.sel = loop.sel
    BY <1>t, <2>1, ProceedFacts
  <2>3. \A t \in loop.sel : txStatus'[t] = "PROCESSING"
    BY <1>3, <2>1 DEF StartMark, MarkTxs
  <2>4. batch' = batch /\ posted' = posted
    BY <1>3 DEF StartMark, threadVars
  <2> QED
    BY <1>i, <2>1, <2>2, <2>3, <2>4 DEF Selected, Busy, Untouched
<1>4. CASE CancelWrite \/ TimeoutStatus \/ MarkHead \/ SweepRead \/ SweepWrite \/ MarkPendingFailed
  <2>1. CASE loop' = Idle
    BY <2>1, <1>o
  <2>2. CASE loop' # Idle
    <3>1. PICK step \in Steps, S \in SUBSET Txs : Proceed(step, S)
      BY <1>4, <2>2 DEF CancelWrite, TimeoutStatus, MarkHead, SweepRead, SweepWrite,
         MarkPendingFailed, EndRun, WithStatus, TxsOf, Steps
    <3>2. loop # Idle /\ loop.op # "start"
      BY <1>4 DEF CancelWrite, TimeoutStatus, MarkHead, SweepRead, SweepWrite,
         MarkPendingFailed, Doing
    <3> QED
      BY <1>t, <1>o, <3>1, <3>2, ProceedFacts
  <2> QED
    BY <2>1, <2>2
<1>5. CASE StartViaB \/ StartFails \/ Chain \/ StartLaunch \/ Crash
  BY <1>5, <1>o DEF StartViaB, StartFails, Chain, StartLaunch, Crash, EndRun
<1>6. CASE OrphanAcquires \/ UNCHANGED jobVars
  BY <1>6, <1>k DEF OrphanAcquires, jobVars, persistVars, dbVars, threadVars, coVars
<1>7. ASSUME NEW r \in Runs, RunStep(r) PROVE Selected'
  <2>1. CASE AcquireSlot(r)
    BY <2>1, <1>k DEF AcquireSlot, persistVars, dbVars, threadVars
  <2>2. CASE SlotTimeout(r) \/ StartEmpty(r)
    BY <2>2, <1>o DEF SlotTimeout, StartEmpty, EndRun
  <2>3. CASE Timeout(r) \/ Finish(r)
    BY <2>3, <1>o DEF Timeout, Finish, EndRun, Frame
  <2>4. CASE StartSelect(r)
    <3>1. loop' = Frame("start", "mark", r, Claimable(r))
          /\ UNCHANGED <<txStatus, batch, posted>>
      BY <2>4 DEF StartSelect, persistVars, dbVars, threadVars
    <3>2. loop'.run = r /\ loop'.step = "mark" /\ loop'.sel = Claimable(r)
      BY <3>1 DEF Frame
    <3>3. \A t \in Claimable(r) :
              /\ txStatus[t] # "NONE"
              /\ ~Forced(r) => Untouched(t)
      BY <1>i, PendingUntouched DEF Claimable, WithStatus
    <3> QED
      BY <3>1, <3>2, <3>3 DEF Selected, Busy, Untouched
  <2> QED
    BY <1>7, <2>1, <2>2, <2>3, <2>4 DEF RunStep
<1>8. ASSUME NEW r \in Runs, Thread(r) PROVE Selected'
  <2>1. ThreadStep(r) /\ loop' = loop
    BY <1>8 DEF Thread, coVars
  <2>2. batch' = batch
    BY <1>i, <2>1, Footprint
  <2>3. CASE posted' = posted /\ txStatus' = txStatus
    BY <1>k, <2>1, <2>2, <2>3
  <2>4. CASE /\ pc[r] = "post" /\ cur[r] \in Txs
             /\ posted' = posted \union {RowOf(r)}
             /\ txStatus' = [txStatus EXCEPT ![cur[r]] = "POSTED"]
    <3>1. cur[r] \in batch[r] /\ RowOf(r).tx = cur[r]
      BY <1>i, <2>4 DEF BatchInv, WorksOnBatch, RowOf
    <3>2. \A t \in Txs : txStatus'[t] = txStatus[t] \/ txStatus'[t] = "POSTED"
      BY <1>t, <2>4
    <3>3. \A t : Untouched(t) => Untouched(t)'
      BY <2>2, <2>4, <3>1 DEF Untouched
    <3> QED
      BY <1>t, <1>i, <2>1, <3>2, <3>3 DEF Selected, Busy
  <2> QED
    BY <1>i, <2>1, <2>3, <2>4, ThreadPosts
<1> QED
  BY <1>1, <1>2, <1>3, <1>4, <1>5, <1>6, <1>7, <1>8, NextCases DEF LoopOnly

-----------------------------------------------------------------------------
(* Rows without lines.  After a restart there is one more reason for them,  *)
(* and the run they are of is never driven again.                          *)
RowsOfLaunched ==
    \A p \in posted : starts[p.run] = 1 /\ co[p.run] \notin {"waiting", "ready"}

HalfRows == \A p \in posted \ lined : Explained(p) \/ co[p.run] = "none"

RowInv == RowsOfLaunched /\ HalfRows

LEMMA CoMoveFacts ==
    ASSUME CoTypeOK, DispatchedOnce, CoMove
    PROVE  \A r \in Runs : starts[r] = 1 =>
               /\ starts'[r] = 1
               /\ co[r] \notin {"waiting", "ready"} => co'[r] \notin {"waiting", "ready"}
               /\ co[r] = "none" => co'[r] = "none"
BY DEF CoTypeOK, DispatchedOnce, CoMove, Stays, Leaks, Dispatches, Acquires, GivesUp,
   Launches, Releases, Chains, Moves

(* A thread that moves belongs to a run that was launched.                  *)
LEMMA ThreadLaunched ==
    ASSUME CoTypeOK, DispatchedOnce, NEW r \in Runs, ThreadStep(r)
    PROVE  starts[r] = 1 /\ co[r] \notin {"none", "waiting", "ready"}
<1>1. pc[r] # "idle"
  BY DEF ThreadStep, AgentStep, AgentsReachPersist, AgentsStop,
     WriteStep, AcquireWrite, AcquireTimesOut, CheckCancelled, OpenBatch, NextTx,
     DupCheck, Post, PersistLines, CloseJob, CloseIngest, FailBatch, Rejected, ReleaseWrite,
     FaultStep, CheckFails, DupCheckFails, TransientFault
<1>2. starts[r] \in 0..1
  BY DEF CoTypeOK
<1> QED
  BY <1>1, <1>2 DEF DispatchedOnce

LEMMA RowStep ==
    ASSUME JobTypeOK, DispatchInv, RowInv, [JobNext]_jobVars
    PROVE  RowInv'
<1>t. /\ PersistTypeOK /\ HasTx /\ CoTypeOK /\ DispatchedOnce /\ WriteInv
      /\ co \in [Runs -> CoStates] /\ starts \in [Runs -> 0..1]
      /\ \A p \in posted : p.run \in Runs
  BY DEF JobTypeOK, WriteInv, PersistTypeOK, CoTypeOK, DispatchInv, Rows
<1>m. CoMove \/ Crash
  BY CoMoves
<1>1. CASE StatusesOnly /\ CoMove
  <2>1. \A p \in posted \ lined : Explained(p) => Explained(p)'
    BY <1>1 DEF StatusesOnly, threadVars, Explained, RowOf
  <2> QED
    BY <1>1, <1>t, <2>1, CoMoveFacts DEF StatusesOnly, RowInv, RowsOfLaunched, HalfRows
<1>2. CASE StartLaunch
  <2>l. loop.run \in Runs /\ co[loop.run] = "ready" /\ Launches(loop.run)
    BY <1>2, LoopRunTyped DEF StartLaunch, Doing, JobTypeOK, DispatchInv, LoopRun, Busy, Launches, Moves
  <2>1. \A p \in posted : p.run # loop.run
    BY <2>l DEF RowInv, RowsOfLaunched
  <2>2. /\ posted' = posted /\ lined' = lined /\ CoMove
        /\ pc' = [pc EXCEPT ![loop.run] = "agents"] /\ UNCHANGED <<cur, attempt, result>>
    BY <1>2, <2>l DEF StartLaunch, StartThread, CoMove
  <2>3. \A p \in posted \ lined : Explained(p) => Explained(p)'
    BY <1>t, <2>1, <2>2 DEF Explained, RowOf, PersistTypeOK
  <2> QED
    BY <1>t, <2>2, <2>3, CoMoveFacts DEF RowInv, RowsOfLaunched, HalfRows
<1>3. ASSUME NEW r \in Runs, Thread(r) PROVE RowInv'
  <2>1. ThreadStep(r) /\ co' = co /\ starts' = starts
    BY <1>3 DEF Thread, coVars
  <2>2. starts[r] = 1 /\ co[r] \notin {"none", "waiting", "ready"}
    BY <1>t, <2>1, ThreadLaunched
  <2>3. \A p \in posted' : p \in posted \/ p.run = r
    BY <1>t, <2>1, ThreadPosts DEF RowOf
  <2>4. RowsOfLaunched'
    BY <2>1, <2>2, <2>3 DEF RowInv, RowsOfLaunched
  <2>5. ASSUME NEW p \in posted' \ lined' PROVE Explained(p)' \/ co'[p.run] = "none"
    <3>1. p.run \in Runs
      BY <1>t, <2>3
    <3>2. p \in posted => p \in posted \ lined
      BY <1>t, <2>1, Footprint
    <3>3. CASE co[p.run] = "none"
      BY <2>1, <3>3
    <3>4. CASE co[p.run] # "none"
      <4>1. p \in posted \ lined => Explained(p)
        BY <3>4 DEF RowInv, HalfRows
      <4> QED
        BY <1>t, <2>1, <3>1, <4>1, RowStaysExplained
    <3> QED
      BY <3>3, <3>4
  <2> QED
    BY <2>4, <2>5 DEF RowInv, HalfRows
<1>4. CASE Crash
  <2>1. posted' = posted /\ starts' = starts /\ \A r \in Runs : co'[r] = "none"
    BY <1>4 DEF Crash, dbVars
  <2> QED
    BY <1>t, <2>1 DEF RowInv, RowsOfLaunched, HalfRows
<1>5. CASE UNCHANGED jobVars
  BY <1>5 DEF jobVars, persistVars, dbVars, threadVars, coVars, RowInv, RowsOfLaunched,
     HalfRows, Explained, RowOf
<1> QED
  BY <1>m, <1>1, <1>2, <1>3, <1>4, <1>5, NextCases, StatusStep

-----------------------------------------------------------------------------
(* The frame of the loop.                                                  *)

(* A run works on transactions of its document.                            *)
OwnDocument ==
    /\ \A r \in Runs : batch[r] \subseteq TxsOf(JobOf(r))
    /\ Busy({"start"}) => loop.sel \subseteq TxsOf(JobOf(loop.run))

(* The coroutine that looks for a job to chain has seen its thread succeed.  *)
ChainAfterOk == Busy({"chain"}) => pc[loop.run] = "done" /\ result[loop.run] = "ok"

(* A sweep leaves nothing of the document in PROCESSING: threads only take  *)
(* transactions out of it, and no run claims any meanwhile.                *)
Swept ==
    Busy({"fail", "late", "cancel"}) =>
        /\ loop.step = "swept" => WithStatus(JobOf(loop.run), "PROCESSING") \subseteq loop.sel
        /\ loop.step = "pending" => WithStatus(JobOf(loop.run), "PROCESSING") = {}

FrameInv == OwnDocument /\ ChainAfterOk /\ Swept

(* What the steps of the loop do to the frame it is in.                    *)
LEMMA FrameMoves ==
    ASSUME JobTypeOK, DispatchInv, [JobNext]_jobVars
    PROVE  \/ loop' = loop
           \/ loop' = Idle
           \/ \E r \in Runs : StartSelect(r) \/ Finish(r) \/ Timeout(r)
           \/ \E j \in Jobs : CancelRead(j)
           \/ StartMark \/ CancelWrite \/ TimeoutStatus \/ MarkHead \/ SweepRead
           \/ SweepWrite \/ MarkPendingFailed
<1>1. StartViaB \/ StartFails \/ Chain \/ StartLaunch \/ Crash => loop' = Idle
  BY DEF StartViaB, StartFails, Chain, StartLaunch, Crash, EndRun
<1>2. (\E t \in Txs : StageTransaction(t)) \/ OrphanAcquires \/ (\E r \in Runs : Thread(r)) => loop' = loop
  BY DEF StageTransaction, coVars, OrphanAcquires, Thread
<1>3. \A j \in Jobs : ProcessAccounting(j) \/ ConfirmAuditReview(j) => loop' = loop
  BY DEF ProcessAccounting, ConfirmAuditReview
<1>4. \A r \in Runs : AcquireSlot(r) \/ SlotTimeout(r) \/ StartEmpty(r) => loop' = loop \/ loop' = Idle
  BY DEF AcquireSlot, SlotTimeout, StartEmpty, EndRun
<1>5. UNCHANGED jobVars => loop' = loop
  BY DEF jobVars, coVars
<1> QED
  BY <1>1, <1>2, <1>3, <1>4, <1>5, NextCases DEF LoopOnly, RunStep

(* A thread that has returned stays so, and keeps its result.               *)
LEMMA DoneStays ==
    ASSUME PersistTypeOK, NEW r \in Runs, ThreadStep(r), NEW s \in Runs, pc[s] = "done"
    PROVE  pc'[s] = "done" /\ result'[s] = result[s]
<1>1. pc[r] # "done"
  BY DEF ThreadStep, AgentStep, AgentsReachPersist, AgentsStop,
     WriteStep, AcquireWrite, AcquireTimesOut, CheckCancelled, OpenBatch, NextTx,
     DupCheck, Post, PersistLines, CloseJob, CloseIngest, FailBatch, Rejected, ReleaseWrite,
     FaultStep, CheckFails, DupCheckFails, TransientFault
<1> QED
  BY <1>1, Footprint

(* Outside a claim nothing becomes PROCESSING.                             *)
LEMMA NothingClaimed ==
    ASSUME JobTypeOK, [JobNext]_jobVars
    PROVE  \A t \in Txs : txStatus'[t] = "PROCESSING" =>
               txStatus[t] = "PROCESSING" \/ (StartMark /\ t \in loop.sel)
<1>t. txStatus \in [Txs -> TxStatuses] /\ PersistTypeOK /\ HasTx
  BY DEF JobTypeOK, WriteInv, PersistTypeOK
<1> USE DEF persistVars, dbVars
<1>1. ASSUME NEW s \in Txs, StageTransaction(s)
      PROVE  \A t \in Txs : txStatus'[t] = "PROCESSING" => txStatus[t] = "PROCESSING"
  BY <1>1, <1>t DEF StageTransaction
<1>2. (\E j \in Jobs : ProcessAccounting(j) \/ ConfirmAuditReview(j) \/ CancelRead(j))
          => txStatus' = txStatus
  BY DEF ProcessAccounting, ConfirmAuditReview, CancelRead
<1>3. CancelWrite \/ StartViaB \/ TimeoutStatus \/ SweepRead \/ StartFails \/ Chain \/ StartLaunch
         \/ OrphanAcquires \/ Crash => txStatus' = txStatus
  BY DEF CancelWrite, StartViaB, TimeoutStatus, SweepRead, StartFails, Chain, StartLaunch,
     OrphanAcquires, Crash
<1>4. MarkHead \/ SweepWrite \/ MarkPendingFailed => \E S : MarkTxs(S, "ERROR")
  BY DEF MarkHead, SweepWrite, MarkPendingFailed
<1>5. \A S : MarkTxs(S, "ERROR") =>
          \A t \in Txs : txStatus'[t] = "PROCESSING" => txStatus[t] = "PROCESSING"
  BY DEF MarkTxs
<1>6. StartMark => \A t \in Txs : txStatus'[t] = "PROCESSING" =>
                       txStatus[t] = "PROCESSING" \/ t \in loop.sel
  BY DEF StartMark, MarkTxs
<1>7. (\E r \in Runs : RunStep(r)) => txStatus' = txStatus
  BY DEF RunStep, AcquireSlot, SlotTimeout, StartEmpty, StartSelect, Finish, Timeout
<1>8. ASSUME NEW r \in Runs, Thread(r)
      PROVE  \A t \in Txs : txStatus'[t] = "PROCESSING" => txStatus[t] = "PROCESSING"
  BY <1>8, <1>t, ThreadPosts DEF Thread
<1>9. UNCHANGED jobVars => txStatus' = txStatus
  BY DEF jobVars
<1> QED
  BY <1>1, <1>2, <1>3, <1>4, <1>5, <1>6, <1>7, <1>8, <1>9, NextCases DEF LoopOnly

(* What the threads have comes from a claim of their own document.         *)
LEMMA BatchesOwn ==
    ASSUME JobTypeOK, FrameInv, [JobNext]_jobVars
    PROVE  \A r \in Runs : batch'[r] \subseteq TxsOf(JobOf(r))
<1>t. PersistTypeOK /\ batch \in [Runs -> SUBSET Txs]
  BY DEF JobTypeOK, WriteInv, PersistTypeOK
<1>b. \A r \in Runs : batch[r] \subseteq TxsOf(JobOf(r))
  BY DEF FrameInv, OwnDocument
<1>1. StatusesOnly \/ UNCHANGED jobVars => batch' = batch
  BY DEF StatusesOnly, threadVars, jobVars, persistVars
<1>2. \A r \in Runs : Thread(r) => batch' = batch
  BY <1>t, Footprint DEF Thread
<1>3. Crash => \A r \in Runs : batch'[r] = {}
  BY DEF Crash
<1>4. CASE StartLaunch
  <2>1. batch' = [batch EXCEPT ![loop.run] = loop.sel] /\ loop.sel \subseteq TxsOf(JobOf(loop.run))
    BY <1>4 DEF StartLaunch, StartThread, Doing, FrameInv, OwnDocument, Busy
  <2> QED
    BY <1>t, <1>b, <2>1
<1> QED
  BY <1>b, <1>1, <1>2, <1>3, <1>4, NextCases, StatusStep

LEMMA FrameStep ==
    ASSUME JobTypeOK, DispatchInv, FrameInv, [JobNext]_jobVars
    PROVE  FrameInv'
<1>l. loop # Idle => loop \in Frames /\ loop.run \in Runs /\ loop.sel \in SUBSET Txs
  BY LoopRunTyped DEF JobTypeOK
<1>b. \A r \in Runs : batch'[r] \subseteq TxsOf(JobOf(r))
  BY BatchesOwn
<1>s. \A r \in Runs : Claimable(r) \in SUBSET Txs /\ Claimable(r) \subseteq TxsOf(JobOf(r))
                      /\ WithStatus(JobOf(r), "PROCESSING") \in SUBSET Txs
  BY DEF Claimable, WithStatus, TxsOf
<1>i. ASSUME loop' = Idle PROVE FrameInv'
  BY <1>b, <1>i DEF FrameInv, OwnDocument, ChainAfterOk, Swept, Busy
<1>n. ASSUME loop' # Idle, loop'.op \in {"fail", "late", "cancel"},
             loop'.step \notin {"swept", "pending"}
      PROVE  FrameInv'
  BY <1>b, <1>n DEF FrameInv, OwnDocument, ChainAfterOk, Swept, Busy
<1>k. ASSUME loop' = loop, ~Crash, ~StartLaunch PROVE FrameInv'
  <2>1. OwnDocument'
    BY <1>b, <1>k DEF FrameInv, OwnDocument, Busy
  <2>2. ChainAfterOk'
    <3>1. PersistTypeOK
      BY DEF JobTypeOK, WriteInv
    <3>2. StatusesOnly \/ UNCHANGED jobVars => pc' = pc /\ result' = result
      BY DEF StatusesOnly, threadVars, jobVars, persistVars
    <3>3. \A s \in Runs : pc[s] = "done" => pc'[s] = "done" /\ result'[s] = result[s]
      BY <1>k, <3>1, <3>2, DoneStays, NextCases, StatusStep DEF Thread
    <3> QED
      BY <1>l, <1>k, <3>3 DEF FrameInv, ChainAfterOk, Busy
  <2>3. Swept'
    <3>1. Busy({"fail", "late", "cancel"}) => ~StartMark
      BY DEF Busy, StartMark, Doing
    <3>2. Busy({"fail", "late", "cancel"}) => \A t \in Txs : txStatus'[t] = "PROCESSING" => txStatus[t] = "PROCESSING"
      BY <3>1, NothingClaimed
    <3> QED
      BY <1>k, <3>2 DEF FrameInv, Swept, Busy, WithStatus, TxsOf
  <2> QED
    BY <2>1, <2>2, <2>3 DEF FrameInv
<1>1. ASSUME NEW j \in Jobs, CancelRead(j) PROVE FrameInv'
  BY <1>i, <1>n, <1>1 DEF CancelRead, Frame
<1>2. ASSUME NEW r \in Runs, StartSelect(r) PROVE FrameInv'
  <2>1. loop'.op = "start" /\ loop'.run = r /\ loop'.sel = Claimable(r)
    BY <1>2 DEF StartSelect, Frame
  <2> QED
    BY <1>b, <1>s, <2>1 DEF FrameInv, OwnDocument, ChainAfterOk, Swept, Busy
<1>3. ASSUME NEW r \in Runs, Finish(r) PROVE FrameInv'
  <2>1. CASE loop' = Frame("chain", "chain", r, {}) /\ result[r] = "ok"
    <3>1. loop'.op = "chain" /\ loop'.run = r
      BY <2>1 DEF Frame
    <3>2. pc'[r] = "done" /\ result'[r] = "ok"
      BY <1>3, <2>1 DEF Finish, threadVars
    <3> QED
      BY <1>b, <3>1, <3>2 DEF FrameInv, OwnDocument, ChainAfterOk, Swept, Busy
  <2>2. CASE loop' = Frame("fail", "head", r, {})
    BY <1>i, <1>n, <2>2 DEF Frame
  <2> QED
    BY <1>i, <1>3, <2>1, <2>2 DEF Finish, EndRun
<1>4. ASSUME NEW r \in Runs, Timeout(r) PROVE FrameInv'
  <2>1. PICK op \in {"late", "fail"} : loop' = Frame(op, "status", r, {})
    BY <1>4 DEF Timeout
  <2> QED
    BY <1>i, <1>n, <2>1 DEF Frame
<1>5. CASE StartMark
  <2>1. loop # Idle /\ loop.op = "start" /\ Proceed("launch", loop.sel) /\ "launch" \in Steps
    BY <1>5 DEF StartMark, Doing, Steps
  <2>2. loop'.op = "start" /\ loop'.run = loop.run /\ loop'.sel = loop.sel
    BY <1>l, <2>1, ProceedFacts
  <2> QED
    BY <1>b, <2>1, <2>2 DEF FrameInv, OwnDocument, ChainAfterOk, Swept, Busy
<1>6. CASE CancelWrite \/ TimeoutStatus \/ MarkHead
  <2>1. PICK step \in {"sweep", "head"} : Proceed(step, {})
    BY <1>6 DEF CancelWrite, TimeoutStatus, MarkHead
  <2>2. loop # Idle /\ loop.op \in {"fail", "late", "cancel"} /\ step \in Steps
    BY <1>6 DEF CancelWrite, TimeoutStatus, MarkHead, Doing, Steps
  <2>3. loop'.op = loop.op /\ loop'.step = step
    BY <1>l, <2>1, <2>2, ProceedFacts
  <2> QED
    BY <1>i, <1>n, <2>2, <2>3
<1>7. CASE SweepRead
  <2>1. /\ loop # Idle /\ loop.op \in {"fail", "late", "cancel"} /\ "swept" \in Steps
        /\ Proceed("swept", WithStatus(JobOf(loop.run), "PROCESSING"))
    BY <1>7 DEF SweepRead, Doing, Steps
  <2>2. /\ loop'.op = loop.op /\ loop'.run = loop.run /\ loop'.step = "swept"
        /\ loop'.sel = WithStatus(JobOf(loop.run), "PROCESSING")
    BY <1>l, <1>s, <2>1, ProceedFacts
  <2>3. \A j : WithStatus(j, "PROCESSING")' = WithStatus(j, "PROCESSING")
    BY <1>7 DEF SweepRead, persistVars, dbVars, WithStatus, TxsOf
  <2> QED
    BY <1>b, <2>1, <2>2, <2>3 DEF FrameInv, OwnDocument, ChainAfterOk, Swept, Busy
<1>8. CASE SweepWrite
  <2>1. CASE loop' = Idle
    BY <1>i, <2>1
  <2>2. CASE loop' # Idle
    <3>1. /\ loop # Idle /\ loop.op \in {"late", "cancel"} /\ "pending" \in Steps
          /\ Proceed("pending", {}) /\ loop.step = "swept" /\ MarkTxs(loop.sel, "ERROR")
      BY <1>8, <2>2 DEF SweepWrite, Doing, EndRun, Steps
    <3>2. loop'.op = loop.op /\ loop'.run = loop.run /\ loop'.step = "pending"
      BY <1>l, <3>1, ProceedFacts
    <3>3. WithStatus(JobOf(loop.run), "PROCESSING") \subseteq loop.sel
      BY <3>1 DEF FrameInv, Swept, Busy
    <3>4. \A t \in TxsOf(JobOf(loop.run)) : txStatus'[t] # "PROCESSING"
      BY <3>1, <3>3 DEF WithStatus, TxsOf, MarkTxs
    <3>5. \A t \in TxsOf(JobOf(loop'.run)) : txStatus'[t] # "PROCESSING"
      BY <3>2, <3>4
    <3> QED
      BY <1>b, <3>1, <3>2, <3>5 DEF FrameInv, OwnDocument, ChainAfterOk, Swept, Busy, WithStatus, TxsOf
  <2> QED
    BY <2>1, <2>2
<1>9. CASE MarkPendingFailed
  <2>1. loop' = Idle
    BY <1>9 DEF MarkPendingFailed, EndRun
  <2> QED
    BY <1>i, <2>1
<1>10. CASE Crash \/ StartLaunch
  BY <1>i, <1>10 DEF Crash, StartLaunch
<1> QED
  BY <1>i, <1>k, <1>1, <1>2, <1>3, <1>4, <1>5, <1>6, <1>7, <1>8, <1>9, <1>10, FrameMoves

-----------------------------------------------------------------------------
(* Why a transaction is PROCESSING, at any time that saw no restart and no  *)
(* fault.  A run owes it: its thread will post it or end in an error or a   *)
(* review.  A thread that will find its job CANCELLED does neither.         *)
StillOwed(r, t) ==
    /\ t \in batch[r] /\ co[r] = "awaiting"
    /\ \/ /\ pc[r] \notin {"closing", "release", "done"}
          /\ t \in todo[r]
          /\ pc[r] = "lines" => t # cur[r]
          /\ pc[r] \in {"agents", "acquire", "check"} => jobStatus[JobOf(r)] # "CANCELLED"
       \/ pc[r] \in {"release", "done"} /\ result[r] \in {"error", "review"}

(* The user has, or has had, a review to confirm.                          *)
UnderReview(t) == \E j \in Jobs :
    /\ t \in batch[<<j, "first">>]
    /\ result[<<j, "first">>] = "review"
    /\ jobStatus[j] = "PENDING_AUDIT_REVIEW" \/ co[<<j, "force">>] # "none"

(* The loop is about to sweep it, or has just claimed it.                  *)
BeingSwept(t) ==
    /\ Busy({"fail", "late", "cancel"}) /\ loop.step \in {"head", "sweep", "swept"}
    /\ t \in TxsOf(JobOf(loop.run))

BeingClaimed(t) == Busy({"start"}) /\ loop.step = "launch" /\ t \in loop.sel

HasReason(t) ==
    \/ TxIngest[t] \in ViaBIngests \/ KnownKey(t)
    \/ \E r \in Runs : StillOwed(r, t)
    \/ UnderReview(t)
    \/ BeingSwept(t) \/ BeingClaimed(t)

ReasonsKnown == Quiet => \A t \in Txs : txStatus[t] = "PROCESSING" => HasReason(t)

(* The coroutine never sees the CANCELLED that others write: its session    *)
(* keeps the job as it was at the launch.                                  *)
SeenRunning == \A r \in Runs : seen[r] # "CANCELLED"

ReasonInv == FrameInv /\ SeenRunning /\ ReasonsKnown

(* What a step of the loop leaves alone.                                   *)
LEMMA OwedStays ==
    ASSUME UNCHANGED threadVars, NEW r \in Runs, NEW t, StillOwed(r, t), co'[r] = co[r],
           jobStatus'[JobOf(r)] = jobStatus[JobOf(r)] \/ jobStatus'[JobOf(r)] # "CANCELLED"
    PROVE  StillOwed(r, t)'
BY DEF StillOwed, threadVars

LEMMA ReviewStays ==
    ASSUME UNCHANGED <<batch, result>>, NEW t, UnderReview(t),
           \A j \in Jobs :
               /\ t \in batch[<<j, "first">>] /\ jobStatus[j] = "PENDING_AUDIT_REVIEW" =>
                      jobStatus'[j] = "PENDING_AUDIT_REVIEW" \/ co'[<<j, "force">>] # "none"
               /\ co[<<j, "force">>] # "none" => co'[<<j, "force">>] # "none"
    PROVE  UnderReview(t)'
BY DEF UnderReview

(* A thread owes what it has not posted and does not know.                 *)
LEMMA ThreadOwed ==
    ASSUME PersistTypeOK, HasTx, NEW r \in Runs, AgentStep(r) \/ WriteStep(r),
           NEW t \in Txs, StillOwed(r, t), txStatus'[t] = "PROCESSING", co' = co, ~KnownKey(t)
    PROVE  StillOwed(r, t)'
<1>t. /\ pc \in [Runs -> PCs] /\ result \in [Runs -> Results] /\ batch \in [Runs -> SUBSET Txs]
      /\ todo \in [Runs -> SUBSET Txs] /\ cur \in [Runs -> Txs \union {NoTx}]
      /\ jobStatus \in [Jobs -> JobStatuses] /\ txStatus \in [Txs -> TxStatuses]
  BY DEF PersistTypeOK
<1>j. JobOf(r) \in Jobs
  BY RunFacts
<1>n. t # NoTx
  BY NoTxAssumption
<1> USE <1>t, <1>j, <1>n DEF StillOwed, dbVars, Leave, Goto, Advance
<1>1. CASE AgentStep(r)
  BY <1>1 DEF AgentStep, AgentsReachPersist, AgentsStop
<1>2. CASE AcquireWrite(r) \/ AcquireTimesOut(r) \/ ReleaseWrite(r)
  BY <1>2 DEF AcquireWrite, AcquireTimesOut, ReleaseWrite
<1>3. CASE CheckCancelled(r)
  BY <1>3 DEF CheckCancelled
<1>4. CASE OpenBatch(r) \/ NextTx(r)
  BY <1>4 DEF OpenBatch, NextTx
<1>5. CASE DupCheck(r)
  BY <1>5 DEF DupCheck
<1>6. CASE Post(r)
  BY <1>6 DEF Post, HasTx
<1>7. CASE PersistLines(r)
  BY <1>7 DEF PersistLines
<1>8. CASE CloseJob(r) \/ CloseIngest(r)
  BY <1>8 DEF CloseJob, CloseIngest
<1>9. CASE FailBatch(r)
  BY <1>9 DEF FailBatch, Rejected
<1> QED
  BY <1>1, <1>2, <1>3, <1>4, <1>5, <1>6, <1>7, <1>8, <1>9 DEF WriteStep

LEMMA QuietBefore ==
    ASSUME JobTypeOK, [JobNext]_jobVars, Quiet'
    PROVE  Quiet /\ ~Crash /\ ~StartFails /\ \A r \in Runs : Thread(r) => AgentStep(r) \/ WriteStep(r)
<1>t. faults \in 0..MaxFaults /\ crashes \in Nat /\ MaxFaults \in Nat
  BY FaultsAssumption, CrashesAssumption DEF JobTypeOK, WriteInv, PersistTypeOK, CoTypeOK
<1>q. faults' = MaxFaults /\ crashes' = 0
  BY DEF Quiet
<1> USE DEF persistVars, coVars
<1>1. ~Crash
  BY <1>t, <1>q DEF Crash
<1>2. ~StartFails
  BY <1>t, <1>q DEF StartFails
<1>3. \A r \in Runs : ~FaultStep(r)
  BY <1>t, <1>q DEF FaultStep, CheckFails, DupCheckFails, TransientFault
<1>4. (\E t \in Txs : StageTransaction(t))
         \/ (\E j \in Jobs : ProcessAccounting(j) \/ ConfirmAuditReview(j) \/ CancelRead(j))
         => UNCHANGED <<faults, crashes>>
  BY DEF StageTransaction, ProcessAccounting, ConfirmAuditReview, CancelRead
<1>5. LoopOnly \/ StartLaunch \/ OrphanAcquires => UNCHANGED <<faults, crashes>>
  BY <1>2 DEF LoopOnly, CancelWrite, StartMark, StartViaB, TimeoutStatus, MarkHead, SweepRead,
     SweepWrite, MarkPendingFailed, Chain, StartLaunch, OrphanAcquires
<1>6. (\E r \in Runs : RunStep(r)) => UNCHANGED <<faults, crashes>>
  BY DEF RunStep, AcquireSlot, SlotTimeout, StartEmpty, StartSelect, Finish, Timeout
<1>7. ASSUME NEW r \in Runs, Thread(r) PROVE UNCHANGED <<faults, crashes>>
  BY <1>3, <1>7 DEF Thread, ThreadStep, AgentStep, AgentsReachPersist, AgentsStop,
     WriteStep, AcquireWrite, AcquireTimesOut, CheckCancelled, OpenBatch, NextTx,
     DupCheck, Post, PersistLines, CloseJob, CloseIngest, FailBatch, ReleaseWrite
<1>8. UNCHANGED jobVars => UNCHANGED <<faults, crashes>>
  BY DEF jobVars
<1>9. UNCHANGED <<faults, crashes>>
  BY <1>1, <1>4, <1>5, <1>6, <1>7, <1>8, NextCases
<1> QED
  BY <1>1, <1>2, <1>3, <1>9 DEF Quiet, Thread, ThreadStep

LEMMA SeenStep ==
    ASSUME JobTypeOK, SeenRunning, [JobNext]_jobVars
    PROVE  SeenRunning'
<1>t. seen \in [Runs -> JobStatuses]
  BY DEF JobTypeOK, CoTypeOK
<1>1. CASE StartLaunch
  BY <1>1, <1>t DEF StartLaunch, SeenRunning
<1>2. CASE Crash
  BY <1>2 DEF Crash, SeenRunning
<1>3. CASE seen' = seen
  BY <1>3 DEF SeenRunning
<1>4. (\E t \in Txs : StageTransaction(t))
         \/ (\E j \in Jobs : ProcessAccounting(j) \/ ConfirmAuditReview(j) \/ CancelRead(j))
         => seen' = seen
  BY DEF StageTransaction, ProcessAccounting, ConfirmAuditReview, CancelRead, coVars
<1>5. LoopOnly \/ OrphanAcquires => seen' = seen
  BY DEF LoopOnly, CancelWrite, StartMark, StartViaB, StartFails, TimeoutStatus, MarkHead,
     SweepRead, SweepWrite, MarkPendingFailed, Chain, OrphanAcquires
<1>6. (\E r \in Runs : RunStep(r)) => seen' = seen
  BY DEF RunStep, AcquireSlot, SlotTimeout, StartEmpty, StartSelect, Finish, Timeout
<1>7. (\E r \in Runs : Thread(r)) \/ UNCHANGED jobVars => seen' = seen
  BY DEF Thread, coVars, jobVars
<1> QED
  BY <1>1, <1>2, <1>3, <1>4, <1>5, <1>6, <1>7, NextCases

(* A dispatched run is never forgotten, except by a restart.               *)
LEMMA DispatchedStays ==
    ASSUME CoTypeOK, CoMove
    PROVE  \A r \in Runs : co[r] # "none" => co'[r] # "none"
BY DEF CoTypeOK, CoMove, Stays, Leaks, Dispatches, Acquires, GivesUp, Launches, Releases, Chains, Moves

(* The status that a driven run writes is not that of a review of its job   *)
(* which is still to be confirmed.                                         *)
LEMMA DrivenWrites ==
    ASSUME JobTypeOK, DispatchInv, UNCHANGED <<batch, result>>,
           NEW r \in Runs, co[r] \in Driven, NEW status, SetJob(JobOf(r), status),
           \A s \in Runs : co[s] # "none" => co'[s] # "none",
           NEW t, UnderReview(t)
    PROVE  UnderReview(t)'
<1>t. jobStatus \in [Jobs -> JobStatuses]
  BY StatusTypes
<1>1. \A j \in Jobs : j # JobOf(r) => jobStatus'[j] = jobStatus[j]
  BY <1>t DEF SetJob
<1>2. jobStatus[JobOf(r)] = "PENDING_AUDIT_REVIEW" => r = <<JobOf(r), "force">>
  BY RunFacts DEF DispatchInv, OneReview
<1>3. co[r] # "none"
  BY DEF Driven
<1> QED
  BY <1>1, <1>2, <1>3, RunFacts, ReviewStays

(* A thread neither cancels its job nor takes a review back.               *)
LEMMA ThreadWrites ==
    ASSUME PersistTypeOK, NoResultYet, NEW r \in Runs, ThreadStep(r)
    PROVE  /\ \A j \in Jobs : jobStatus'[j] = jobStatus[j] \/ jobStatus'[j] # "CANCELLED"
           /\ \A j \in Jobs : j # JobOf(r) => jobStatus'[j] = jobStatus[j]
           /\ result[r] = "review" => jobStatus' = jobStatus /\ result'[r] = "review"
<1>t. jobStatus \in [Jobs -> JobStatuses] /\ result \in [Runs -> Results] /\ pc \in [Runs -> PCs]
  BY DEF PersistTypeOK
<1>r. result[r] = "review" => pc[r] \in {"release", "done"}
  BY DEF NoResultYet
<1> USE <1>t, <1>r DEF dbVars, Leave, Goto, Advance
<1>1. CASE AgentStep(r)
  BY <1>1 DEF AgentStep, AgentsReachPersist, AgentsStop
<1>2. CASE AcquireWrite(r) \/ AcquireTimesOut(r) \/ CheckCancelled(r) \/ ReleaseWrite(r)
  BY <1>2 DEF AcquireWrite, AcquireTimesOut, CheckCancelled, ReleaseWrite
<1>3. CASE NextTx(r) \/ DupCheck(r) \/ Post(r) \/ PersistLines(r) \/ CloseIngest(r)
  BY <1>3 DEF NextTx, DupCheck, Post, PersistLines, CloseIngest
<1>4. CASE OpenBatch(r) \/ CloseJob(r) \/ FailBatch(r)
  BY <1>4 DEF OpenBatch, CloseJob, FailBatch, Rejected
<1>5. CASE FaultStep(r)
  BY <1>5 DEF FaultStep, CheckFails, DupCheckFails, TransientFault
<1> QED
  BY <1>1, <1>2, <1>3, <1>4, <1>5 DEF ThreadStep, WriteStep

(* A run owes it or a review waits for it.                                 *)
Accounted(t) == (\E r \in Runs : StillOwed(r, t)) \/ UnderReview(t)

LEMMA AccountedStays ==
    ASSUME UNCHANGED threadVars, NEW t, Accounted(t),
           \A r \in Runs : StillOwed(r, t) =>
               /\ co'[r] = co[r]
               /\ jobStatus'[JobOf(r)] = jobStatus[JobOf(r)] \/ jobStatus'[JobOf(r)] # "CANCELLED",
           \A j \in Jobs : t \in batch[<<j, "first">>] /\ jobStatus[j] = "PENDING_AUDIT_REVIEW" =>
               jobStatus'[j] = "PENDING_AUDIT_REVIEW" \/ co'[<<j, "force">>] # "none",
           \A r \in Runs : co[r] # "none" => co'[r] # "none"
    PROVE  Accounted(t)'
<1>1. \A r \in Runs : StillOwed(r, t) => StillOwed(r, t)'
  BY OwedStays
<1>2. UnderReview(t) => UnderReview(t)'
  BY ReviewStays, RunFacts DEF threadVars
<1> QED
  BY <1>1, <1>2 DEF Accounted

(* ... when a driven run writes a status, or none is written, and whoever   *)
(* is ended by the step owes nothing.                                      *)
LEMMA DrivenKeeps ==
    ASSUME JobTypeOK, DispatchInv, UNCHANGED threadVars, NEW t, Accounted(t),
           \/ jobStatus' = jobStatus
           \/ \E q \in Runs, status \in JobStatuses \ {"CANCELLED"} :
                  co[q] \in Driven /\ SetJob(JobOf(q), status),
           \A r \in Runs : StillOwed(r, t) => co'[r] = co[r],
           \A r \in Runs : co[r] # "none" => co'[r] # "none"
    PROVE  Accounted(t)'
<1>1. CASE jobStatus' = jobStatus
  BY <1>1, AccountedStays
<1>2. ASSUME NEW q \in Runs, NEW status \in JobStatuses \ {"CANCELLED"},
             co[q] \in Driven, SetJob(JobOf(q), status)
      PROVE  Accounted(t)'
  <2>1. \A j : jobStatus'[j] = jobStatus[j] \/ jobStatus'[j] # "CANCELLED"
    <3>1. jobStatus \in [Jobs -> JobStatuses] /\ JobOf(q) \in Jobs
      BY StatusTypes, RunFacts
    <3>2. \A j \in Jobs : jobStatus'[j] = IF j = JobOf(q) THEN status ELSE jobStatus[j]
      BY <1>2, <3>1 DEF SetJob
    <3>3. \A j : j \notin Jobs => jobStatus'[j] = jobStatus[j]
      BY <1>2, <3>1 DEF SetJob
    <3> QED
      BY <3>2, <3>3
  <2>2. \A r \in Runs : StillOwed(r, t) => StillOwed(r, t)'
    BY <2>1, OwedStays
  <2>3. UnderReview(t) => UnderReview(t)'
    BY <1>2, DrivenWrites DEF threadVars
  <2> QED
    BY <2>2, <2>3 DEF Accounted
<1> QED
  BY <1>1, <1>2

(* The reasons that are not of the loop survive its steps.                 *)
LEMMA LoopReasons ==
    ASSUME JobTypeOK, DispatchInv, FrameInv, LoopOnly, ~StartFails,
           \A r \in Runs : co[r] # "none" => co'[r] # "none",
           NEW t \in Txs, txStatus'[t] = "PROCESSING", TxIngest[t] \notin ViaBIngests,
           Accounted(t)
    PROVE  Accounted(t)' \/ BeingSwept(t)'
<1>t. jobStatus \in [Jobs -> JobStatuses] /\ co \in [Runs -> CoStates]
  BY StatusTypes DEF JobTypeOK, CoTypeOK
<1>l. loop # Idle /\ loop \in Frames /\ loop.run \in Runs /\ JobOf(loop.run) \in Jobs
  <2>1. loop # Idle
    BY DEF LoopOnly, CancelWrite, StartMark, StartViaB, StartFails, TimeoutStatus, MarkHead,
       SweepRead, SweepWrite, MarkPendingFailed, Chain, Doing
  <2> QED
    BY <2>1, LoopRunTyped DEF JobTypeOK
<1>r. /\ loop.op = "start" => co[loop.run] = "ready"
      /\ loop.op \in {"fail", "late", "chain"} => co[loop.run] = "awaiting"
  BY <1>l DEF DispatchInv, LoopRun, Busy
<1>d. \A r \in Runs : StillOwed(r, t) => co[r] = "awaiting" /\ t \in TxsOf(JobOf(r))
  BY DEF StillOwed, FrameInv, OwnDocument
<1>e. EndRun(loop.run) => \A r \in Runs : r # loop.run => co'[r] = co[r]
  BY <1>t DEF EndRun
<1>1. CASE StartMark \/ MarkHead \/ SweepRead
  <2>1. UNCHANGED threadVars /\ jobStatus' = jobStatus /\ co' = co
    BY <1>1 DEF StartMark, MarkHead, SweepRead, persistVars, dbVars
  <2> QED
    BY <2>1, DrivenKeeps
<1>2. CASE TimeoutStatus
  <2>1. /\ UNCHANGED threadVars /\ co' = co /\ co[loop.run] \in Driven
        /\ \E status \in JobStatuses \ {"CANCELLED"} : SetJob(JobOf(loop.run), status)
    BY <1>2, <1>r DEF TimeoutStatus, Doing, Driven, JobStatuses
  <2> QED
    BY <1>l, <2>1, DrivenKeeps
<1>3. CASE StartViaB
  <2>1. /\ UNCHANGED threadVars /\ EndRun(loop.run) /\ co[loop.run] \in Driven
        /\ SetJob(JobOf(loop.run), "COMPLETED") /\ "COMPLETED" \in JobStatuses \ {"CANCELLED"}
        /\ co[loop.run] = "ready"
    BY <1>3, <1>r DEF StartViaB, Doing, Driven, JobStatuses
  <2>2. \A r \in Runs : StillOwed(r, t) => co'[r] = co[r]
    BY <1>d, <1>e, <2>1
  <2> QED
    BY <1>l, <2>1, <2>2, DrivenKeeps
<1>4. CASE SweepWrite
  <2>1. UNCHANGED threadVars /\ jobStatus' = jobStatus /\ MarkTxs(loop.sel, "ERROR")
    BY <1>4 DEF SweepWrite
  <2>2. t \notin loop.sel /\ txStatus[t] = "PROCESSING"
    BY <2>1 DEF MarkTxs
  <2>3. WithStatus(JobOf(loop.run), "PROCESSING") \subseteq loop.sel
    BY <1>4, <1>l DEF SweepWrite, Doing, FrameInv, Swept, Busy
  <2>4. t \notin TxsOf(JobOf(loop.run))
    BY <2>2, <2>3 DEF WithStatus
  <2>5. \A r \in Runs : StillOwed(r, t) => co'[r] = co[r]
    BY <1>4, <1>d, <1>e, <2>4 DEF SweepWrite
  <2> QED
    BY <2>1, <2>5, DrivenKeeps
<1>5. CASE MarkPendingFailed
  <2>1. UNCHANGED threadVars /\ jobStatus' = jobStatus
        /\ MarkTxs(WithStatus(JobOf(loop.run), "PENDING"), "ERROR")
    BY <1>5 DEF MarkPendingFailed
  <2>2. txStatus[t] = "PROCESSING"
    BY <2>1 DEF MarkTxs
  <2>3. WithStatus(JobOf(loop.run), "PROCESSING") = {}
    BY <1>5, <1>l DEF MarkPendingFailed, Doing, FrameInv, Swept, Busy
  <2>4. t \notin TxsOf(JobOf(loop.run))
    BY <2>2, <2>3 DEF WithStatus
  <2>5. \A r \in Runs : StillOwed(r, t) => co'[r] = co[r]
    BY <1>5, <1>d, <1>e, <2>4 DEF MarkPendingFailed
  <2> QED
    BY <2>1, <2>5, DrivenKeeps
<1>6. CASE CancelWrite
  <2>1. /\ loop.op = "cancel" /\ Proceed("sweep", {}) /\ "sweep" \in Steps
        /\ UNCHANGED threadVars /\ co' = co /\ SetJob(JobOf(loop.run), "CANCELLED")
    BY <1>6 DEF CancelWrite, Doing, Steps
  <2>2. /\ loop' \in Frames /\ loop'.op = "cancel" /\ loop'.step = "sweep"
        /\ loop'.run = loop.run
    BY <1>l, <2>1, ProceedFacts
  <2>3. loop' # Idle
    BY <2>2, FrameNotIdle
  <2>4. CASE t \in TxsOf(JobOf(loop.run))
    BY <2>2, <2>3, <2>4 DEF BeingSwept, Busy
  <2>5. CASE t \notin TxsOf(JobOf(loop.run))
    <3>1. \A j \in Jobs : j # JobOf(loop.run) => jobStatus'[j] = jobStatus[j]
      BY <1>t, <2>1 DEF SetJob
    <3>2. \A r \in Runs : StillOwed(r, t) => JobOf(r) # JobOf(loop.run)
      BY <1>d, <2>5
    <3>3. \A j \in Jobs : t \in batch[<<j, "first">>] => j # JobOf(loop.run)
      BY <2>5, RunFacts DEF FrameInv, OwnDocument
    <3> QED
      BY <2>1, <3>1, <3>2, <3>3, AccountedStays, RunFacts
  <2> QED
    BY <2>4, <2>5
<1>7. CASE Chain
  <2>1. UNCHANGED threadVars
    BY <1>7 DEF Chain
  <2>2. co[loop.run] = "awaiting" /\ ~StillOwed(loop.run, t)
    BY <1>7, <1>l, <1>r DEF Chain, Doing, FrameInv, ChainAfterOk, Busy, StillOwed
  <2>3. CASE EndRun(loop.run) /\ UNCHANGED jobStatus
    BY <1>d, <1>e, <2>1, <2>2, <2>3, DrivenKeeps
  <2>4. ASSUME NEW j \in Jobs, jobStatus[j] = "NONE", SetJob(j, "QUEUED"),
               co' = [co EXCEPT ![<<j, "first">>] = "waiting", ![loop.run] = "ended"]
        PROVE  Accounted(t)'
    <3>1. co[<<j, "first">>] = "none"
      BY <2>4, NotDispatched DEF JobTypeOK
    <3>2. \A r \in Runs : r # <<j, "first">> /\ r # loop.run => co'[r] = co[r]
      BY <1>t, <2>4
    <3>3. \A r \in Runs : StillOwed(r, t) => co'[r] = co[r]
      BY <1>d, <2>2, <3>1, <3>2
    <3>4. \A i \in Jobs : \/ jobStatus'[i] = jobStatus[i]
                          \/ jobStatus[i] # "PENDING_AUDIT_REVIEW" /\ jobStatus'[i] # "CANCELLED"
      BY <1>t, <2>4 DEF SetJob
    <3> QED
      BY <2>1, <3>3, <3>4, AccountedStays, RunFacts
  <2> QED
    BY <1>7, <2>3, <2>4 DEF Chain
<1> QED
  BY <1>1, <1>2, <1>3, <1>4, <1>5, <1>6, <1>7 DEF LoopOnly

(* What the loop is about to do to a transaction it does, or goes on to.    *)
LEMMA LoopReasonsOwn ==
    ASSUME JobTypeOK, DispatchInv, FrameInv, LoopOnly, ~StartFails,
           NEW t \in Txs, txStatus'[t] = "PROCESSING", TxIngest[t] \notin ViaBIngests,
           BeingSwept(t) \/ BeingClaimed(t) \/ (StartMark /\ t \in loop.sel)
    PROVE  BeingSwept(t)' \/ BeingClaimed(t)'
<1>l. loop # Idle /\ loop \in Frames /\ loop.run \in Runs /\ loop.sel \in SUBSET Txs
  <2>1. loop # Idle
    BY DEF LoopOnly, CancelWrite, StartMark, StartViaB, StartFails, TimeoutStatus, MarkHead,
       SweepRead, SweepWrite, MarkPendingFailed, Chain, Doing
  <2> QED
    BY <2>1, LoopRunTyped DEF JobTypeOK
<1>1. CASE BeingSwept(t)
  <2>1. MarkHead \/ SweepRead \/ SweepWrite
    BY <1>1 DEF BeingSwept, Busy, LoopOnly, CancelWrite, StartMark, StartViaB, StartFails,
       TimeoutStatus, MarkPendingFailed, Chain, Doing
  <2>2. CASE MarkHead \/ SweepRead
    <3>1. PICK step \in {"sweep", "swept"}, S \in SUBSET Txs : Proceed(step, S)
      BY <2>2 DEF MarkHead, SweepRead, WithStatus, TxsOf
    <3>2. loop' \in Frames /\ loop'.op = loop.op /\ loop'.run = loop.run /\ loop'.step = step
      BY <1>l, <3>1, ProceedFacts DEF Steps
    <3> QED
      BY <1>1, <3>2, FrameNotIdle DEF BeingSwept, Busy
  <2>3. CASE SweepWrite
    <3>1. MarkTxs(loop.sel, "ERROR") /\ WithStatus(JobOf(loop.run), "PROCESSING") \subseteq loop.sel
      BY <1>l, <2>3 DEF SweepWrite, Doing, FrameInv, Swept, Busy
    <3>2. t \in TxsOf(JobOf(loop.run))
      BY <1>1 DEF BeingSwept
    <3> QED
      BY <3>1, <3>2 DEF MarkTxs, WithStatus
  <2> QED
    BY <2>1, <2>2, <2>3
<1>2. CASE StartMark /\ t \in loop.sel
  <2>1. Proceed("launch", loop.sel) /\ loop.op = "start" /\ "launch" \in Steps
    BY <1>2 DEF StartMark, Doing, Steps
  <2>2. loop' \in Frames /\ loop'.op = "start" /\ loop'.step = "launch" /\ loop'.sel = loop.sel
    BY <1>l, <2>1, ProceedFacts
  <2> QED
    BY <1>2, <2>2, FrameNotIdle DEF BeingClaimed, Busy
<1>3. CASE BeingClaimed(t)
  <2>1. StartViaB
    BY <1>3 DEF BeingClaimed, Busy, LoopOnly, CancelWrite, StartMark, StartFails, TimeoutStatus,
       MarkHead, SweepRead, SweepWrite, MarkPendingFailed, Chain, Doing
  <2>2. t \in TxsOf(JobOf(loop.run))
    BY <1>3 DEF BeingClaimed, Busy, FrameInv, OwnDocument
  <2> QED
    BY <2>1, <2>2 DEF StartViaB, TxsOf
<1> QED
  BY <1>1, <1>2, <1>3

(* The coroutines: what they end owes nothing, or asks for a review.        *)
LEMMA RunReasons ==
    ASSUME JobTypeOK, DispatchInv, FrameInv, SeenRunning,
           \A r \in Runs : co[r] # "none" => co'[r] # "none",
           NEW q \in Runs, RunStep(q), NEW t \in Txs, Accounted(t)
    PROVE  Accounted(t)'
<1>t. jobStatus \in [Jobs -> JobStatuses] /\ co \in [Runs -> CoStates] /\ JobOf(q) \in Jobs
  BY StatusTypes, RunFacts DEF JobTypeOK, CoTypeOK
<1>d. \A r \in Runs : StillOwed(r, t) => co[r] = "awaiting"
  BY DEF StillOwed
<1>1. CASE AcquireSlot(q) \/ StartSelect(q) \/ Timeout(q)
  <2>1. UNCHANGED threadVars /\ jobStatus' = jobStatus
    BY <1>1 DEF AcquireSlot, StartSelect, Timeout, persistVars, dbVars
  <2>2. \A r \in Runs : StillOwed(r, t) => co'[r] = co[r]
    BY <1>1, <1>t, <1>d DEF AcquireSlot, StartSelect, Timeout
  <2> QED
    BY <2>1, <2>2, DrivenKeeps
<1>2. CASE SlotTimeout(q) \/ StartEmpty(q)
  <2>1. /\ UNCHANGED threadVars /\ co[q] \in Driven
        /\ \E status \in JobStatuses \ {"CANCELLED"} : SetJob(JobOf(q), status)
    BY <1>2 DEF SlotTimeout, StartEmpty, Driven, JobStatuses
  <2>2. \A r \in Runs : StillOwed(r, t) => co'[r] = co[r]
    BY <1>2, <1>t, <1>d DEF SlotTimeout, StartEmpty, EndRun
  <2> QED
    BY <2>1, <2>2, DrivenKeeps
<1>3. CASE Finish(q)
  <2>1. UNCHANGED threadVars /\ co[q] \in Driven /\ co[q] = "awaiting" /\ pc[q] = "done"
    BY <1>3 DEF Finish, Driven
  <2>2. CASE co' = co
    <3>1. \E status \in JobStatuses \ {"CANCELLED"} : SetJob(JobOf(q), status)
      <4>1. co'[q] = "awaiting"
        BY <2>1, <2>2
      <4>2. ~EndRun(q)
        BY <1>t, <4>1 DEF EndRun
      <4> QED
        BY <1>3, <4>2 DEF Finish, JobStatuses
    <3> QED
      BY <2>1, <2>2, <3>1, DrivenKeeps
  <2>3. CASE co' # co
    <3>1. result[q] = "review" /\ SetJob(JobOf(q), "PENDING_AUDIT_REVIEW") /\ EndRun(q)
      BY <1>3, <2>3 DEF Finish, SeenRunning
    <3>2. q = <<JobOf(q), "first">>
      BY <3>1, RunFacts DEF DispatchInv, ForcedNotReviewed
    <3>3. CASE StillOwed(q, t)
      <4>1. t \in batch[q]
        BY <3>3 DEF StillOwed
      <4>2. batch' = batch /\ result' = result /\ jobStatus'[JobOf(q)] = "PENDING_AUDIT_REVIEW"
        BY <1>t, <2>1, <3>1 DEF SetJob, threadVars
      <4>3. UnderReview(t)'
        BY <1>t, <3>1, <3>2, <4>1, <4>2 DEF UnderReview
      <4> QED
        BY <4>3 DEF Accounted
    <3>4. CASE ~StillOwed(q, t)
      <4>1. \A r \in Runs : StillOwed(r, t) => co'[r] = co[r]
        BY <1>t, <3>1, <3>4 DEF EndRun
      <4>2. "PENDING_AUDIT_REVIEW" \in JobStatuses \ {"CANCELLED"}
        BY DEF JobStatuses
      <4> QED
        BY <2>1, <3>1, <4>1, <4>2, DrivenKeeps
    <3> QED
      BY <3>3, <3>4
  <2> QED
    BY <2>2, <2>3
<1> QED
  BY <1>1, <1>2, <1>3 DEF RunStep

(* The users: a confirmation dispatches the forced run of the review.       *)
LEMMA UserReasons ==
    ASSUME JobTypeOK, DispatchInv, \A r \in Runs : co[r] # "none" => co'[r] # "none",
           NEW j \in Jobs, ProcessAccounting(j) \/ ConfirmAuditReview(j) \/ CancelRead(j),
           NEW t \in Txs, Accounted(t)
    PROVE  Accounted(t)'
<1>t. jobStatus \in [Jobs -> JobStatuses] /\ co \in [Runs -> CoStates]
  BY StatusTypes DEF JobTypeOK, CoTypeOK
<1>d. \A r \in Runs : StillOwed(r, t) => co[r] = "awaiting"
  BY DEF StillOwed
<1>1. CASE CancelRead(j)
  BY <1>1, DrivenKeeps DEF CancelRead, persistVars, dbVars
<1>2. ASSUME NEW q \in Runs, NEW status, SetJob(j, status), status # "CANCELLED", Dispatch(q),
             co[q] = "none", UNCHANGED threadVars,
             jobStatus[j] # "PENDING_AUDIT_REVIEW" \/ q = <<j, "force">>
      PROVE  Accounted(t)'
  <2>1. \A r \in Runs : co'[r] = IF r = q THEN "waiting" ELSE co[r]
    BY <1>t, <1>2 DEF Dispatch
  <2>2. \A i \in Jobs : jobStatus'[i] = IF i = j THEN status ELSE jobStatus[i]
    BY <1>t, <1>2 DEF SetJob
  <2>3. \A r \in Runs : StillOwed(r, t) => /\ co'[r] = co[r]
                                           /\ \/ jobStatus'[JobOf(r)] = jobStatus[JobOf(r)]
                                              \/ jobStatus'[JobOf(r)] # "CANCELLED"
    BY <1>d, <1>2, <2>1, <2>2, RunFacts
  <2>4. \A i \in Jobs : jobStatus[i] = "PENDING_AUDIT_REVIEW" =>
            jobStatus'[i] = "PENDING_AUDIT_REVIEW" \/ co'[<<i, "force">>] # "none"
    BY <1>2, <2>1, <2>2
  <2> QED
    BY <1>2, <2>3, <2>4, AccountedStays
<1>3. CASE ProcessAccounting(j)
  <2>1. /\ SetJob(j, "QUEUED") /\ Dispatch(<<j, "first">>) /\ UNCHANGED threadVars
        /\ jobStatus[j] = "NONE"
    BY <1>3 DEF ProcessAccounting
  <2> QED
    BY <1>2, <2>1, NotDispatched, RunFacts DEF JobTypeOK
<1>4. CASE ConfirmAuditReview(j)
  <2>1. /\ SetJob(j, "RUNNING") /\ Dispatch(<<j, "force">>) /\ UNCHANGED threadVars
        /\ jobStatus[j] = "PENDING_AUDIT_REVIEW"
    BY <1>4 DEF ConfirmAuditReview
  <2> QED
    BY <1>2, <2>1, NotDispatched, RunFacts DEF JobTypeOK
<1> QED
  BY <1>1, <1>3, <1>4

(* A launch hands what was claimed to the thread.                           *)
LEMMA LaunchReasons ==
    ASSUME JobTypeOK, DispatchInv, \A r \in Runs : co[r] # "none" => co'[r] # "none",
           StartLaunch, NEW t \in Txs, Accounted(t) \/ BeingClaimed(t)
    PROVE  Accounted(t)'
<1>t. /\ jobStatus \in [Jobs -> JobStatuses] /\ co \in [Runs -> CoStates]
      /\ pc \in [Runs -> PCs] /\ batch \in [Runs -> SUBSET Txs] /\ todo \in [Runs -> SUBSET Txs]
      /\ NoResultYet
  BY StatusTypes DEF JobTypeOK, CoTypeOK, WriteInv, PersistTypeOK
<1>l. /\ loop.run \in Runs /\ JobOf(loop.run) \in Jobs /\ co[loop.run] = "ready"
      /\ pc[loop.run] = "idle"
  BY LoopRunTyped DEF StartLaunch, StartThread, Doing, JobTypeOK, DispatchInv, LoopRun, Busy
<1>1. /\ batch' = [batch EXCEPT ![loop.run] = loop.sel] /\ todo' = [todo EXCEPT ![loop.run] = loop.sel]
      /\ pc' = [pc EXCEPT ![loop.run] = "agents"] /\ cur' = cur /\ result' = result
      /\ co' = [co EXCEPT ![loop.run] = "awaiting"]
      /\ jobStatus' = [jobStatus EXCEPT ![JobOf(loop.run)] = "RUNNING"]
  BY DEF StartLaunch, StartThread, SetJob
<1>2. CASE BeingClaimed(t)
  <2>1. t \in loop.sel
    BY <1>2 DEF BeingClaimed
  <2>2. PICK q \in Runs : q = loop.run
    BY <1>l
  <2>3. /\ t \in batch'[q] /\ t \in todo'[q] /\ pc'[q] = "agents" /\ co'[q] = "awaiting"
        /\ jobStatus'[JobOf(q)] = "RUNNING"
    BY <1>t, <1>l, <1>1, <2>1, <2>2
  <2>4. StillOwed(q, t)'
    BY <2>3 DEF StillOwed
  <2> QED
    BY <2>4 DEF Accounted
<1>3. ASSUME NEW r \in Runs, StillOwed(r, t) PROVE Accounted(t)'
  <2>1. r # loop.run
    BY <1>l, <1>3 DEF StillOwed
  <2>2. StillOwed(r, t)'
    BY <1>t, <1>l, <1>1, <1>3, <2>1, RunFacts DEF StillOwed
  <2> QED
    BY <2>2 DEF Accounted
<1>4. CASE UnderReview(t)
  <2>1. PICK j \in Jobs : /\ t \in batch[<<j, "first">>] /\ result[<<j, "first">>] = "review"
                          /\ jobStatus[j] = "PENDING_AUDIT_REVIEW" \/ co[<<j, "force">>] # "none"
    BY <1>4 DEF UnderReview
  <2>2. <<j, "first">> # loop.run /\ <<j, "first">> \in Runs
    BY <1>t, <1>l, <2>1, RunFacts DEF NoResultYet
  <2>3. t \in batch'[<<j, "first">>] /\ result'[<<j, "first">>] = "review"
    BY <1>t, <1>1, <2>1, <2>2
  <2>4. jobStatus[j] = "PENDING_AUDIT_REVIEW" =>
            jobStatus'[j] = "PENDING_AUDIT_REVIEW" \/ co'[<<j, "force">>] # "none"
    <3>1. j = JobOf(loop.run) => loop.run = <<j, "force">>
      BY <1>l, <2>2, RunFacts
    <3> QED
      BY <1>t, <1>l, <1>1, <3>1
  <2> QED
    BY <2>1, <2>3, <2>4, RunFacts DEF UnderReview, Accounted
<1> QED
  BY <1>2, <1>3, <1>4 DEF Accounted

LEMMA ThreadReasons ==
    ASSUME JobTypeOK, DispatchInv, NEW q \in Runs, AgentStep(q) \/ WriteStep(q), co' = co,
           NEW t \in Txs, txStatus'[t] = "PROCESSING", ~KnownKey(t), Accounted(t)
    PROVE  Accounted(t)'
<1>s. ThreadStep(q)
  BY DEF ThreadStep
<1>t. PersistTypeOK /\ HasTx /\ NoResultYet /\ CoTypeOK /\ DispatchedOnce
  BY DEF JobTypeOK, WriteInv, DispatchInv
<1>f. /\ \A s \in Runs \ {q} : /\ pc'[s] = pc[s] /\ cur'[s] = cur[s] /\ todo'[s] = todo[s]
                               /\ result'[s] = result[s]
      /\ batch' = batch
  BY <1>s, <1>t, Footprint
<1>w. /\ \A j \in Jobs : jobStatus'[j] = jobStatus[j] \/ jobStatus'[j] # "CANCELLED"
      /\ \A j \in Jobs : j # JobOf(q) => jobStatus'[j] = jobStatus[j]
      /\ result[q] = "review" => jobStatus' = jobStatus /\ result'[q] = "review"
  BY <1>s, <1>t, ThreadWrites
<1>1. ASSUME NEW r \in Runs, StillOwed(r, t) PROVE StillOwed(r, t)'
  <2>1. CASE r = q
    BY <1>t, <1>1, <2>1, ThreadOwed
  <2>2. CASE r # q
    BY <1>f, <1>w, <1>1, <2>2, RunFacts DEF StillOwed
  <2> QED
    BY <2>1, <2>2
<1>2. CASE UnderReview(t)
  <2>1. PICK j \in Jobs : /\ t \in batch[<<j, "first">>] /\ result[<<j, "first">>] = "review"
                          /\ jobStatus[j] = "PENDING_AUDIT_REVIEW" \/ co[<<j, "force">>] # "none"
    BY <1>2 DEF UnderReview
  <2>2. <<j, "first">> \in Runs /\ result'[<<j, "first">>] = "review"
    BY <1>f, <1>w, <2>1, RunFacts
  <2>3. CASE j = JobOf(q) /\ q = <<j, "force">>
    BY <1>s, <1>t, <1>f, <2>1, <2>2, <2>3, ThreadLaunched DEF UnderReview, Accounted
  <2>4. CASE j = JobOf(q) /\ q = <<j, "first">>
    BY <1>f, <1>w, <2>1, <2>2, <2>4 DEF UnderReview, Accounted
  <2>5. CASE j # JobOf(q)
    BY <1>f, <1>w, <2>1, <2>2, <2>5 DEF UnderReview, Accounted
  <2> QED
    BY <2>3, <2>4, <2>5, RunFacts
<1> QED
  BY <1>1, <1>2 DEF Accounted

LEMMA ReasonStep ==
    ASSUME JobTypeOK, DispatchInv, ReasonInv, [JobNext]_jobVars, Quiet',
           NEW t \in Txs, txStatus'[t] = "PROCESSING", TxIngest[t] \notin ViaBIngests, ~KnownKey(t)
    PROVE  Accounted(t)' \/ BeingSwept(t)' \/ BeingClaimed(t)'
<1>i. FrameInv /\ SeenRunning
  BY DEF ReasonInv
<1>q. Quiet /\ ~Crash /\ ~StartFails /\ \A r \in Runs : Thread(r) => AgentStep(r) \/ WriteStep(r)
  BY QuietBefore
<1>c. \A r \in Runs : co[r] # "none" => co'[r] # "none"
  BY <1>q, CoMoves, DispatchedStays DEF JobTypeOK
<1>b. \/ Accounted(t) \/ BeingSwept(t) \/ BeingClaimed(t)
      \/ StartMark /\ t \in loop.sel
  BY <1>q, NothingClaimed DEF ReasonInv, ReasonsKnown, HasReason, Accounted
<1>o. ASSUME loop' = loop
      PROVE  /\ BeingSwept(t) => BeingSwept(t)'
             /\ BeingClaimed(t) => BeingClaimed(t)'
  BY <1>o DEF BeingSwept, BeingClaimed, Busy
<1>d. loop = Idle => ~BeingSwept(t) /\ ~BeingClaimed(t)
  BY DEF BeingSwept, BeingClaimed, Busy
<1>m. StartMark => LoopOnly
  BY DEF LoopOnly
<1>1. CASE (\E s \in Txs : StageTransaction(s)) \/ OrphanAcquires \/ UNCHANGED jobVars
  <2>1. UNCHANGED threadVars /\ jobStatus' = jobStatus /\ co' = co /\ loop' = loop
    BY <1>1 DEF StageTransaction, OrphanAcquires, jobVars, coVars, persistVars, dbVars
  <2>2. ~StartMark
    <3>1. StartMark => loop # Idle /\ loop.step = "mark" /\ loop'.step = "launch"
      BY LoopRunTyped, ProceedFacts DEF StartMark, Doing, Steps, JobTypeOK
    <3> QED
      BY <2>1, <3>1
  <2> QED
    BY <1>b, <1>c, <1>o, <2>1, <2>2, DrivenKeeps
<1>2. ASSUME NEW j \in Jobs, ProcessAccounting(j) \/ ConfirmAuditReview(j) \/ CancelRead(j)
      PROVE  Accounted(t)'
  <2>1. loop = Idle /\ ~StartMark
    BY <1>2 DEF ProcessAccounting, ConfirmAuditReview, CancelRead, StartMark, Doing
  <2> QED
    BY <1>2, <1>b, <1>c, <1>d, <2>1, UserReasons
<1>3. CASE LoopOnly
  BY <1>3, <1>b, <1>c, <1>i, <1>q, LoopReasons, LoopReasonsOwn
<1>4. CASE StartLaunch
  <2>1. ~BeingSwept(t) /\ ~StartMark
    BY <1>4 DEF StartLaunch, StartMark, Doing, BeingSwept, Busy
  <2> QED
    BY <1>4, <1>b, <1>c, <2>1, LaunchReasons
<1>5. ASSUME NEW r \in Runs, RunStep(r) PROVE Accounted(t)' \/ BeingSwept(t)' \/ BeingClaimed(t)'
  <2>1. CASE AcquireSlot(r)
    <3>1. loop' = loop /\ (StartMark => co' = co)
      BY <2>1 DEF AcquireSlot, StartMark
    <3>2. ~StartMark
      BY <2>1, <3>1 DEF AcquireSlot, JobTypeOK, CoTypeOK
    <3> QED
      BY <1>5, <1>b, <1>c, <1>i, <1>o, <3>1, <3>2, RunReasons
  <2>2. CASE ~AcquireSlot(r)
    <3>1. loop = Idle /\ ~StartMark
      BY <1>5, <2>2 DEF RunStep, SlotTimeout, StartEmpty, StartSelect, Finish, Timeout, StartMark, Doing
    <3> QED
      BY <1>5, <1>b, <1>c, <1>d, <1>i, <3>1, RunReasons
  <2> QED
    BY <2>1, <2>2
<1>6. ASSUME NEW r \in Runs, Thread(r) PROVE Accounted(t)' \/ BeingSwept(t)' \/ BeingClaimed(t)'
  <2>1. (AgentStep(r) \/ WriteStep(r)) /\ co' = co /\ loop' = loop
    BY <1>6, <1>q DEF Thread, coVars
  <2>2. ~StartMark
    <3>1. StartMark => loop # Idle /\ loop.step = "mark" /\ loop'.step = "launch"
      BY LoopRunTyped, ProceedFacts DEF StartMark, Doing, Steps, JobTypeOK
    <3> QED
      BY <2>1, <3>1
  <2> QED
    BY <1>b, <1>o, <2>1, <2>2, ThreadReasons
<1> QED
  BY <1>1, <1>2, <1>3, <1>4, <1>5, <1>6, <1>q, NextCases

(* No step takes a posted row away.                                        *)
LEMMA PostedGrows ==
    ASSUME JobTypeOK, [JobNext]_jobVars
    PROVE  posted \subseteq posted'
<1>1. PersistTypeOK
  BY DEF JobTypeOK, WriteInv
<1>2. StatusesOnly \/ StartLaunch \/ Crash \/ UNCHANGED jobVars => posted' = posted
  BY DEF StatusesOnly, StartLaunch, Crash, dbVars, jobVars, persistVars
<1>3. \A r \in Runs : Thread(r) => posted \subseteq posted'
  BY <1>1, Footprint DEF Thread
<1> QED
  BY <1>2, <1>3, NextCases, StatusStep

-----------------------------------------------------------------------------
(* The inductive invariant of a server with its jobs.                      *)
JobInv == JobTypeOK /\ SlotsInv /\ DispatchInv /\ ClaimInv /\ RowInv

LEMMA JobInitInv == JobInit => JobInv
<1> SUFFICES ASSUME JobInit PROVE JobInv
  OBVIOUS
<1>1. WriteInv
  BY InitInv DEF JobInit, PersistInv, JobStatuses, TxStatuses
<1>2. CoTypeOK
  BY SlotsAssumption, CrashesAssumption DEF JobInit, LoopIdle, CoTypeOK, CoStates, JobStatuses
<1>3. SlotsInv
  <2>1. Holders = {} /\ Ended = {} /\ freeSlots = Slots /\ orphans = 0
    BY DEF JobInit, LoopIdle, Holders, Ended
  <2>2. Cardinality(Holders) = 0 /\ Cardinality(Ended) = 0
    BY <2>1, FS_EmptySet
  <2> HIDE DEF Holders, Ended
  <2> QED
    BY <2>1, <2>2, SlotsAssumption DEF SlotsInv
<1>4. DispatchInv
  BY RunFacts DEF JobInit, LoopIdle, ThreadsIdle, DispatchInv, DispatchedOnce, FreshJob, OneReview,
     ForcedNotReviewed, LoopRun, Busy, Driven
<1>5. ClaimInv
  BY DEF JobInit, LoopIdle, ThreadsIdle, ClaimInv, BatchInv, Taken, WorksOnBatch,
     FirstBatchesDisjoint, RowOfClaimant, OneFirstRun, PostedNotReclaimed, Selected, Busy
<1>6. RowInv
  BY DEF JobInit, RowInv, RowsOfLaunched, HalfRows
<1> QED
  BY <1>1, <1>2, <1>3, <1>4, <1>5, <1>6 DEF JobInv, JobTypeOK

LEMMA JobNextInv == JobInv /\ [JobNext]_jobVars => JobInv'
<1> SUFFICES ASSUME JobInv, [JobNext]_jobVars PROVE JobInv'
  OBVIOUS
<1>1. JobTypeOK'
  BY WriteStays, CoTypeStep DEF JobInv, JobTypeOK
<1>2. SlotsInv'
  BY CoMoves, SlotsStep DEF JobInv
<1>3. DispatchInv'
  BY DispatchStep DEF JobInv
<1>4. ClaimInv'
  BY BatchStep, SelectedStep DEF JobInv, ClaimInv
<1>5. RowInv'
  BY RowStep DEF JobInv
<1> QED
  BY <1>1, <1>2, <1>3, <1>4, <1>5 DEF JobInv

(* The invariant holds in every behaviour of the server: users, timeouts,   *)
(* cancellations, faults and restarts in any order.                        *)
THEOREM JobInvariant == JobSpec => []JobInv
BY JobInitInv, JobNextInv, PTL DEF JobSpec

(* The variables keep their types; in particular there are never more runs  *)
(* driven than slots, however many helpers leak one.                       *)
THEOREM JobTypes == JobSpec => []ProcessTypeOK
<1>1. JobInv => ProcessTypeOK
  <2> SUFFICES ASSUME JobInv PROVE ProcessTypeOK
    OBVIOUS
  <2>1. Holders \in SUBSET Runs /\ Ended \in SUBSET Runs /\ Runs \in SUBSET Runs
    BY DEF Holders, Ended
  <2>2. /\ Cardinality(Holders) \in Nat /\ Cardinality(Runs) \in Nat
        /\ Cardinality(Ended) \in Nat /\ Cardinality(Ended) <= Cardinality(Runs)
    BY <2>1, SetFacts
  <2>3. PersistTypeOK /\ CoTypeOK /\ SlotsInv
    BY DEF JobInv, JobTypeOK, WriteInv
  <2>4. freeSlots \in 0..Slots /\ orphans \in 0..Cardinality(Runs)
    <3> HIDE DEF Holders, Ended
    <3> QED
      BY <2>2, <2>3, SlotsAssumption DEF SlotsInv, CoTypeOK
  <2>5. starts \in [Runs -> 0..2]
    BY <2>3 DEF CoTypeOK
  <2>6. freeSlots + Cardinality({r \in Runs : co[r] \in {"ready", "awaiting"}}) <= Slots
    BY <2>3 DEF SlotsInv, Holders
  <2>7. loop = Idle \/ loop \in [op : Ops, step : Steps, run : Runs, sel : SUBSET Txs]
    BY <2>3 DEF CoTypeOK, Frames
  <2> QED
    BY <2>3, <2>4, <2>5, <2>6, <2>7 DEF ProcessTypeOK, CoTypeOK
<1> QED
  BY <1>1, JobInvariant, PTL

(* Neither a double confirmation, nor one that crosses a cancellation, nor  *)
(* a chained job dispatches a run twice.                                   *)
THEOREM NoDoubleDispatch == JobSpec => []DispatchOnce
<1>1. JobInv => DispatchOnce
  BY DEF JobInv, JobTypeOK, CoTypeOK, DispatchOnce
<1> QED
  BY <1>1, JobInvariant, PTL

(* No transaction is given to the first runs of two jobs.                   *)
THEOREM FirstRunsDisjoint == JobSpec => []FirstBatchesDisjoint
<1>1. JobInv => FirstBatchesDisjoint
  BY DEF JobInv, ClaimInv, BatchInv
<1> QED
  BY <1>1, JobInvariant, PTL

(* A posted transaction never becomes pending again.                        *)
THEOREM NeverReclaimed == JobSpec => []PostedNotReclaimed
<1>1. JobInv => PostedNotReclaimed
  BY DEF JobInv, ClaimInv, BatchInv
<1> QED
  BY <1>1, JobInvariant, PTL

(* What it takes for two runs to post one transaction: no key to tell them  *)
(* apart by, and a confirmed review.                                       *)
THEOREM PostedTwice == JobSpec => []TwiceOnlyByReview
<1>1. JobInv => TwiceOnlyByReview
  <2> SUFFICES ASSUME JobInv, NEW p \in posted, NEW q \in posted, p.tx = q.tx, p.run # q.run
               PROVE  NatKey[p.tx] = NoKey /\ (Forced(p.run) \/ Forced(q.run))
    BY DEF TwiceOnlyByReview
  <2>1. OneRowPerKey /\ OneFirstRun
    BY DEF JobInv, JobTypeOK, WriteInv, ClaimInv, BatchInv
  <2>2. NatKey[p.tx] = NoKey
    BY <2>1 DEF OneRowPerKey, SameKey
  <2> QED
    BY <2>1, <2>2 DEF OneFirstRun
<1> QED
  BY <1>1, JobInvariant, PTL

(* Why transactions are PROCESSING, along with the rest of the invariant.   *)
LEMMA ReasonNext == JobInv /\ ReasonInv /\ [JobNext]_jobVars => ReasonInv'
<1> SUFFICES ASSUME JobInv, ReasonInv, [JobNext]_jobVars PROVE ReasonInv'
  OBVIOUS
<1>i. JobTypeOK /\ DispatchInv /\ FrameInv /\ SeenRunning
  BY DEF JobInv, ReasonInv
<1>1. FrameInv' /\ SeenRunning'
  BY <1>i, FrameStep, SeenStep
<1>2. ASSUME Quiet', NEW t \in Txs, txStatus'[t] = "PROCESSING" PROVE HasReason(t)'
  <2>1. CASE TxIngest[t] \in ViaBIngests
    BY <2>1 DEF HasReason
  <2>2. CASE KnownKey(t)
    <3>1. posted \subseteq posted'
      BY <1>i, PostedGrows
    <3> QED
      BY <2>2, <3>1 DEF KnownKey, HasReason
  <2>3. CASE TxIngest[t] \notin ViaBIngests /\ ~KnownKey(t)
    BY <1>i, <1>2, <2>3, ReasonStep DEF HasReason, Accounted
  <2> QED
    BY <2>1, <2>2, <2>3
<1> QED
  BY <1>1, <1>2 DEF ReasonInv, ReasonsKnown

LEMMA ReasonInit == JobInit => ReasonInv
<1> SUFFICES ASSUME JobInit PROVE ReasonInv
  OBVIOUS
<1>1. FrameInv
  BY DEF JobInit, LoopIdle, ThreadsIdle, FrameInv, OwnDocument, ChainAfterOk, Swept, Busy
<1>2. SeenRunning /\ ReasonsKnown
  BY DEF JobInit, LoopIdle, SeenRunning, ReasonsKnown
<1> QED
  BY <1>1, <1>2 DEF ReasonInv

(* Why the transactions of the document are PROCESSING is known throughout, *)
(* and the loop has the frame of the run it is in.                         *)
THEOREM ReasonInvariant == JobSpec => []ReasonInv
BY ReasonInit, ReasonNext, JobInvariant, PTL DEF JobSpec

(* "So they don't stay stuck": as long as nothing crashed or failed, every   *)
(* transaction that is PROCESSING while the loop is idle has a coroutine    *)
(* that will deal with it, a review, or one of the three known reasons.     *)
THEOREM NothingStuckUnexplained == JobSpec => []ProcessingIsExplained
<1>1. ReasonInv => ProcessingIsExplained
  <2> SUFFICES ASSUME ReasonInv, Quiet, loop = Idle, NEW t \in Txs, txStatus[t] = "PROCESSING"
               PROVE  \/ TxIngest[t] \in ViaBIngests \/ KnownKey(t)
                      \/ \E r \in Runs : t \in batch[r] /\ co[r] = "awaiting"
                      \/ UnderReview(t)
    BY DEF ProcessingIsExplained, UnderReview
  <2>1. HasReason(t) /\ ~BeingSwept(t) /\ ~BeingClaimed(t)
    BY DEF ReasonInv, ReasonsKnown, BeingSwept, BeingClaimed, Busy
  <2> QED
    BY <2>1 DEF HasReason, StillOwed
<1> QED
  BY <1>1, ReasonInvariant, PTL

(* What the write phase promises on its own, it promises under the real     *)
(* callers and across restarts: the permit, the keys, the result "ok".     *)
THEOREM WritesUnderJobs ==
    JobSpec => [](WriteExclusive /\ OneRowPerKey /\ OkCoversBatch /\ HalfPostedIsFailure)
<1>1. JobInv => WriteExclusive /\ OneRowPerKey /\ OkCoversBatch
  BY DEF JobInv, JobTypeOK, WriteInv, PermitHeld, DoneIsKnown, OkCoversBatch
<1>2. JobInv => HalfPostedIsFailure
  <2> SUFFICES ASSUME JobInv, NEW p \in posted \ lined, result[p.run] = "ok"
               PROVE  p.attempt < attempt[p.run]
    BY DEF HalfPostedIsFailure
  <2>1. p.run \in Runs /\ NoResultYet /\ DispatchedOnce
    BY DEF JobInv, JobTypeOK, WriteInv, PersistTypeOK, Rows, DispatchInv
  <2>2. Explained(p) \/ co[p.run] = "none"
    BY DEF JobInv, RowInv, HalfRows
  <2>3. pc[p.run] \in {"release", "done"}
    BY <2>1 DEF NoResultYet
  <2> QED
    BY <2>1, <2>2, <2>3 DEF Explained, DispatchedOnce
<1> QED
  BY <1>1, <1>2, JobInvariant, PTL
=============================================================================
