--------------------------- MODULE OneSlot_proofs ---------------------------
(***************************************************************************)
(* What a server with one slot adds.  Runs are driven one after another,    *)
(* and a run whose thread is left behind has its transactions swept before  *)
(* it gives the slot back, so that the next claim cannot meet it.           *)
(***************************************************************************)
EXTENDS ProcessJob_proofs

(* A thread that nobody awaits any more has nothing that can be claimed.    *)
Abandoned ==
    \A r \in Runs : InFlight(r) /\ co[r] # "awaiting" =>
        \A t \in batch[r] : txStatus[t] \in {"POSTED", "ERROR"}

PostedStays == \A p \in posted : txStatus[p.tx] \in {"POSTED", "ERROR"}

(* What is selected is in nobody's hands and has no row.                    *)
Alone(t) == (\A s \in Runs : InFlight(s) => t \notin batch[s]) /\ (\A p \in posted : p.tx # t)
ClaimAlone == Busy({"start"}) => \A t \in loop.sel : Alone(t)

(* A row of a transaction that a thread has is the thread's own.            *)
RowInFlight == \A p \in posted, s \in Runs : InFlight(s) /\ p.tx \in batch[s] => s = p.run

SerialInv ==
    /\ Abandoned
    /\ PostedStays
    /\ ClaimAlone
    /\ RowInFlight
    /\ BatchesDisjoint
    /\ PostedByOneRun

-----------------------------------------------------------------------------
(* Two holders of the one slot are one.                                    *)
LEMMA OneHolder ==
    ASSUME SlotsInv, CoTypeOK, Slots = 1, NEW r \in Holders, NEW s \in Holders
    PROVE  r = s
<1>1. Holders \in SUBSET Runs /\ {r} \in SUBSET Runs /\ {r, s} \subseteq Holders
  BY DEF Holders
<1>2. Cardinality({r, s}) <= Cardinality(Holders) /\ Cardinality(Holders) \in Nat
  BY <1>1, SetFacts
<1>3. Cardinality(Holders) <= 1
  <2>1. freeSlots \in Nat /\ freeSlots + Cardinality(Holders) <= Slots
    BY DEF SlotsInv, CoTypeOK
  <2> HIDE DEF Holders
  <2> QED
    BY <1>2, <2>1
<1>4. s \notin {r} => Cardinality({r} \union {s}) = Cardinality({r}) + 1
  BY <1>1, SetFacts
<1>5. Cardinality({r}) = 1 /\ {r} \union {s} = {r, s}
  BY FS_Singleton
<1>6. s \notin {r} => Cardinality({r, s}) = 2
  BY <1>4, <1>5
<1>7. ~(2 <= 1)
  OBVIOUS
<1> HIDE DEF Holders
<1>8. ~(Cardinality({r, s}) = 2)
  BY <1>2, <1>3
<1> QED
  BY <1>6, <1>8

(* A thread that moves is in flight, and it is the only one that moves.     *)
LEMMA ThreadInFlight ==
    ASSUME PersistTypeOK, HasTx, NEW r \in Runs, ThreadStep(r)
    PROVE  /\ InFlight(r)
           /\ \A s \in Runs : pc'[s] \notin {"idle", "done"} => InFlight(s)
           /\ \A s \in Runs : pc[s] = "done" => pc'[s] = "done"
           /\ batch' = batch
           /\ \A t \in Txs : txStatus'[t] = txStatus[t] \/ txStatus'[t] = "POSTED"
           /\ \A p \in posted' : p \in posted \/ (p = RowOf(r) /\ pc[r] = "post" /\ txStatus'[p.tx] = "POSTED")
<1>1. InFlight(r)
  BY DEF InFlight, ThreadStep, AgentStep, AgentsReachPersist, AgentsStop,
     WriteStep, AcquireWrite, AcquireTimesOut, CheckCancelled, OpenBatch, NextTx,
     DupCheck, Post, PersistLines, CloseJob, CloseIngest, FailBatch, Rejected, ReleaseWrite,
     FaultStep, CheckFails, DupCheckFails, TransientFault
<1>2. batch' = batch /\ \A s \in Runs \ {r} : pc'[s] = pc[s]
  BY Footprint
<1>3. txStatus \in [Txs -> TxStatuses]
  BY DEF PersistTypeOK
<1>4. /\ \A t \in Txs : txStatus'[t] = txStatus[t] \/ txStatus'[t] = "POSTED"
      /\ \A p \in posted' : p \in posted \/ (p = RowOf(r) /\ pc[r] = "post" /\ txStatus'[p.tx] = "POSTED")
  BY <1>3, ThreadPosts DEF RowOf
<1> QED
  BY <1>1, <1>2, <1>4 DEF InFlight

-----------------------------------------------------------------------------
(* The threads.                                                            *)
LEMMA SerialThread ==
    ASSUME JobTypeOK, ClaimInv, SerialInv, NEW r \in Runs, Thread(r)
    PROVE  SerialInv'
<1>t. /\ PersistTypeOK /\ HasTx /\ ThreadStep(r) /\ loop' = loop /\ co' = co
      /\ loop # Idle => loop.run \in Runs /\ loop.sel \in SUBSET Txs
      /\ \A s \in Runs : batch[s] \in SUBSET Txs
      /\ \A p \in posted : p.run \in Runs /\ p.tx \in Txs
  BY LoopRunTyped, StatusTypes DEF JobTypeOK, WriteInv, PersistTypeOK, Rows, Thread, coVars
<1>m. /\ InFlight(r)
      /\ \A s \in Runs : pc'[s] \notin {"idle", "done"} => InFlight(s)
      /\ \A s \in Runs : pc[s] = "done" => pc'[s] = "done"
      /\ batch' = batch
      /\ \A t \in Txs : txStatus'[t] = txStatus[t] \/ txStatus'[t] = "POSTED"
      /\ \A p \in posted' : p \in posted \/ (p = RowOf(r) /\ pc[r] = "post" /\ txStatus'[p.tx] = "POSTED")
  BY <1>t, ThreadInFlight
<1>r. pc[r] = "post" => RowOf(r).tx \in batch[r] /\ RowOf(r).run = r /\ RowOf(r).tx = cur[r]
  BY DEF ClaimInv, BatchInv, WorksOnBatch, RowOf
<1>1. Abandoned'
  BY <1>t, <1>m DEF SerialInv, Abandoned, InFlight
<1>2. PostedStays'
  BY <1>t, <1>m DEF SerialInv, PostedStays
<1>3. ClaimAlone'
  <2> SUFFICES ASSUME Busy({"start"}), NEW t \in loop.sel
               PROVE  Alone(t)'
    BY <1>t DEF ClaimAlone, Busy
  <2>1. Alone(t)
    BY DEF SerialInv, ClaimAlone
  <2>2. t \notin batch[r]
    BY <1>m, <2>1 DEF Alone
  <2> QED
    BY <1>m, <1>r, <2>1, <2>2 DEF Alone, InFlight
<1>4. RowInFlight'
  <2> SUFFICES ASSUME NEW p \in posted', NEW s \in Runs, pc'[s] \notin {"idle", "done"}, p.tx \in batch[s]
               PROVE  s = p.run
    BY <1>m DEF RowInFlight, InFlight
  <2>1. InFlight(s)
    BY <1>m
  <2>2. CASE p \in posted
    BY <2>1, <2>2 DEF SerialInv, RowInFlight
  <2>3. CASE p \notin posted
    BY <1>m, <1>r, <2>1, <2>3 DEF SerialInv, BatchesDisjoint
  <2> QED
    BY <2>2, <2>3
<1>5. BatchesDisjoint'
  BY <1>m DEF SerialInv, BatchesDisjoint, InFlight
<1>6. PostedByOneRun'
  <2>1. \A p \in posted : pc[r] = "post" /\ p.tx = RowOf(r).tx => p.run = r
    BY <1>m, <1>r DEF SerialInv, RowInFlight
  <2> QED
    BY <1>m, <1>r, <2>1 DEF SerialInv, PostedByOneRun
<1> QED
  BY <1>1, <1>2, <1>3, <1>4, <1>5, <1>6 DEF SerialInv

-----------------------------------------------------------------------------
(* Handlers and coroutines.                                                *)
HandlerStep ==
    \/ \E t \in Txs : StageTransaction(t)
    \/ \E j \in Jobs : ProcessAccounting(j) \/ ConfirmAuditReview(j) \/ CancelRead(j)
    \/ LoopOnly
    \/ OrphanAcquires
    \/ \E r \in Runs : RunStep(r)
    \/ UNCHANGED jobVars

(* How a coroutine comes to leave its thread alone.                        *)
LEMMA LeavesThread ==
    ASSUME JobTypeOK, DispatchInv, HandlerStep,
           NEW r \in Runs, co[r] = "awaiting", co'[r] # "awaiting"
    PROVE  \/ Finish(r)
           \/ /\ loop # Idle /\ loop.run = r
              /\ \/ Chain
                 \/ SweepWrite /\ loop.op = "fail"
                 \/ MarkPendingFailed /\ loop.op = "late"
<1>t. co \in [Runs -> CoStates]
  BY DEF JobTypeOK, CoTypeOK
<1>f. /\ loop # Idle /\ loop.op = "start" => co[loop.run] = "ready"
      /\ \A j \in Jobs : jobStatus[j] = "NONE" => co[<<j, "first">>] = "none"
      /\ \A j \in Jobs : jobStatus[j] = "PENDING_AUDIT_REVIEW" => co[<<j, "force">>] = "none"
  BY NotDispatched DEF JobTypeOK, DispatchInv, LoopRun, Busy
<1>1. ~\E t \in Txs : StageTransaction(t)
  BY DEF StageTransaction, coVars
<1>2. ~\E j \in Jobs : ProcessAccounting(j) \/ ConfirmAuditReview(j) \/ CancelRead(j)
  BY <1>t, <1>f DEF ProcessAccounting, ConfirmAuditReview, CancelRead, Dispatch
<1>3. ~OrphanAcquires /\ ~UNCHANGED jobVars
  BY DEF OrphanAcquires, jobVars, coVars
<1>4. ASSUME NEW s \in Runs, RunStep(s) PROVE Finish(r)
  BY <1>4, <1>t DEF RunStep, AcquireSlot, SlotTimeout, StartEmpty, StartSelect, Timeout, Finish, EndRun
<1>5. CASE LoopOnly
  <2>1. ~(CancelWrite \/ StartMark \/ TimeoutStatus \/ MarkHead \/ SweepRead)
    BY DEF CancelWrite, StartMark, TimeoutStatus, MarkHead, SweepRead
  <2>2. ~(StartViaB \/ StartFails)
    BY <1>t, <1>f DEF StartViaB, StartFails, Doing, EndRun
  <2>3. CASE SweepWrite \/ MarkPendingFailed
    BY <1>t, <2>3 DEF SweepWrite, MarkPendingFailed, Doing, EndRun
  <2>4. CASE Chain
    BY <1>t, <1>f, <2>4 DEF Chain, Doing, EndRun
  <2> QED
    BY <1>5, <2>1, <2>2, <2>3, <2>4 DEF LoopOnly
<1> QED
  BY <1>1, <1>2, <1>3, <1>4, <1>5 DEF HandlerStep

(* A run is left alone when its transactions were swept.                   *)
LEMMA AbandonedHandler ==
    ASSUME JobTypeOK, DispatchInv, FrameInv, ClaimInv, SerialInv, HandlerStep
    PROVE  Abandoned'
<1>1. Forward /\ pc' = pc /\ batch' = batch
  BY ForwardStep, StatusStep DEF HandlerStep, StatusesOnly, threadVars, jobVars, persistVars
<1> SUFFICES ASSUME NEW r \in Runs, InFlight(r), co'[r] # "awaiting", NEW t \in batch[r]
             PROVE  txStatus'[t] \in {"POSTED", "ERROR"}
  BY <1>1 DEF Abandoned, InFlight
<1>t. /\ t \in Txs /\ txStatus[t] \in {"PROCESSING", "POSTED", "ERROR"}
      /\ t \in TxsOf(JobOf(r))
  BY StatusTypes DEF ClaimInv, BatchInv, Taken, TxStatuses, FrameInv, OwnDocument
<1>2. CASE txStatus[t] \in {"POSTED", "ERROR"}
  <2>1. ~(Busy({"start"}) /\ t \in loop.sel)
    BY DEF SerialInv, ClaimAlone, Alone
  <2> QED
    BY <1>1, <1>t, <1>2, <2>1 DEF Forward
<1>3. CASE txStatus[t] = "PROCESSING"
  <2>1. co[r] = "awaiting"
    BY <1>3 DEF SerialInv, Abandoned
  <2>2. ~Finish(r) /\ ~(loop # Idle /\ loop.run = r /\ Chain)
    BY DEF Finish, Chain, Doing, InFlight, FrameInv, ChainAfterOk, Busy
  <2>3. t \in WithStatus(JobOf(r), "PROCESSING")
    BY <1>t, <1>3 DEF WithStatus
  <2>4. CASE loop # Idle /\ loop.run = r /\ SweepWrite /\ loop.op = "fail"
    BY <1>t, <2>3, <2>4 DEF FrameInv, Swept, Busy, SweepWrite, Doing, MarkTxs
  <2>5. CASE loop # Idle /\ loop.run = r /\ MarkPendingFailed /\ loop.op = "late"
    BY <2>3, <2>5 DEF FrameInv, Swept, Busy, MarkPendingFailed, Doing
  <2> QED
    BY <2>1, <2>2, <2>4, <2>5, LeavesThread
<1> QED
  BY <1>t, <1>2, <1>3

(* What can be selected when the only slot is the selecting run's is in     *)
(* nobody's hands.                                                         *)
LEMMA ClaimableAlone ==
    ASSUME JobTypeOK, SlotsInv, SerialInv, Slots = 1, NEW r \in Runs, StartSelect(r),
           NEW t \in Claimable(r)
    PROVE  Alone(t)
<1>1. txStatus[t] \notin {"POSTED", "ERROR"}
  BY DEF Claimable, WithStatus
<1>2. ASSUME NEW s \in Runs, InFlight(s), co[s] = "awaiting" PROVE FALSE
  <2>1. r \in Holders /\ s \in Holders /\ co[r] = "ready"
    BY <1>2 DEF StartSelect, Holders
  <2>2. r = s
    BY <2>1, OneHolder DEF JobTypeOK
  <2> QED
    BY <1>2, <2>1, <2>2
<1>3. \A s \in Runs : InFlight(s) => t \notin batch[s]
  BY <1>1, <1>2 DEF SerialInv, Abandoned
<1> QED
  BY <1>1, <1>3 DEF SerialInv, PostedStays, Alone

(* What is selected stays in nobody's hands until it is launched.           *)
LEMMA ClaimHandler ==
    ASSUME JobTypeOK, SlotsInv, DispatchInv, SerialInv, Slots = 1,
           HandlerStep, [JobNext]_jobVars
    PROVE  ClaimAlone'
<1>h. pc' = pc /\ batch' = batch /\ posted' = posted
  BY StatusStep DEF HandlerStep, StatusesOnly, threadVars, jobVars, persistVars, dbVars
<1>a. \A t : Alone(t)' <=> Alone(t)
  BY <1>h DEF Alone, InFlight
<1>l. loop # Idle => loop \in Frames /\ loop.run \in Runs /\ loop.sel \in SUBSET Txs
  BY LoopRunTyped DEF JobTypeOK
<1>n. ASSUME ~Busy({"start"})' PROVE ClaimAlone'
  BY <1>n DEF ClaimAlone
<1>k. ASSUME loop' = loop PROVE ClaimAlone'
  BY <1>a, <1>k DEF SerialInv, ClaimAlone, Busy
<1>1. ASSUME NEW r \in Runs, StartSelect(r) PROVE ClaimAlone'
  <2>1. loop'.sel = Claimable(r)
    BY <1>1 DEF StartSelect, Frame
  <2>2. \A t \in Claimable(r) : Alone(t)
    BY <1>1, ClaimableAlone
  <2> QED
    BY <1>a, <2>1, <2>2 DEF ClaimAlone
<1>2. CASE StartMark
  <2>1. loop # Idle /\ loop.op = "start" /\ Proceed("launch", loop.sel) /\ "launch" \in Steps
    BY <1>2 DEF StartMark, Doing, Steps
  <2>2. loop'.sel = loop.sel
    BY <1>l, <2>1, ProceedFacts
  <2> QED
    BY <1>a, <2>1, <2>2 DEF SerialInv, ClaimAlone, Busy
<1>3. ASSUME \/ \E r \in Runs : Finish(r) \/ Timeout(r)
             \/ \E j \in Jobs : CancelRead(j)
      PROVE  ~Busy({"start"})'
  BY <1>3 DEF Finish, Timeout, CancelRead, EndRun, Frame, Busy
<1>4. CASE CancelWrite \/ TimeoutStatus \/ MarkHead \/ SweepRead \/ SweepWrite \/ MarkPendingFailed
  <2>1. loop # Idle /\ loop.op \in {"fail", "late", "cancel"}
    BY <1>4 DEF CancelWrite, TimeoutStatus, MarkHead, SweepRead, SweepWrite, MarkPendingFailed, Doing
  <2>2. loop' = Idle \/ \E step \in Steps, S \in SUBSET Txs : Proceed(step, S)
    BY <1>4 DEF CancelWrite, TimeoutStatus, MarkHead, SweepRead, SweepWrite, MarkPendingFailed,
       EndRun, Steps, WithStatus, TxsOf
  <2>3. loop' = Idle \/ loop'.op = loop.op
    BY <1>l, <2>1, <2>2, ProceedFacts
  <2> QED
    BY <1>n, <2>1, <2>3 DEF Busy
<1>5. CASE loop' = Idle
  BY <1>n, <1>5 DEF Busy
<1> QED
  BY <1>n, <1>k, <1>1, <1>2, <1>3, <1>4, <1>5, FrameMoves

(* What handlers and coroutines leave of the rest.                         *)
LEMMA SerialHandler ==
    ASSUME JobTypeOK, SlotsInv, DispatchInv, FrameInv, ClaimInv, SerialInv, Slots = 1,
           HandlerStep, [JobNext]_jobVars
    PROVE  SerialInv'
<1>h. Forward /\ pc' = pc /\ batch' = batch /\ posted' = posted
  BY ForwardStep, StatusStep DEF HandlerStep, StatusesOnly, threadVars, jobVars, persistVars, dbVars
<1>1. PostedStays'
  <2>1. \A p \in posted : p.tx \in Txs /\ ~(Busy({"start"}) /\ p.tx \in loop.sel)
    BY DEF SerialInv, ClaimAlone, Alone, JobTypeOK, WriteInv, PersistTypeOK, Rows
  <2> QED
    BY <1>h, <2>1 DEF SerialInv, PostedStays, Forward
<1>2. RowInFlight' /\ BatchesDisjoint' /\ PostedByOneRun'
  BY <1>h DEF SerialInv, RowInFlight, BatchesDisjoint, PostedByOneRun, InFlight
<1> QED
  BY <1>1, <1>2, ClaimHandler, AbandonedHandler DEF SerialInv

-----------------------------------------------------------------------------
(* A new thread gets what is in nobody's hands; a restart leaves none.     *)
LEMMA SerialLaunch ==
    ASSUME JobTypeOK, DispatchInv, SerialInv, StartLaunch
    PROVE  SerialInv'
<1>t. /\ loop # Idle /\ loop.run \in Runs /\ loop.op = "start"
      /\ batch \in [Runs -> SUBSET Txs] /\ pc \in [Runs -> PCs] /\ co \in [Runs -> CoStates]
  BY LoopRunTyped DEF StartLaunch, Doing, JobTypeOK, WriteInv, PersistTypeOK, CoTypeOK
<1>b. /\ batch' = [batch EXCEPT ![loop.run] = loop.sel]
      /\ pc' = [pc EXCEPT ![loop.run] = "agents"] /\ co' = [co EXCEPT ![loop.run] = "awaiting"]
      /\ posted' = posted /\ txStatus' = txStatus /\ loop' = Idle
  BY DEF StartLaunch, StartThread
<1>a. \A t \in loop.sel : Alone(t)
  BY <1>t DEF SerialInv, ClaimAlone, Busy
<1>s. \A s \in Runs : s # loop.run => batch'[s] = batch[s] /\ pc'[s] = pc[s] /\ co'[s] = co[s]
  BY <1>t, <1>b
<1>r. batch'[loop.run] = loop.sel /\ co'[loop.run] = "awaiting"
  BY <1>t, <1>b
<1>1. ClaimAlone'
  BY <1>b DEF ClaimAlone, Busy
<1>2. Abandoned'
  BY <1>b, <1>s, <1>r DEF SerialInv, Abandoned, InFlight
<1>3. PostedStays' /\ PostedByOneRun'
  BY <1>b DEF SerialInv, PostedStays, PostedByOneRun
<1>4. RowInFlight'
  BY <1>a, <1>b, <1>s, <1>r DEF SerialInv, RowInFlight, InFlight, Alone
<1>5. BatchesDisjoint'
  BY <1>a, <1>s, <1>r DEF SerialInv, BatchesDisjoint, InFlight, Alone
<1> QED
  BY <1>1, <1>2, <1>3, <1>4, <1>5 DEF SerialInv

LEMMA SerialCrash ==
    ASSUME SerialInv, Crash
    PROVE  SerialInv'
<1>1. /\ \A r \in Runs : pc'[r] = "idle" /\ batch'[r] = {}
      /\ posted' = posted /\ txStatus' = txStatus /\ loop' = Idle
  BY DEF Crash, dbVars
<1>2. ClaimAlone'
  BY <1>1 DEF ClaimAlone, Busy
<1>3. Abandoned' /\ RowInFlight' /\ BatchesDisjoint'
  BY <1>1 DEF Abandoned, RowInFlight, BatchesDisjoint, InFlight
<1>4. PostedStays' /\ PostedByOneRun'
  BY <1>1 DEF SerialInv, PostedStays, PostedByOneRun
<1> QED
  BY <1>2, <1>3, <1>4 DEF SerialInv

-----------------------------------------------------------------------------
(* The inductive invariant of a server with one slot.                      *)
LEMMA SerialInit == JobInit => SerialInv
BY DEF JobInit, LoopIdle, ThreadsIdle, SerialInv, Abandoned, PostedStays, ClaimAlone, RowInFlight, BatchesDisjoint, PostedByOneRun, InFlight, Busy

LEMMA SerialNext ==
    ASSUME Slots = 1
    PROVE  JobInv /\ FrameInv /\ SerialInv /\ [JobNext]_jobVars => SerialInv'
<1> SUFFICES ASSUME JobInv, FrameInv, SerialInv, [JobNext]_jobVars PROVE SerialInv'
  OBVIOUS
<1>t. JobTypeOK /\ SlotsInv /\ DispatchInv /\ ClaimInv
  BY DEF JobInv
<1>1. CASE HandlerStep
  BY <1>1, <1>t, SerialHandler
<1>2. CASE StartLaunch
  BY <1>2, <1>t, SerialLaunch
<1>3. CASE Crash
  BY <1>3, SerialCrash
<1>4. ASSUME NEW r \in Runs, Thread(r) PROVE SerialInv'
  BY <1>4, <1>t, SerialThread
<1> QED
  BY <1>1, <1>2, <1>3, <1>4, NextCases DEF HandlerStep

THEOREM OneSlotInvariant ==
    ASSUME Slots = 1
    PROVE  JobSpec => []SerialInv
<1>1. JobInv /\ FrameInv /\ SerialInv /\ [JobNext]_jobVars => SerialInv'
  BY SerialNext
<1>2. ReasonInv => FrameInv
  BY DEF ReasonInv
<1> QED
  BY <1>1, <1>2, SerialInit, JobInvariant, ReasonInvariant, PTL DEF JobSpec

(* With one slot no transaction is in two pipelines at once, confirmed      *)
(* reviews, late threads, cancelled jobs and restarts included.            *)
THEOREM OneSlotBatches ==
    ASSUME Slots = 1
    PROVE  JobSpec => []BatchesDisjoint
<1>1. SerialInv => BatchesDisjoint
  BY DEF SerialInv
<1> QED
  BY <1>1, OneSlotInvariant, PTL

(* With one slot no two runs post the same transaction, with or without a   *)
(* key.                                                                    *)
THEOREM OneSlotPosts ==
    ASSUME Slots = 1
    PROVE  JobSpec => []PostedByOneRun
<1>1. SerialInv => PostedByOneRun
  BY DEF SerialInv
<1> QED
  BY <1>1, OneSlotInvariant, PTL
=============================================================================
