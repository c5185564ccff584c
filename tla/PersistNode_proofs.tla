------------------------- MODULE PersistNode_proofs -------------------------
(***************************************************************************)
(* Theorems about the write phase, for any number of jobs, transactions,   *)
(* attempts and faults.  The inductive invariant says, besides the types,  *)
(* who holds the write permit, and what a thread between the duplicate     *)
(* guard and the post knows about the posted rows.                         *)
(***************************************************************************)
EXTENDS PersistNode, TLAPS

(* The row that the current attempt of a run posts.                        *)
RowOf(r) == [tx |-> cur[r], run |-> r, attempt |-> attempt[r]]

(* The permit is with the one thread that is in its write phase.           *)
PermitHeld ==
    /\ WriteExclusive
    /\ \A r \in Runs : pc[r] \in WritePhase => permits = 0

(* A thread that works on a transaction has one.                           *)
HasTx == \A r \in Runs : pc[r] \in {"dup", "post", "lines"} => cur[r] \in Txs

(* What the duplicate guard found still holds when the row is posted, as   *)
(* no other thread can post in between.                                    *)
KeyStillFree == \A r \in Runs : pc[r] = "post" => ~KnownKey(cur[r])

(* The row is there while its lines are not.                               *)
RowPosted == \A r \in Runs : pc[r] = "lines" => KnownRow(cur[r])

(* What a run is done with is known, by its row or by its key.             *)
DoneIsKnown ==
    \A r \in Runs : \A t \in batch[r] \ todo[r] : KnownRow(t) \/ KnownKey(t)

(* A row without lines is being completed, was left by an earlier attempt, *)
(* or made its run fail.                                                   *)
Explained(p) ==
    \/ pc[p.run] = "lines" /\ p = RowOf(p.run)
    \/ p.attempt < attempt[p.run]
    \/ pc[p.run] \in {"release", "done"} /\ result[p.run] = "error"

HalfPostedExplained == \A p \in posted \ lined : Explained(p)

(* A run has no result before its thread leaves the write phase.           *)
NoResultYet == \A r \in Runs : pc[r] \notin {"release", "done"} => result[r] = "none"

(* What holds whatever a restart does to the threads ...                   *)
WriteInv ==
    /\ PersistTypeOK
    /\ PermitHeld
    /\ HasTx
    /\ KeyStillFree
    /\ OneRowPerKey
    /\ RowPosted
    /\ DoneIsKnown
    /\ NoResultYet

(* ... and what holds without one.                                         *)
PersistInv == WriteInv /\ HalfPostedExplained

-----------------------------------------------------------------------------
(* What a step of one thread leaves alone.                                 *)
LEMMA Footprint ==
    ASSUME PersistTypeOK, NEW r \in Runs, ThreadStep(r)
    PROVE  /\ \A s \in Runs \ {r} :
                 /\ pc'[s] = pc[s] /\ cur'[s] = cur[s] /\ todo'[s] = todo[s]
                 /\ attempt'[s] = attempt[s] /\ result'[s] = result[s]
           /\ batch' = batch
           /\ lined \subseteq lined'
           /\ posted \subseteq posted'
           /\ pc[r] # "post" => posted' = posted
<1> USE DEF PersistTypeOK, dbVars, Leave, Goto, Advance
<1>1. CASE AgentStep(r)
  BY <1>1 DEF AgentStep, AgentsReachPersist, AgentsStop
<1>2. CASE WriteStep(r)
  <2>1. CASE AcquireWrite(r) \/ AcquireTimesOut(r) \/ CheckCancelled(r) \/ OpenBatch(r)
    BY <2>1 DEF AcquireWrite, AcquireTimesOut, CheckCancelled, OpenBatch
  <2>2. CASE NextTx(r) \/ DupCheck(r) \/ Post(r) \/ PersistLines(r)
    BY <2>2 DEF NextTx, DupCheck, Post, PersistLines
  <2>3. CASE CloseJob(r) \/ CloseIngest(r) \/ FailBatch(r) \/ ReleaseWrite(r)
    BY <2>3 DEF CloseJob, CloseIngest, FailBatch, ReleaseWrite
  <2> QED
    BY <1>2, <2>1, <2>2, <2>3 DEF WriteStep
<1>3. CASE FaultStep(r)
  BY <1>3 DEF FaultStep, CheckFails, DupCheckFails, TransientFault
<1> QED
  BY <1>1, <1>2, <1>3 DEF ThreadStep

(* A thread enters its write phase with the permit and leaves it by giving *)
(* the permit back; nothing else touches it.                               *)
LEMMA PermitMoves ==
    ASSUME PersistTypeOK, NEW r \in Runs, ThreadStep(r)
    PROVE  \/ /\ pc[r] \in WritePhase <=> pc'[r] \in WritePhase
              /\ permits' = permits
           \/ /\ pc[r] \notin WritePhase /\ pc'[r] \in WritePhase
              /\ permits = 1 /\ permits' = 0
           \/ /\ pc[r] \in WritePhase /\ pc'[r] \notin WritePhase
              /\ permits' = permits + 1
<1> USE DEF PersistTypeOK, WritePhase, Leave, Goto, Advance
<1>1. CASE AgentStep(r)
  BY <1>1 DEF AgentStep, AgentsReachPersist, AgentsStop
<1>2. CASE WriteStep(r)
  <2>1. CASE AcquireWrite(r) \/ AcquireTimesOut(r) \/ CheckCancelled(r) \/ OpenBatch(r)
    BY <2>1 DEF AcquireWrite, AcquireTimesOut, CheckCancelled, OpenBatch
  <2>2. CASE NextTx(r) \/ DupCheck(r) \/ Post(r) \/ PersistLines(r)
    BY <2>2 DEF NextTx, DupCheck, Post, PersistLines
  <2>3. CASE CloseJob(r) \/ CloseIngest(r) \/ FailBatch(r) \/ ReleaseWrite(r)
    BY <2>3 DEF CloseJob, CloseIngest, FailBatch, Rejected, ReleaseWrite
  <2> QED
    BY <1>2, <2>1, <2>2, <2>3 DEF WriteStep
<1>3. CASE FaultStep(r)
  BY <1>3 DEF FaultStep, CheckFails, DupCheckFails, TransientFault
<1> QED
  BY <1>1, <1>2, <1>3 DEF ThreadStep

(* Whatever a thread does, the permit is with the one thread in its write  *)
(* phase.                                                                  *)
LEMMA PermitStep ==
    ASSUME PersistTypeOK, PermitHeld, NEW r \in Runs, ThreadStep(r)
    PROVE  PermitHeld'
BY Footprint, PermitMoves DEF PermitHeld, WriteExclusive, PersistTypeOK

-----------------------------------------------------------------------------
(* Types                                                                   *)
LEMMA AgentType ==
    ASSUME PersistTypeOK, NEW r \in Runs, AgentStep(r)
    PROVE  PersistTypeOK'
BY DEF PersistTypeOK, AgentStep, AgentsReachPersist, AgentsStop, PCs, Results, dbVars

(* So do the steps of the write phase; the release of the permit needs to  *)
(* know that it was taken.                                                 *)
LEMMA WriteType ==
    ASSUME PersistTypeOK, PermitHeld, HasTx, NEW r \in Runs, WriteStep(r)
    PROVE  PersistTypeOK'
<1> USE DEF PersistTypeOK, dbVars, PCs, WritePhase, Results, Leave, Goto, Advance
<1>1. CASE AcquireWrite(r)
  BY <1>1 DEF AcquireWrite
<1>2. CASE AcquireTimesOut(r)
  BY <1>2 DEF AcquireTimesOut
<1>3. CASE CheckCancelled(r)
  BY <1>3 DEF CheckCancelled
<1>4. CASE OpenBatch(r)
  BY <1>4 DEF OpenBatch, Runs, JobOf, JobStatuses
<1>5. CASE NextTx(r)
  BY <1>5 DEF NextTx
<1>6. CASE DupCheck(r)
  BY <1>6 DEF DupCheck
<1>7. CASE Post(r)
  BY <1>7 DEF Post, HasTx, Rows, TxStatuses
<1>8. CASE PersistLines(r)
  BY <1>8 DEF PersistLines, HasTx, Rows
<1>9. CASE CloseJob(r)
  BY <1>9 DEF CloseJob, Runs, JobOf, JobStatuses
<1>10. CASE CloseIngest(r)
  BY <1>10 DEF CloseIngest
<1>11. CASE FailBatch(r)
  BY <1>11 DEF FailBatch, Runs, JobOf, JobStatuses
<1>12. CASE ReleaseWrite(r)
  <2>1. permits = 0
    BY <1>12 DEF ReleaseWrite, PermitHeld
  <2> QED
    BY <1>12, <2>1 DEF ReleaseWrite
<1> QED
  BY <1>1, <1>2, <1>3, <1>4, <1>5, <1>6, <1>7, <1>8, <1>9, <1>10, <1>11, <1>12 DEF WriteStep

(* So do the faults: a retry never goes beyond the last attempt.           *)
LEMMA FaultType ==
    ASSUME PersistTypeOK, NEW r \in Runs, FaultStep(r)
    PROVE  PersistTypeOK'
<1> USE FaultsAssumption DEF PersistTypeOK, dbVars, PCs, WritePhase, Results, Leave, Goto
<1>1. CASE CheckFails(r)
  BY <1>1 DEF CheckFails
<1>2. CASE DupCheckFails(r)
  BY <1>2 DEF DupCheckFails
<1>3. CASE TransientFault(r)
  BY <1>3, AttemptsAssumption DEF TransientFault
<1> QED
  BY <1>1, <1>2, <1>3 DEF FaultStep

-----------------------------------------------------------------------------
(* What a thread knows about its transaction.                              *)
LEMMA HasTxStep ==
    ASSUME PersistTypeOK, HasTx, NEW r \in Runs, ThreadStep(r)
    PROVE  HasTx'
<1>1. pc'[r] \in {"dup", "post", "lines"} => cur'[r] \in Txs
  <2> USE DEF PersistTypeOK, HasTx, Leave, Goto, Advance
  <2>1. CASE AgentStep(r)
    BY <2>1 DEF AgentStep, AgentsReachPersist, AgentsStop
  <2>2. CASE WriteStep(r)
    BY <2>2 DEF WriteStep, AcquireWrite, AcquireTimesOut, CheckCancelled, OpenBatch,
       NextTx, DupCheck, Post, PersistLines, CloseJob, CloseIngest, FailBatch, ReleaseWrite
  <2>3. CASE FaultStep(r)
    BY <2>3 DEF FaultStep, CheckFails, DupCheckFails, TransientFault
  <2> QED
    BY <2>1, <2>2, <2>3 DEF ThreadStep
<1> QED
  BY <1>1, Footprint DEF HasTx

(* Only Post writes rows, and it writes the row of its own transaction.    *)
LEMMA PostsOwnRow ==
    ASSUME PersistTypeOK, NEW r \in Runs, ThreadStep(r), pc[r] = "post"
    PROVE  \/ posted' = posted
           \/ /\ posted' = posted \union {RowOf(r)}
              /\ pc'[r] = "lines" /\ cur'[r] = cur[r]
BY DEF ThreadStep, AgentStep, AgentsReachPersist, AgentsStop,
   WriteStep, AcquireWrite, AcquireTimesOut, CheckCancelled, OpenBatch, NextTx,
   DupCheck, Post, PersistLines, CloseJob, CloseIngest, FailBatch, Rejected, ReleaseWrite,
   FaultStep, CheckFails, DupCheckFails, TransientFault, dbVars, PersistTypeOK, RowOf

(* The guard passed, or the thread was there already.                      *)
LEMMA ReachesPost ==
    ASSUME PersistTypeOK, NEW r \in Runs, ThreadStep(r), pc'[r] = "post"
    PROVE  pc[r] = "dup" /\ cur'[r] = cur[r] /\ ~KnownKey(cur[r])
BY DEF ThreadStep, AgentStep, AgentsReachPersist, AgentsStop,
   WriteStep, AcquireWrite, AcquireTimesOut, CheckCancelled, OpenBatch, NextTx,
   DupCheck, Post, PersistLines, CloseJob, CloseIngest, FailBatch, ReleaseWrite,
   FaultStep, CheckFails, DupCheckFails, TransientFault, dbVars, PersistTypeOK,
   Leave, Goto, Advance

(* What the guard of one thread found is not overtaken by a post of        *)
(* another.                                                                *)
LEMMA KeyStillFreeStep ==
    ASSUME PersistTypeOK, PermitHeld, KeyStillFree, NEW r \in Runs, ThreadStep(r)
    PROVE  KeyStillFree'
<1> SUFFICES ASSUME NEW s \in Runs, pc'[s] = "post" PROVE ~KnownKey(cur[s])'
  BY DEF KeyStillFree
<1>1. CASE s = r
  BY <1>1, ReachesPost, Footprint DEF KnownKey
<1>2. CASE s # r
  <2>1. pc[s] = "post" /\ cur'[s] = cur[s]
    BY <1>2, Footprint
  <2>2. pc[r] # "post"
    BY <1>2, <2>1 DEF PermitHeld, WriteExclusive, WritePhase
  <2> QED
    BY <2>1, <2>2, Footprint DEF KeyStillFree, KnownKey
<1> QED
  BY <1>1, <1>2

(* The row that a step adds has a key of its own.                          *)
LEMMA OneRowStep ==
    ASSUME PersistTypeOK, KeyStillFree, OneRowPerKey, NEW r \in Runs, ThreadStep(r)
    PROVE  OneRowPerKey'
<1>1. CASE posted' = posted
  BY <1>1 DEF OneRowPerKey
<1>2. CASE posted' # posted
  <2>1. pc[r] = "post" /\ posted' = posted \union {RowOf(r)}
    BY <1>2, Footprint, PostsOwnRow
  <2>2. \A p \in posted : ~SameKey(cur[r], p.tx) /\ ~SameKey(p.tx, cur[r])
    BY <2>1 DEF KeyStillFree, KnownKey, SameKey
  <2>3. RowOf(r).tx = cur[r]
    BY DEF RowOf
  <2> QED
    BY <2>1, <2>2, <2>3 DEF OneRowPerKey
<1> QED
  BY <1>1, <1>2

-----------------------------------------------------------------------------
(* What a run is done with.                                                *)
Known(t) == KnownRow(t) \/ KnownKey(t)

(* Rows are never removed, so what is known stays known.                   *)
LEMMA KnownGrows ==
    ASSUME posted \subseteq posted', NEW t, Known(t)
    PROVE  Known(t)'
BY DEF Known, KnownRow, KnownKey

(* A thread writes lines only for the row it has just posted.              *)
LEMMA RowPostedStep ==
    ASSUME PersistTypeOK, RowPosted, NEW r \in Runs, ThreadStep(r)
    PROVE  RowPosted'
<1>1. ASSUME NEW s \in Runs \ {r}, pc'[s] = "lines" PROVE KnownRow(cur[s])'
  BY <1>1, Footprint DEF RowPosted, KnownRow
<1>2. pc'[r] = "lines" => Post(r)
  BY DEF ThreadStep, AgentStep, AgentsReachPersist, AgentsStop,
     WriteStep, AcquireWrite, AcquireTimesOut, CheckCancelled, OpenBatch, NextTx,
     DupCheck, PersistLines, CloseJob, CloseIngest, FailBatch, ReleaseWrite,
     FaultStep, CheckFails, DupCheckFails, TransientFault, dbVars, PersistTypeOK,
     Leave, Goto, Advance
<1>3. Post(r) => KnownRow(cur[r])'
  <2>1. RowOf(r).tx = cur[r]
    BY DEF RowOf
  <2>2. Post(r) => RowOf(r) \in posted' /\ cur'[r] = cur[r]
    BY DEF Post, RowOf
  <2> QED
    BY <2>1, <2>2 DEF KnownRow
<1> QED
  BY <1>1, <1>2, <1>3 DEF RowPosted

(* A step takes a transaction off the list when its row is posted or its   *)
(* key is known; no other step but OpenBatch, which fills it, touches it.  *)
LEMMA TodoShrinks ==
    ASSUME PersistTypeOK, RowPosted, NEW r \in Runs, ThreadStep(r)
    PROVE  \/ todo'[r] = todo[r]
           \/ todo'[r] = batch[r]
           \/ todo'[r] = todo[r] \ {cur[r]} /\ Known(cur[r])
<1> USE DEF PersistTypeOK, dbVars, Leave, Goto, Advance
<1>1. CASE AgentStep(r)
  BY <1>1 DEF AgentStep, AgentsReachPersist, AgentsStop
<1>2. CASE WriteStep(r)
  <2>1. CASE AcquireWrite(r) \/ AcquireTimesOut(r) \/ CheckCancelled(r) \/ OpenBatch(r)
    BY <2>1 DEF AcquireWrite, AcquireTimesOut, CheckCancelled, OpenBatch
  <2>2. CASE DupCheck(r)
    BY <2>2 DEF DupCheck, Known
  <2>3. CASE PersistLines(r)
    BY <2>3 DEF PersistLines, Known, RowPosted
  <2>4. CASE NextTx(r) \/ Post(r)
    BY <2>4 DEF NextTx, Post
  <2>5. CASE CloseJob(r) \/ CloseIngest(r) \/ FailBatch(r) \/ ReleaseWrite(r)
    BY <2>5 DEF CloseJob, CloseIngest, FailBatch, ReleaseWrite
  <2> QED
    BY <1>2, <2>1, <2>2, <2>3, <2>4, <2>5 DEF WriteStep
<1>3. CASE FaultStep(r)
  BY <1>3 DEF FaultStep, CheckFails, DupCheckFails, TransientFault
<1> QED
  BY <1>1, <1>2, <1>3 DEF ThreadStep

(* No step is done with a transaction that left no trace.                  *)
LEMMA DoneIsKnownStep ==
    ASSUME PersistTypeOK, RowPosted, DoneIsKnown, NEW r \in Runs, ThreadStep(r)
    PROVE  DoneIsKnown'
<1> SUFFICES ASSUME NEW s \in Runs, NEW t \in batch'[s] \ todo'[s] PROVE Known(t)'
  BY DEF DoneIsKnown, Known
<1>1. SUFFICES Known(t)
  BY Footprint, KnownGrows
<1>2. CASE t \notin todo[s]
  BY <1>2, Footprint DEF DoneIsKnown, Known
<1>3. CASE t \in todo[s]
  <2>1. s = r
    BY <1>3, Footprint
  <2>2. t = cur[r] /\ Known(cur[r])
    BY <1>3, <2>1, Footprint, TodoShrinks
  <2> QED
    BY <2>2
<1> QED
  BY <1>2, <1>3

-----------------------------------------------------------------------------
(* Rows without lines.  A row of the thread that moves was explained       *)
(* before, or is the one it has just posted; either way it is explained    *)
(* where the thread is now.                                                *)
LEMMA OwnRowExplained ==
    ASSUME PersistTypeOK, HasTx, NEW r \in Runs, ThreadStep(r),
           NEW p \in posted' \ lined', p.run = r,
           p \in posted \ lined => Explained(p)
    PROVE  \/ pc'[r] = "lines" /\ p = RowOf(r)'
           \/ p.attempt < attempt'[r]
           \/ pc'[r] \in {"release", "done"} /\ result'[r] = "error"
<1> USE DEF PersistTypeOK, Explained, RowOf, dbVars, Leave, Goto, Advance
<1>1. CASE AgentStep(r)
  BY <1>1 DEF AgentStep, AgentsReachPersist, AgentsStop
<1>2. CASE WriteStep(r)
  <2>1. CASE AcquireWrite(r) \/ AcquireTimesOut(r) \/ CheckCancelled(r) \/ OpenBatch(r)
    BY <2>1 DEF AcquireWrite, AcquireTimesOut, CheckCancelled, OpenBatch
  <2>2. CASE NextTx(r) \/ DupCheck(r)
    BY <2>2 DEF NextTx, DupCheck
  <2>3. CASE Post(r)
    BY <2>3 DEF Post
  <2>4. CASE PersistLines(r)
    BY <2>4 DEF PersistLines
  <2>5. CASE CloseJob(r) \/ CloseIngest(r)
    BY <2>5 DEF CloseJob, CloseIngest
  <2>6. CASE FailBatch(r) \/ ReleaseWrite(r)
    BY <2>6 DEF FailBatch, ReleaseWrite
  <2> QED
    BY <1>2, <2>1, <2>2, <2>3, <2>4, <2>5, <2>6 DEF WriteStep
<1>3. CASE FaultStep(r)
  BY <1>3 DEF FaultStep, CheckFails, DupCheckFails, TransientFault, Rows
<1> QED
  BY <1>1, <1>2, <1>3 DEF ThreadStep

(* A row whose own thread moves, or whose thread does not, stays explained. *)
LEMMA RowStaysExplained ==
    ASSUME PersistTypeOK, HasTx, NEW r \in Runs, ThreadStep(r),
           NEW p \in posted' \ lined', p.run \in Runs,
           p \in posted \ lined => Explained(p)
    PROVE  Explained(p)'
<1>1. CASE p.run = r
  BY <1>1, OwnRowExplained DEF Explained
<1>2. CASE p.run # r
  <2>1. p \in posted \ lined
    BY <1>2, Footprint, PostsOwnRow DEF RowOf
  <2> QED
    BY <1>2, <2>1, Footprint DEF Explained, RowOf
<1> QED
  BY <1>1, <1>2

(* Every row without lines stays explained.                                *)
LEMMA HalfPostedStep ==
    ASSUME PersistTypeOK, PersistTypeOK', HasTx, HalfPostedExplained,
           NEW r \in Runs, ThreadStep(r)
    PROVE  HalfPostedExplained'
<1> SUFFICES ASSUME NEW p \in posted' \ lined' PROVE Explained(p)'
  BY DEF HalfPostedExplained
<1>1. p.run \in Runs
  BY DEF PersistTypeOK, Rows
<1>2. p \in posted \ lined => Explained(p)
  BY DEF HalfPostedExplained
<1> QED
  BY <1>1, <1>2, RowStaysExplained

(* No step of the write phase but the last sets a result.                  *)
LEMMA NoResultStep ==
    ASSUME PersistTypeOK, NoResultYet, NEW r \in Runs, ThreadStep(r)
    PROVE  NoResultYet'
<1>1. pc'[r] \notin {"release", "done"} => result'[r] = "none"
  <2> USE DEF PersistTypeOK, NoResultYet, Leave, Goto, Advance
  <2>1. CASE AgentStep(r)
    BY <2>1 DEF AgentStep, AgentsReachPersist, AgentsStop
  <2>2. CASE WriteStep(r)
    BY <2>2 DEF WriteStep, AcquireWrite, AcquireTimesOut, CheckCancelled, OpenBatch,
       NextTx, DupCheck, Post, PersistLines, CloseJob, CloseIngest, FailBatch, ReleaseWrite
  <2>3. CASE FaultStep(r)
    BY <2>3 DEF FaultStep, CheckFails, DupCheckFails, TransientFault
  <2> QED
    BY <2>1, <2>2, <2>3 DEF ThreadStep
<1> QED
  BY <1>1, Footprint DEF NoResultYet

-----------------------------------------------------------------------------
(* The invariant                                                           *)
LEMMA InitInv ==
    ASSUME ThreadsIdle, posted = {}, lined = {}, faults = MaxFaults,
           jobStatus \in [Jobs -> JobStatuses], txStatus \in [Txs -> TxStatuses]
    PROVE  PersistInv
<1>1. PersistTypeOK
  BY AttemptsAssumption, FaultsAssumption
     DEF ThreadsIdle, PersistTypeOK, PCs, Results
<1>2. \A r \in Runs : pc[r] = "idle" /\ batch[r] = {} /\ result[r] = "none"
  BY DEF ThreadsIdle
<1> QED
  BY <1>1, <1>2 DEF PersistInv, WriteInv, PermitHeld, WriteExclusive, WritePhase, HasTx,
     KeyStillFree, RowPosted, DoneIsKnown, HalfPostedExplained, NoResultYet, OneRowPerKey

(* Every step of a thread keeps it, whoever the callers are.               *)
LEMMA ThreadStepWrite ==
    ASSUME WriteInv, NEW r \in Runs, ThreadStep(r)
    PROVE  WriteInv'
<1>1. PersistTypeOK'
  BY AgentType, WriteType, FaultType DEF WriteInv, ThreadStep
<1>2. PermitHeld'
  BY PermitStep DEF WriteInv
<1>3. HasTx'
  BY HasTxStep DEF WriteInv
<1>4. KeyStillFree' /\ OneRowPerKey'
  BY KeyStillFreeStep, OneRowStep DEF WriteInv
<1>5. RowPosted' /\ DoneIsKnown'
  BY RowPostedStep, DoneIsKnownStep DEF WriteInv
<1>6. NoResultYet'
  BY NoResultStep DEF WriteInv
<1> QED
  BY <1>1, <1>2, <1>3, <1>4, <1>5, <1>6 DEF WriteInv

THEOREM ThreadStepInv ==
    ASSUME PersistInv, NEW r \in Runs, ThreadStep(r)
    PROVE  PersistInv'
<1>1. WriteInv'
  BY ThreadStepWrite DEF PersistInv
<1>2. HalfPostedExplained'
  BY <1>1, HalfPostedStep DEF PersistInv, WriteInv
<1> QED
  BY <1>1, <1>2 DEF PersistInv

(* The callers start idle threads ...                                      *)
LEMMA StartKeeps ==
    ASSUME WriteInv, NEW r \in Runs, NEW B \in SUBSET Txs, StartThread(r, B),
           posted' = posted, lined' = lined, faults' = faults,
           jobStatus' \in [Jobs -> JobStatuses], txStatus' \in [Txs -> TxStatuses]
    PROVE  WriteInv' /\ (HalfPostedExplained => HalfPostedExplained')
<1>1. PersistTypeOK'
  BY DEF WriteInv, PersistTypeOK, StartThread, PCs
<1>2. \A s \in Runs : /\ pc'[s] = pc[s] \/ pc'[s] = "agents"
                      /\ cur'[s] = cur[s]
                      /\ batch'[s] \ todo'[s] \subseteq batch[s] \ todo[s]
  BY DEF WriteInv, PersistTypeOK, StartThread
<1>3. permits' = permits
  BY DEF StartThread
<1>4. PermitHeld' /\ HasTx'
  BY <1>2, <1>3 DEF WriteInv, PermitHeld, WriteExclusive, WritePhase, HasTx
<1>5. KeyStillFree' /\ OneRowPerKey' /\ RowPosted' /\ DoneIsKnown'
  BY <1>2 DEF WriteInv, KeyStillFree, OneRowPerKey, RowPosted, DoneIsKnown, KnownKey, KnownRow
<1>6. NoResultYet'
  BY <1>1, <1>2 DEF WriteInv, NoResultYet, StartThread, PersistTypeOK
<1>7. HalfPostedExplained => HalfPostedExplained'
  BY <1>1, <1>2 DEF WriteInv, HalfPostedExplained, Explained, RowOf, StartThread, PersistTypeOK, Rows
<1> QED
  BY <1>1, <1>4, <1>5, <1>6, <1>7 DEF WriteInv

(* ... or write statuses.                                                  *)
LEMMA StatusKeeps ==
    ASSUME WriteInv, UNCHANGED threadVars, posted' = posted, lined' = lined,
           faults' \in 0..MaxFaults,
           jobStatus' \in [Jobs -> JobStatuses], txStatus' \in [Txs -> TxStatuses]
    PROVE  WriteInv' /\ (HalfPostedExplained => HalfPostedExplained')
BY DEF threadVars, WriteInv, PersistTypeOK, PermitHeld, WriteExclusive, HasTx,
   KeyStillFree, OneRowPerKey, RowPosted, DoneIsKnown, KnownKey, KnownRow,
   HalfPostedExplained, Explained, RowOf, NoResultYet

(* Every step of the system keeps the invariant.                           *)
LEMMA NextInv == PersistInv /\ [PersistNext]_persistVars => PersistInv'
<1> SUFFICES ASSUME PersistInv, [PersistNext]_persistVars PROVE PersistInv'
  OBVIOUS
<1>t. /\ jobStatus \in [Jobs -> JobStatuses] /\ txStatus \in [Txs -> TxStatuses]
      /\ faults \in 0..MaxFaults
  BY DEF PersistInv, WriteInv, PersistTypeOK
<1>1. ASSUME NEW j \in Jobs, NEW B \in SUBSET Txs \ {{}}, SubmitFirst(j, B)
      PROVE  PersistInv'
  BY <1>1, <1>t, StartKeeps DEF PersistInv, SubmitFirst, Runs, JobStatuses, TxStatuses
<1>2. ASSUME NEW j \in Jobs, SubmitForced(j) PROVE PersistInv'
  <2>1. batch[<<j, "first">>] \in SUBSET Txs
    BY DEF PersistInv, WriteInv, PersistTypeOK, Runs
  <2> QED
    BY <1>2, <1>t, <2>1, StartKeeps DEF PersistInv, SubmitForced, Runs, JobStatuses
<1>3. ASSUME NEW j \in Jobs, UserCancels(j) PROVE PersistInv'
  BY <1>3, <1>t, StatusKeeps DEF PersistInv, UserCancels, JobStatuses
<1>4. ASSUME NEW r \in Runs, ThreadStep(r) PROVE PersistInv'
  BY <1>4, ThreadStepInv
<1>5. CASE UNCHANGED persistVars
  BY <1>5, <1>t, StatusKeeps DEF PersistInv, persistVars, dbVars
<1> QED
  BY <1>1, <1>2, <1>3, <1>4, <1>5 DEF PersistNext, CallerStep

(* The inductive invariant holds in every behaviour: retries, faults,      *)
(* timeouts, cancellations and forced runs in any order.                   *)
THEOREM PersistInvariant == PersistSpec => []PersistInv
<1>1. PersistInit => PersistInv
  BY InitInv DEF PersistInit, JobStatuses, TxStatuses
<1> QED
  BY <1>1, NextInv, PTL DEF PersistSpec

(* The variables of the write phase keep their types: in particular the    *)
(* semaphore never counts more than its one permit.                        *)
THEOREM TypeCorrect == PersistSpec => []PersistTypeOK
<1>1. PersistInv => PersistTypeOK
  BY DEF PersistInv, WriteInv
<1> QED
  BY <1>1, PersistInvariant, PTL

(* The write permit is exclusive, for any number of threads, attempts,     *)
(* faults and timeouts.                                                    *)
THEOREM Exclusion == PersistSpec => []WriteExclusive
<1>1. PersistInv => WriteExclusive
  BY DEF PersistInv, WriteInv, PermitHeld
<1> QED
  BY <1>1, PersistInvariant, PTL

(* No natural key is ever posted twice.                                    *)
THEOREM NoDuplicates == PersistSpec => []OneRowPerKey
<1>1. PersistInv => OneRowPerKey
  BY DEF PersistInv, WriteInv
<1> QED
  BY <1>1, PersistInvariant, PTL

(* A run that reports "ok" accounts for each transaction it is done with.  *)
THEOREM OkIsHonest == PersistSpec => []OkCoversBatch
<1>1. PersistInv => OkCoversBatch
  BY DEF PersistInv, WriteInv, DoneIsKnown, OkCoversBatch
<1> QED
  BY <1>1, PersistInvariant, PTL

(* An attempt that ends well leaves no row of its own without lines.       *)
THEOREM NoHalfPosting == PersistSpec => []HalfPostedIsFailure
<1>1. PersistInv => HalfPostedIsFailure
  BY DEF PersistInv, WriteInv, HalfPostedExplained, Explained, NoResultYet,
     HalfPostedIsFailure, PersistTypeOK, Rows
<1> QED
  BY <1>1, PersistInvariant, PTL
=============================================================================
