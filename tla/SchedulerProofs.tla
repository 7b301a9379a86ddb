-------------------------- MODULE SchedulerProofs --------------------------
(***************************************************************************)
(* Proofs about the decoy worker's timer protocol (decoy.go 168-237), for  *)
(* every number of epochs, documents and contexts.                         *)
(***************************************************************************)
EXTENDS Scheduler, SurbLifecycleProofs

USE MaxEpochAssumption, MaxDocsAssumption, ConfigAssumption

\* The steps of the worker, one per code path through an iteration.
LEMMA WorkerKeepsTimerInv ==
  ASSUME TimerInv, Worker
  PROVE  TimerInv'
  <1> USE DEF TimerInv, NoStaleTick, DrainNeverBlocks, Pcs
  <1>1. CASE WorkerHalt
    BY <1>1 DEF WorkerHalt
  <1>2. CASE WorkerRecvDoc
    BY <1>2 DEF WorkerRecvDoc
  <1>3. CASE WorkerRecvTimer
    BY <1>3 DEF WorkerRecvTimer
  <1>4. CASE WorkerCheck
    BY <1>4 DEF WorkerCheck
  <1>5. CASE WorkerSend
    BY <1>5 DEF WorkerSend
  <1>6. CASE WorkerSweep
    BY <1>6 DEF WorkerSweep
  <1>7. CASE WorkerRearm
    BY <1>7 DEF WorkerRearm
  <1>8. CASE WorkerStopFailed
    BY <1>8 DEF WorkerStopFailed
  <1>9. CASE WorkerDrain
    BY <1>9 DEF WorkerDrain
  <1>10. QED
    BY <1>1, <1>2, <1>3, <1>4, <1>5, <1>6, <1>7, <1>8, <1>9 DEF Worker

\* The runtime, the PKI worker, the epoch, Halt, replies and the clock.
LEMMA EnvironmentKeepsTimerInv ==
  ASSUME TimerInv,
         \/ TimerExpire \/ OfferDocument \/ NextEpoch \/ Halt
         \/ CryptoRetire \/ ClockTick \/ UNCHANGED allVars
  PROVE  TimerInv'
  <1> USE DEF TimerInv, NoStaleTick, DrainNeverBlocks
  <1>1. CASE TimerExpire
    <2>1. timerArmed' \in BOOLEAN /\ timerFired' \in BOOLEAN
      BY <1>1, Zenon DEF TimerExpire
    <2>2. QED
      BY <1>1, <2>1 DEF TimerExpire
  <1>2. CASE OfferDocument \/ NextEpoch \/ Halt
    BY <1>2 DEF OfferDocument, NextEpoch, Halt, workerVars
  <1>3. CASE CryptoRetire \/ ClockTick \/ UNCHANGED allVars
    BY <1>3 DEF CryptoRetire, ClockTick, schedVars, allVars
  <1>4. QED
    BY <1>1, <1>2, <1>3

(***************************************************************************)
(* TimerInv holds in every reachable state of the worker and its           *)
(* environment: the runtime's expiry, the `continue` paths of a rejected   *)
(* document, and each step of an iteration keep tick and timer in step.    *)
(***************************************************************************)
THEOREM TimerInvHolds == SchedSpec => []TimerInv
  <1>1. SchedInit => TimerInv
    <2> SUFFICES ASSUME SchedInit PROVE TimerInv
      OBVIOUS
    <2>1. timerArmed \in BOOLEAN /\ timerFired \in BOOLEAN
      BY Zenon DEF SchedInit
    <2>2. QED
      BY <2>1 DEF SchedInit, TimerInv, NoStaleTick, DrainNeverBlocks, Pcs
  <1>2. TimerInv /\ [SchedNext]_allVars => TimerInv'
    BY WorkerKeepsTimerInv, EnvironmentKeepsTimerInv DEF SchedNext
  <1>3. QED
    BY <1>1, <1>2, PTL DEF SchedSpec

(***************************************************************************)
(* The drain <-timer.C at 235 never blocks the worker: when Stop fails and *)
(* the loop did not receive the tick itself, the tick is in the channel.   *)
(***************************************************************************)
THEOREM DrainNeverBlocksHolds == SchedSpec => []DrainNeverBlocks
  BY TimerInvHolds, PTL DEF TimerInv

(***************************************************************************)
(* timer.Reset at 237 never re-arms a timer whose channel still holds a    *)
(* tick, so no wake-up comes early from a stale tick.                      *)
(***************************************************************************)
THEOREM NoStaleTickHolds == SchedSpec => []NoStaleTick
  BY TimerInvHolds, PTL DEF TimerInv

----------------------------------------------------------------------------
(***************************************************************************)
(* Composition: the worker's send (sendLoopPacket's store) and sweep, the  *)
(* crypto worker's retire and the clock move the store only by its own     *)
(* locked operations, and none of them after a panic; every other step     *)
(* leaves it alone.  So the store inside the running subsystem behaves as  *)
(* LifecycleSpec, and what is proved of that holds here.                   *)
(***************************************************************************)
LEMMA SchedStepIsStoreStep == [SchedNext]_allVars => [LifecycleNext]_lifecycleVars
  <1> SUFFICES ASSUME [SchedNext]_allVars PROVE [LifecycleNext]_lifecycleVars
    OBVIOUS
  <1>1. CASE Worker /\ WorkerSend
    <2>1. ~panicked
      BY <1>1 DEF Worker
    <2>2. CASE \E d \in 1..MaxDelta : NewSURBCtx(d)
      BY <2>1, <2>2 DEF LifecycleNext
    <2>3. CASE UNCHANGED lifecycleVars
      BY <2>3
    <2>4. QED
      BY <1>1, <2>2, <2>3 DEF WorkerSend
  <1>2. CASE Worker /\ WorkerSweep
    BY <1>2 DEF Worker, WorkerSweep, LifecycleNext
  <1>3. CASE Worker /\ ~WorkerSend /\ ~WorkerSweep
    BY <1>3 DEF Worker, WorkerHalt, WorkerRecvDoc, WorkerRecvTimer, WorkerCheck,
                WorkerRearm, WorkerStopFailed, WorkerDrain
  <1>4. CASE TimerExpire \/ OfferDocument \/ NextEpoch \/ Halt
    BY <1>4 DEF TimerExpire, OfferDocument, NextEpoch, Halt
  <1>5. CASE CryptoRetire
    BY <1>5 DEF CryptoRetire, LifecycleNext
  <1>6. CASE ClockTick
    BY <1>6 DEF ClockTick, LifecycleNext
  <1>7. CASE UNCHANGED allVars
    BY <1>7 DEF allVars
  <1>8. QED
    BY <1>1, <1>2, <1>3, <1>4, <1>5, <1>6, <1>7 DEF SchedNext

\* The scheduler's behaviours, seen on the store's variables, are behaviours
\* of the store specification.
THEOREM SchedImplementsLifecycle == SchedSpec => LifecycleSpec
  <1>1. SchedInit => LifecycleInit
    BY DEF SchedInit
  <1>2. [][SchedNext]_allVars => [][LifecycleNext]_lifecycleVars
    BY SchedStepIsStoreStep, PTL
  <1>3. QED
    BY <1>1, <1>2, PTL DEF SchedSpec, LifecycleSpec

(***************************************************************************)
(* With ETAs that do not collide, the map and the AVL index stay in step   *)
(* while the worker sends and sweeps and OnPacket retires concurrently.    *)
(***************************************************************************)
THEOREM SchedStoreIndexBijection ==
  ASSUME DistinctEtas
  PROVE  SchedSpec => []StoreIndexBijection
  BY SchedImplementsLifecycle, StoreIndexBijectionHolds

\* With ETAs that do not collide, the store inside the running subsystem
\* implements the abstract set of live reply tokens.
THEOREM SchedTokensRefinement ==
  ASSUME DistinctEtas
  PROVE  SchedSpec => TokensRefinement
  BY SchedImplementsLifecycle, TokensRefinementHolds

----------------------------------------------------------------------------
\* The PKI side of the state (epochs, offered and cached documents, Halt)
\* and the wake intervals of the loop and of its timer.
DocsTypeOK ==
  /\ epoch \in Epochs
  /\ docOffer \in Epochs \cup {NoDoc}
  /\ docsOffered \in 0..MaxDocs
  /\ docCache \in Epochs \cup {NoDoc}
  /\ halted \in BOOLEAN
  /\ wakeInf \in BOOLEAN
  /\ timerInf \in BOOLEAN

LEMMA DocsTypeOKInductive ==
  ASSUME DocsTypeOK, [SchedNext]_allVars
  PROVE  DocsTypeOK'
  <1>1. CASE Worker
    <2>1. halted' \in BOOLEAN /\ wakeInf' \in BOOLEAN /\ timerInf' \in BOOLEAN
      BY <1>1, Zenon DEF Worker, WorkerHalt, WorkerRecvDoc, WorkerRecvTimer,
                         WorkerCheck, WorkerSend, WorkerSweep, WorkerRearm,
                         WorkerStopFailed, WorkerDrain, envVars, DocsTypeOK
    <2>2. QED
      BY <1>1, <2>1 DEF Worker, WorkerHalt, WorkerRecvDoc, WorkerRecvTimer,
                        WorkerCheck, WorkerSend, WorkerSweep, WorkerRearm,
                        WorkerStopFailed, WorkerDrain, envVars, DocsTypeOK
  <1>2. CASE Halt
    <2>1. halted' \in BOOLEAN /\ wakeInf' \in BOOLEAN /\ timerInf' \in BOOLEAN
      BY <1>2, Zenon DEF Halt, DocsTypeOK, workerVars
    <2>2. QED
      BY <1>2, <2>1 DEF Halt, DocsTypeOK, workerVars
  <1>3. CASE TimerExpire \/ OfferDocument \/ NextEpoch
    <2>1. halted' \in BOOLEAN /\ wakeInf' \in BOOLEAN /\ timerInf' \in BOOLEAN
      BY <1>3, Zenon DEF TimerExpire, OfferDocument, NextEpoch, envVars, workerVars, DocsTypeOK
    <2>2. QED
      BY <1>3, <2>1 DEF TimerExpire, OfferDocument, NextEpoch, envVars, workerVars,
                        DocsTypeOK, Epochs
  <1>4. CASE CryptoRetire \/ ClockTick \/ UNCHANGED allVars
    <2>1. halted' \in BOOLEAN /\ wakeInf' \in BOOLEAN /\ timerInf' \in BOOLEAN
      BY <1>4, Zenon DEF CryptoRetire, ClockTick, schedVars, allVars, DocsTypeOK
    <2>2. QED
      BY <1>4, <2>1 DEF CryptoRetire, ClockTick, schedVars, allVars, DocsTypeOK
  <1>5. QED
    BY <1>1, <1>2, <1>3, <1>4 DEF SchedNext

(***************************************************************************)
(* Every variable of the worker, its timer, the PKI side and the store     *)
(* keeps its type.                                                         *)
(***************************************************************************)
THEOREM SchedTypeCorrect == SchedSpec => []SchedTypeOK
  <1>1. SchedInit => DocsTypeOK
    <2>1. SchedInit => halted \in BOOLEAN /\ wakeInf \in BOOLEAN /\ timerInf \in BOOLEAN
      BY Zenon DEF SchedInit
    <2>2. QED
      BY <2>1 DEF SchedInit, DocsTypeOK, Epochs, NoDoc
  <1>2. SchedSpec => []DocsTypeOK
    BY <1>1, DocsTypeOKInductive, PTL DEF SchedSpec
  <1>3. SchedSpec => []TypeOK
    BY SchedImplementsLifecycle, TypeCorrect
  <1>4. TypeOK /\ DocsTypeOK /\ TimerInv => SchedTypeOK
    <2> SUFFICES ASSUME TypeOK, DocsTypeOK, TimerInv PROVE SchedTypeOK
      OBVIOUS
    <2>1. {halted, timerFired, wakeInf, timerArmed, timerInf} \subseteq BOOLEAN
      BY Zenon DEF DocsTypeOK, TimerInv
    <2>2. QED
      BY <2>1 DEF SchedTypeOK, DocsTypeOK, TimerInv
  <1>5. QED
    BY <1>2, <1>3, <1>4, TimerInvHolds, PTL

=============================================================================
