------------------------------ MODULE Scheduler ------------------------------
(***************************************************************************)
(* The decoy worker goroutine (worker, src/internal/decoy/decoy.go         *)
(* 161-239) composed with the SURB store it drives.  Each iteration waits  *)
(* in one select on the halt channel, the unbuffered document channel fed  *)
(* by OnNewDocument, and a timer; it then re-reads the PKI epoch, sends a  *)
(* decoy packet if the timer fired and a document for the epoch is cached, *)
(* sweeps, and re-arms the timer (Stop, drain, Reset).                     *)
(*                                                                         *)
(* The timer follows the Go 1.13 runtime (go.mod): an armed timer with a   *)
(* finite interval eventually expires and sends one tick into its channel  *)
(* C of capacity 1 without blocking; Stop disarms it and reports whether   *)
(* it was still armed; Reset re-arms it and leaves C as it is.  An         *)
(* interval of math.MaxInt64 ns never expires.  The crypto worker retires  *)
(* contexts concurrently (OnPacket), the PKI worker offers documents, the  *)
(* epoch and the monotonic clock advance, and Halt closes HaltCh.          *)
(***************************************************************************)
EXTENDS SurbLifecycle

CONSTANTS
  MaxEpoch,          \* last PKI epoch of the model
  MaxDocs,           \* documents the PKI worker hands over in a behaviour
  SendDecoyTraffic,  \* Config().Debug.SendDecoyTraffic
  IsProvider,        \* Config().Server.IsProvider
  NowCanFail         \* whether PKI().Now() may return an error

ASSUME MaxEpochAssumption == MaxEpoch \in Nat
ASSUME MaxDocsAssumption == MaxDocs \in Nat
ASSUME ConfigAssumption ==
  {SendDecoyTraffic, IsProvider, NowCanFail} \subseteq BOOLEAN

Epochs == 0..MaxEpoch
NoDoc == -1   \* docCache == nil; nothing pending on docCh

\* The outcomes PKI().Now() can have: TRUE is an error.
NowErrors == IF NowCanFail THEN BOOLEAN ELSE {FALSE}

VARIABLES
  epoch,        \* the epoch PKI().Now() reports
  docOffer,     \* epoch of the document OnNewDocument is blocked sending
  docsOffered,  \* documents handed to OnNewDocument so far
  halted,       \* HaltCh is closed
  pc,           \* where the worker is in its loop
  docCache,     \* epoch of the cached *pkicache.Entry, or NoDoc
  timerFired,   \* the local timerFired
  wakeInf,      \* wakeInterval is time.Duration(maxDuration)
  timerArmed,   \* the runtime timer is pending
  timerInf,     \* the interval it was last (re)set to is maxDuration
  timerC        \* ticks buffered in timer.C (capacity 1)

schedVars == <<epoch, docOffer, docsOffered, halted, pc, docCache, timerFired,
               wakeInf, timerArmed, timerInf, timerC>>
allVars == <<lifecycleVars, schedVars>>

\* The loop's variables, and those only the environment changes.
workerVars == <<pc, docCache, timerFired, wakeInf, timerArmed, timerInf, timerC>>
envVars == <<epoch, docsOffered, halted>>

----------------------------------------------------------------------------
(***************************************************************************)
(* The select (174-206).  Go picks among the ready cases at random.        *)
(***************************************************************************)
WorkerHalt ==
  /\ pc = "select" /\ halted
  /\ pc' = "done"
  /\ timerArmed' = FALSE     \* defer timer.Stop()
  /\ UNCHANGED <<timerInf, lifecycleVars, envVars, docOffer, docCache, timerFired, wakeInf,
                 timerC>>

\* A document is received; the four checks (179-200) each `continue` the
\* loop at once, skipping the re-arm; otherwise the document is cached.
WorkerRecvDoc ==
  /\ pc = "select" /\ docOffer # NoDoc
  /\ docOffer' = NoDoc
  /\ \E nowErr \in NowErrors :
       IF SendDecoyTraffic /\ ~nowErr /\ docOffer = epoch /\ ~IsProvider
         THEN /\ docCache' = docOffer
              /\ timerFired' = FALSE
              /\ pc' = "check"
         ELSE UNCHANGED <<docCache, timerFired, pc>>
  /\ UNCHANGED <<lifecycleVars, envVars, wakeInf, timerArmed, timerInf, timerC>>

WorkerRecvTimer ==
  /\ pc = "select" /\ timerC = 1
  /\ timerC' = 0
  /\ timerFired' = TRUE
  /\ pc' = "check"
  /\ UNCHANGED <<lifecycleVars, envVars, docOffer, docCache, wakeInf, timerArmed,
                 timerInf>>

(***************************************************************************)
(* 208-211: suspend unless PKI().Now() succeeds and the cached document is *)
(* for the current epoch.                                                  *)
(***************************************************************************)
WorkerCheck ==
  /\ pc = "check"
  /\ \E nowErr \in NowErrors :
       IF nowErr \/ docCache # epoch
         THEN wakeInf' = TRUE /\ pc' = "rearm"
         ELSE /\ pc' = IF timerFired THEN "send" ELSE "sweep"
              /\ UNCHANGED wakeInf
  /\ UNCHANGED <<lifecycleVars, envVars, docOffer, docCache, timerFired, timerArmed,
                 timerInf, timerC>>

\* Mutant: the packet is sent but the sweep of this iteration is skipped.
WorkerSendSkipsSweep ==
  /\ pc = "send"
  /\ pc' = "rearm"
  /\ \/ \E d \in 1..MaxDelta : NewSURBCtx(d)
     \/ UNCHANGED lifecycleVars
  /\ UNCHANGED <<envVars, docOffer, docCache, timerFired, wakeInf, timerArmed,
                 timerInf, timerC>>

(***************************************************************************)
(* 215: sendDecoyPacket.  sendLoopPacket stores one context, or returns    *)
(* before storing (no provider with a loop endpoint, path selection        *)
(* failed, maxAttempts paths over the timing budget).                      *)
(***************************************************************************)
WorkerSend ==
  /\ pc = "send"
  /\ pc' = "sweep"
  /\ \/ \E d \in 1..MaxDelta : NewSURBCtx(d)
     \/ UNCHANGED lifecycleVars
  /\ UNCHANGED <<envVars, docOffer, docCache, timerFired, wakeInf, timerArmed,
                 timerInf, timerC>>

\* 224-232: draw a finite wake interval, then sweepSURBCtxs.
\* Mutant: the wake interval is left at maxDuration after a sweep.
WorkerSweepNoReschedule ==
  /\ pc = "sweep"
  /\ SweepSURBCtxs
  /\ wakeInf' = TRUE
  /\ pc' = "rearm"
  /\ UNCHANGED <<now, nextCtx, ctxEta, envVars, docOffer, docCache, timerFired,
                 timerArmed, timerInf, timerC>>

WorkerSweep ==
  /\ pc = "sweep"
  /\ SweepSURBCtxs
  /\ wakeInf' = FALSE
  /\ pc' = "rearm"
  /\ UNCHANGED <<now, nextCtx, ctxEta, envVars, docOffer, docCache, timerFired,
                 timerArmed, timerInf, timerC>>

(***************************************************************************)
(* 234-237: if !timerFired && !timer.Stop() { <-timer.C };                 *)
(* timer.Reset(wakeInterval).  Stop returns false when the timer is no     *)
(* longer armed; the worker then blocks until C holds a tick.              *)
(***************************************************************************)
WorkerRearm ==
  /\ pc = "rearm"
  /\ timerFired \/ timerArmed
  /\ timerArmed' = TRUE
  /\ timerInf' = wakeInf
  /\ pc' = "select"
  /\ UNCHANGED <<lifecycleVars, envVars, docOffer, docCache, timerFired, wakeInf,
                 timerC>>

\* Mutant: timer.Stop() is called even when the loop received the tick.
WorkerStopFailedFired ==
  /\ pc = "rearm"
  /\ ~timerArmed
  /\ pc' = "drain"
  /\ UNCHANGED <<lifecycleVars, envVars, docOffer, docCache, timerFired, wakeInf,
                 timerArmed, timerInf, timerC>>

\* Mutant: Reset without draining the tick a failed Stop left in timer.C.
WorkerStopFailedNoDrain ==
  /\ pc = "rearm"
  /\ ~timerFired /\ ~timerArmed
  /\ timerArmed' = TRUE
  /\ timerInf' = wakeInf
  /\ pc' = "select"
  /\ UNCHANGED <<lifecycleVars, envVars, docOffer, docCache, timerFired, wakeInf,
                 timerC>>

WorkerStopFailed ==
  /\ pc = "rearm"
  /\ ~timerFired /\ ~timerArmed
  /\ pc' = "drain"
  /\ UNCHANGED <<lifecycleVars, envVars, docOffer, docCache, timerFired, wakeInf,
                 timerArmed, timerInf, timerC>>

WorkerDrain ==
  /\ pc = "drain" /\ timerC = 1
  /\ timerC' = 0
  /\ timerArmed' = TRUE
  /\ timerInf' = wakeInf
  /\ pc' = "select"
  /\ UNCHANGED <<lifecycleVars, envVars, docOffer, docCache, timerFired, wakeInf>>

\* A step of the worker goroutine; it never runs after a panic.
Worker ==
  /\ ~panicked
  /\ \/ WorkerHalt \/ WorkerRecvDoc \/ WorkerRecvTimer \/ WorkerCheck
     \/ WorkerSend \/ WorkerSweep
     \/ WorkerRearm \/ WorkerStopFailed \/ WorkerDrain

----------------------------------------------------------------------------
\* The Go runtime fires an armed timer whose interval is finite.
TimerExpire ==
  /\ timerArmed /\ ~timerInf
  /\ timerArmed' = FALSE
  /\ timerC' = 1
  /\ UNCHANGED <<lifecycleVars, envVars, docOffer, pc, docCache, timerFired, wakeInf,
                 timerInf>>

\* OnNewDocument: the PKI worker blocks on d.docCh <- ent.
OfferDocument ==
  /\ docOffer = NoDoc /\ docsOffered < MaxDocs
  /\ \E e \in Epochs : docOffer' = e
  /\ docsOffered' = docsOffered + 1
  /\ UNCHANGED <<lifecycleVars, epoch, halted, workerVars>>

NextEpoch ==
  /\ epoch < MaxEpoch
  /\ epoch' = epoch + 1
  /\ UNCHANGED <<lifecycleVars, docOffer, docsOffered, halted, workerVars>>

Halt ==
  /\ ~halted
  /\ halted' = TRUE
  /\ UNCHANGED <<lifecycleVars, epoch, docOffer, docsOffered, workerVars>>

\* OnPacket on the crypto worker retires a context it holds a reply for.
CryptoRetire ==
  /\ ~panicked
  /\ \E c \in Ctxs : LoadAndDeleteSURBCtx(c)
  /\ UNCHANGED <<now, nextCtx, ctxEta, schedVars>>

ClockTick ==
  /\ ~panicked
  /\ Tick
  /\ UNCHANGED schedVars

SchedInit ==
  /\ LifecycleInit
  /\ epoch = 0
  /\ docOffer = NoDoc
  /\ docsOffered = 0
  /\ halted = FALSE
  /\ pc = "select"
  /\ docCache = NoDoc
  /\ timerFired = FALSE
  /\ wakeInf = TRUE        \* time.NewTimer(maxDuration)
  /\ timerArmed = TRUE
  /\ timerInf = TRUE
  /\ timerC = 0

SchedNext ==
  \/ Worker
  \/ TimerExpire \/ OfferDocument \/ NextEpoch \/ Halt
  \/ CryptoRetire \/ ClockTick

(***************************************************************************)
(* Fairness: the worker goroutine keeps being scheduled, and the runtime   *)
(* fires an armed finite timer.  Go's select chooses uniformly among ready *)
(* cases, so a halt that stays ready at every select is eventually taken.  *)
(* The PKI worker, the epoch, the clock and replies get no fairness.       *)
(***************************************************************************)
SchedFairness ==
  /\ WF_allVars(Worker)
  /\ WF_allVars(TimerExpire)
  /\ SF_allVars(Worker /\ WorkerHalt)

SchedSpec == SchedInit /\ [][SchedNext]_allVars /\ SchedFairness

----------------------------------------------------------------------------
Pcs == {"select", "check", "send", "sweep", "rearm", "drain", "done"}

\* Every variable has its type.
SchedTypeOK ==
  /\ TypeOK
  /\ epoch \in Epochs
  /\ docOffer \in Epochs \cup {NoDoc}
  /\ docsOffered \in 0..MaxDocs
  /\ pc \in Pcs
  /\ docCache \in Epochs \cup {NoDoc}
  /\ {halted, timerFired, wakeInf, timerArmed, timerInf} \subseteq BOOLEAN
  /\ timerC \in 0..1

(***************************************************************************)
(* The drain at 235 never blocks: whenever timer.Stop() reports that the   *)
(* timer was no longer armed and the loop did not itself receive the tick, *)
(* the tick is waiting in timer.C.  Otherwise the worker would hang on     *)
(* <-timer.C for good, with decoy traffic, sweeps and Halt all stopped.    *)
(***************************************************************************)
DrainNeverBlocks == pc = "drain" => timerC = 1

(***************************************************************************)
(* No stale tick survives a re-arm: while the timer is armed its channel   *)
(* is empty, so the next wake-up comes a full wakeInterval after Reset and *)
(* not at once from a tick left over from the previous interval (the       *)
(* hazard spec 4.3 names for re-arming under a select).                    *)
(***************************************************************************)
NoStaleTick == timerArmed => timerC = 0

(***************************************************************************)
(* Why the drain is safe, as an inductive invariant: a tick is in timer.C  *)
(* exactly when the timer has expired and the loop has not received it.   *)
(* While the loop handles an iteration the timer is either the one it     *)
(* received (disarmed, C empty) or still the previous one (armed, or      *)
(* expired with its tick in C), so a failed Stop always finds the tick.   *)
(***************************************************************************)
TimerInv ==
  /\ pc \in Pcs /\ timerC \in 0..1 /\ timerFired \in BOOLEAN /\ timerArmed \in BOOLEAN
  /\ NoStaleTick
  /\ pc = "select" /\ ~timerArmed => timerC = 1
  /\ pc \in {"check", "send", "sweep", "rearm"} /\ timerFired => ~timerArmed /\ timerC = 0
  /\ pc \in {"check", "send", "sweep", "rearm"} /\ ~timerFired /\ ~timerArmed => timerC = 1
  /\ DrainNeverBlocks

\* A document for the current epoch is cached (the spec's "scheduled").
Scheduled == docCache # NoDoc /\ docCache = epoch

(***************************************************************************)
(* Spec 4.3, timer fires: while a document for the current epoch is        *)
(* cached the loop stays scheduled and keeps invoking the packet builder:  *)
(* it comes back to sendDecoyPacket unless the epoch rolls over, Halt is   *)
(* called or the process died.                                             *)
(***************************************************************************)
KeepsSending ==
  Scheduled ~> (pc = "send" \/ ~Scheduled \/ halted \/ panicked)

(***************************************************************************)
(* Spec 4.3 with P3: a context whose ETA plus slack has passed is removed  *)
(* from the store (by a sweep after a later wake-up, or by its reply)      *)
(* while the worker stays scheduled.                                       *)
(***************************************************************************)
SweepDue(c) == c \in surbStore /\ ctxEta[c] + Slack <= now

ExpiredEventuallySwept ==
  \A c \in Ctxs :
    (SweepDue(c) /\ Scheduled) ~> (c \notin surbStore \/ ~Scheduled \/ halted \/ panicked)

(***************************************************************************)
(* Spec 5: the worker observes the shutdown signal even while a wait is    *)
(* armed; after Halt it returns from worker (and stops its timer).         *)
(***************************************************************************)
HaltObserved == halted ~> (pc = "done" \/ panicked)

=============================================================================
