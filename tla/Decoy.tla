------------------------------- MODULE Decoy -------------------------------
(***************************************************************************)
(* The decoy subsystem around its SURB store (src/internal/decoy/          *)
(* decoy.go): the worker goroutine sends loop packets (sendLoopPacket      *)
(* stores a SURB context, then dispatches) and sweeps expired contexts,    *)
(* while the crypto worker delivers SURB replies to OnPacket, which        *)
(* retires the context and decrypts the payload.  The two goroutines meet  *)
(* only in the store, under its lock, so each call is one step and their   *)
(* steps interleave freely.  Replies travel a network that loses,          *)
(* duplicates and tampers with packets; the process may die (of a panic    *)
(* or otherwise) and be started again by New with an empty store.          *)
(*                                                                         *)
(* The recipient check compares against a random 64-byte recipient drawn   *)
(* by New: a reply passes it exactly when its context was issued by the    *)
(* current process (c \in issued).  A reply's payload decrypts with the    *)
(* context's sprpKey exactly when no hop tampered with it.                 *)
(***************************************************************************)
EXTENDS SurbLifecycle

CONSTANTS
  Bases,      \* values of surbIDBase, the Unix time at New
  MaxCopies   \* copies of one SURB's reply the network may hold at once

ASSUME BasesAssumption == Bases # {}
ASSUME MaxCopiesAssumption == MaxCopies \in Nat \ {0}

\* A reply in flight: the context whose SURB it used, and whether its
\* payload is the one the SURB's key encrypted.
Replies == [c : Ctxs, genuine : BOOLEAN]
Genuine(c) == [c |-> c, genuine |-> TRUE]
Tampered(c) == [c |-> c, genuine |-> FALSE]

VARIABLES
  surbIDBase,   \* d.surbIDBase
  issued,       \* contexts created since the last New (recipient matches)
  ctxBase,      \* ctxBase[c]: the base embedded in context c's SURB id
  net,          \* net[r]: copies of reply r in flight
  acceptCount,  \* history: replies accepted per context
  retired       \* history: contexts loadAndDeleteSURBCtx has returned

decoyVars == <<surbIDBase, issued, ctxBase, net, acceptCount, retired>>
vars == <<lifecycleVars, decoyVars>>

----------------------------------------------------------------------------
(***************************************************************************)
(* sendLoopPacket, from a path within the timing budget on.  makeSURBID    *)
(* prefixes the id with surbIDBase; the context is stored before the       *)
(* packet is built and dispatched.  If NewSURB fails the code goes on with *)
(* a nil SURB (no reply can come back); if NewPacket or packet.New fails   *)
(* nothing is dispatched; either way the context stays stored.  The paths  *)
(* that return before storing (no provider with a loop endpoint, path      *)
(* selection failure, maxAttempts paths over budget) change no state and   *)
(* are stuttering steps.                                                   *)
(***************************************************************************)
SendLoopPacket ==
  /\ ~panicked
  /\ \E d \in 1..MaxDelta, dispatched \in BOOLEAN :
       /\ NewSURBCtx(d)
       /\ ctxBase' = [ctxBase EXCEPT ![nextCtx] = surbIDBase]
       /\ issued' = issued \cup {nextCtx}
       /\ net' = IF dispatched /\ ~panicked'
                   THEN [net EXCEPT ![Genuine(nextCtx)] = 1]
                   ELSE net
  /\ UNCHANGED <<surbIDBase, acceptCount, retired>>

\* The worker's sweepSURBCtxs call after scheduling the next wake-up.
WorkerSweep ==
  /\ ~panicked
  /\ SweepSURBCtxs
  /\ UNCHANGED <<now, nextCtx, ctxEta, decoyVars>>

(***************************************************************************)
(* OnPacket: drop a reply for a foreign recipient or SURB id base, drop    *)
(* one whose id is not in the store; otherwise the context is retired      *)
(* (loadAndDeleteSURBCtx) before the payload is decrypted, and the reply   *)
(* is accepted if decryption authenticates.                                *)
(***************************************************************************)
Foreign(r) == r.c \notin issued \/ ctxBase[r.c] # surbIDBase

\* Mutant: the context is looked up but not deleted.
OnPacketPeek(r) ==
  /\ ~panicked
  /\ net[r] > 0
  /\ net' = [net EXCEPT ![r] = @ - 1]
  /\ \/ /\ Foreign(r) \/ r.c \notin surbStore
        /\ UNCHANGED <<storeVars, acceptCount, retired>>
     \/ /\ ~Foreign(r) /\ r.c \in surbStore
        /\ acceptCount' = IF r.genuine THEN [acceptCount EXCEPT ![r.c] = @ + 1]
                                       ELSE acceptCount
        /\ UNCHANGED <<storeVars, retired>>
  /\ UNCHANGED <<now, nextCtx, ctxEta, surbIDBase, issued, ctxBase>>

OnPacket(r) ==
  /\ ~panicked
  /\ net[r] > 0
  /\ net' = [net EXCEPT ![r] = @ - 1]
  /\ \/ /\ Foreign(r)
        /\ UNCHANGED <<storeVars, acceptCount, retired>>
     \/ /\ ~Foreign(r) /\ r.c \notin surbStore
        /\ UNCHANGED <<storeVars, acceptCount, retired>>
     \/ /\ ~Foreign(r)
        /\ LoadAndDeleteSURBCtx(r.c)
        /\ retired' = retired \cup {r.c}
        /\ acceptCount' = IF r.genuine /\ ~panicked'
                            THEN [acceptCount EXCEPT ![r.c] = @ + 1]
                            ELSE acceptCount
  /\ UNCHANGED <<now, nextCtx, ctxEta, surbIDBase, issued, ctxBase>>

----------------------------------------------------------------------------
(***************************************************************************)
(* The network duplicates a reply or a hop tampers with its payload.  A    *)
(* lost reply is one that is never delivered: OnPacket is never obliged to *)
(* take it, and dropping it changes nothing OnPacket's drops do not.       *)
(***************************************************************************)
InFlight(c) == net[Genuine(c)] + net[Tampered(c)]

DuplicateReply(r) ==
  /\ net[r] > 0 /\ InFlight(r.c) < MaxCopies
  /\ net' = [net EXCEPT ![r] = @ + 1]
  /\ UNCHANGED <<lifecycleVars, surbIDBase, issued, ctxBase, acceptCount, retired>>

TamperReply(c) ==
  /\ net[Genuine(c)] > 0
  /\ net' = [net EXCEPT ![Genuine(c)] = @ - 1, ![Tampered(c)] = @ + 1]
  /\ UNCHANGED <<lifecycleVars, surbIDBase, issued, ctxBase, acceptCount, retired>>

(***************************************************************************)
(* New: the process (re)starts with an empty map and tree, a fresh random  *)
(* recipient and surbIDBase = time.Now().Unix(), which may repeat a        *)
(* previous base within the same second or after a clock step.             *)
(***************************************************************************)
Restart ==
  /\ panicked
  /\ surbStore' = {}
  /\ surbETAs' = [k \in Times |-> <<>>]
  /\ nilNodes' = {}
  /\ etaNode' = [c \in Ctxs |-> NoNode]
  /\ panicked' = FALSE
  /\ issued' = {}
  /\ surbIDBase' \in Bases
  /\ UNCHANGED <<now, nextCtx, ctxEta, ctxBase, net, acceptCount, retired>>

Init ==
  /\ LifecycleInit
  /\ surbIDBase \in Bases
  /\ issued = {}
  /\ ctxBase = [c \in Ctxs |-> CHOOSE b \in Bases : TRUE]
  /\ net = [r \in Replies |-> 0]
  /\ acceptCount = [c \in Ctxs |-> 0]
  /\ retired = {}

Next ==
  \/ Tick /\ UNCHANGED decoyVars
  \/ SendLoopPacket
  \/ WorkerSweep
  \/ \E r \in Replies : OnPacket(r) \/ DuplicateReply(r)
  \/ \E c \in Ctxs : TamperReply(c)
  \/ Restart

Spec == Init /\ [][Next]_vars

----------------------------------------------------------------------------
\* Every variable has its type.
DecoyTypeOK ==
  /\ TypeOK
  /\ surbIDBase \in Bases
  /\ issued \subseteq Ctxs
  /\ ctxBase \in [Ctxs -> Bases]
  /\ net \in [Replies -> 0..MaxCopies]
  /\ acceptCount \in [Ctxs -> Nat]
  /\ retired \subseteq Ctxs

(***************************************************************************)
(* P5, retire-once, end to end: however the network duplicates a reply,    *)
(* and across restarts, OnPacket accepts at most one reply per SURB.       *)
(***************************************************************************)
AcceptedAtMostOnce == \A c \in Ctxs : acceptCount[c] <= 1

(***************************************************************************)
(* P6 with P3: while an untampered reply for a context of this process is  *)
(* in flight, the context has not been retired, and its ETA plus slack is  *)
(* still ahead, the context is in the store: sendLoopPacket stored it      *)
(* before dispatching and sweepSURBCtxs never takes it early.              *)
(***************************************************************************)
ReplyHasToken ==
  \A c \in issued :
    (net[Genuine(c)] > 0 /\ c \notin retired /\ now < ctxEta[c] + Slack)
      => c \in surbStore

(***************************************************************************)
(* P3 as a property of steps: a context leaves the store only when         *)
(* OnPacket retires it, when sweepSURBCtxs finds its ETA plus slack        *)
(* reached, or in a panic (and the restart after it).  sweepSURBCtxs must  *)
(* take only contexts whose own ETA plus slack has passed, also when two   *)
(* contexts collided on one node.                                          *)
(***************************************************************************)
DroppedOnlyWhenDue ==
  [][\A c \in surbStore \ surbStore' :
       c \in retired' \/ ctxEta[c] + Slack <= now \/ panicked]_vars

(***************************************************************************)
(* The inductive invariant behind AcceptedAtMostOnce and ReplyHasToken,    *)
(* with or without ETA collisions: replies in flight and acceptances name  *)
(* only allocated contexts and never more copies than the network holds;   *)
(* every context listed in a node has that node's key as its ETA (so a     *)
(* sweep takes no context before its own ETA plus slack); a context whose  *)
(* reply was accepted was accepted once and is no longer in the store.     *)
(***************************************************************************)
\* The network never holds more than MaxCopies replies of one SURB.
NetBounded == \A c \in Ctxs : InFlight(c) <= MaxCopies

\* A context not yet allocated has no reply in flight and no acceptance.
Unallocated == \A c \in Ctxs : c >= nextCtx => InFlight(c) = 0 /\ acceptCount[c] = 0

\* A node lists only allocated contexts of its own ETA, collisions included.
ListedAtOwnEta ==
  \A k \in Times, c \in Ctxs :
    InList(c, surbETAs[k]) => c < nextCtx /\ ctxEta[c] = k

\* An accepted context was accepted once and has left the store.
AcceptedRetired ==
  \A c \in Ctxs : acceptCount[c] # 0 => acceptCount[c] = 1 /\ c \notin surbStore

\* All of the above together with the type and ReplyHasToken.
DecoyInv ==
  /\ DecoyTypeOK
  /\ NetBounded
  /\ Unallocated
  /\ ListedAtOwnEta
  /\ AcceptedRetired
  /\ ReplyHasToken

=============================================================================
