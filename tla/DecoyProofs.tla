---------------------------- MODULE DecoyProofs ----------------------------
(***************************************************************************)
(* Proofs about the decoy subsystem around its store (Decoy.tla), for      *)
(* every value of the constants and with or without colliding ETAs: the    *)
(* invariant DecoyInv holds in every reachable state, and with it          *)
(* AcceptedAtMostOnce and ReplyHasToken.                                   *)
(***************************************************************************)
EXTENDS Decoy, SurbLifecycleProofs

USE MaxCtxAssumption, MaxTimeAssumption, MaxDeltaAssumption, SlackAssumption,
    DistinctEtasAssumption, BasesAssumption, MaxCopiesAssumption

\* Replies to distinct contexts, and the two payloads of one, are distinct.
LEMMA ReplyRecords ==
  ASSUME NEW c \in Ctxs, NEW c2 \in Ctxs
  PROVE  /\ Genuine(c) \in Replies /\ Tampered(c) \in Replies
         /\ Genuine(c) # Tampered(c2)
         /\ Genuine(c) = Genuine(c2) => c = c2
         /\ Tampered(c) = Tampered(c2) => c = c2
         /\ Genuine(c).c = c /\ Tampered(c).c = c
  BY DEF Genuine, Tampered, Replies

\* A context is listed in a list with one more element appended exactly
\* when it is the element or was listed before.
LEMMA AppendInList ==
  ASSUME NEW l \in Seq(Ctxs), NEW c \in Ctxs, NEW x
  PROVE  InList(x, Append(l, c)) <=> InList(x, l) \/ x = c
  <1>1. DOMAIN Append(l, c) = 1..(Len(l) + 1)
    BY AppendProperties
  <1>2. \A i \in 1..Len(l) : Append(l, c)[i] = l[i]
    BY AppendProperties
  <1>3. Append(l, c)[Len(l) + 1] = c
    BY AppendProperties
  <1>4. DOMAIN l = 1..Len(l)
    OBVIOUS
  <1>5. QED
    BY <1>1, <1>2, <1>3, <1>4 DEF InList, Range

----------------------------------------------------------------------------
LEMMA InitDecoyInv == Init => DecoyInv
  <1> SUFFICES ASSUME Init PROVE DecoyInv
    OBVIOUS
  <1>1. TypeOK
    BY InitTypeOK DEF Init
  <1>2. DecoyTypeOK
    <2>1. ctxBase \in [Ctxs -> Bases]
      BY DEF Init
    <2>2. net \in [Replies -> 0..MaxCopies] /\ acceptCount \in [Ctxs -> Nat]
      BY DEF Init
    <2>3. QED
      BY <1>1, <2>1, <2>2 DEF Init, DecoyTypeOK
  <1>3. \A c \in Ctxs : InFlight(c) = 0 /\ acceptCount[c] = 0
    BY ReplyRecords DEF Init, InFlight
  <1>4. ListedAtOwnEta
    BY EmptyList DEF Init, LifecycleInit, ListedAtOwnEta
  <1>5. QED
    BY <1>2, <1>3, <1>4 DEF DecoyInv, NetBounded, Unallocated, AcceptedRetired,
                          ReplyHasToken, Init


(***************************************************************************)
(* sendLoopPacket stores the fresh context nextCtx, then dispatches its    *)
(* reply only if the store did not panic.                                  *)
(***************************************************************************)
LEMMA SendKeepsDecoyInv ==
  ASSUME DecoyInv, SendLoopPacket
  PROVE  DecoyInv'
  <1>0. PICK d \in 1..MaxDelta, dispatched \in BOOLEAN :
        /\ NewSURBCtx(d)
        /\ ctxBase' = [ctxBase EXCEPT ![nextCtx] = surbIDBase]
        /\ issued' = issued \cup {nextCtx}
        /\ net' = IF dispatched /\ ~panicked'
                    THEN [net EXCEPT ![Genuine(nextCtx)] = 1]
                    ELSE net
    BY DEF SendLoopPacket
  <1> USE <1>0
  <1> DEFINE c0 == nextCtx
             eta == now + d
  <1>1. /\ c0 \in Ctxs /\ eta \in Times /\ ~panicked
        /\ nextCtx' = c0 + 1 /\ now' = now
        /\ ctxEta' = [ctxEta EXCEPT ![c0] = eta]
        /\ UNCHANGED <<surbIDBase, acceptCount, retired>>
    <2>1. ~panicked /\ UNCHANGED <<surbIDBase, acceptCount, retired>>
      BY DEF SendLoopPacket
    <2>2. nextCtx' = c0 + 1 /\ now' = now /\ ctxEta' = [ctxEta EXCEPT ![c0] = eta]
      BY DEF NewSURBCtx
    <2>3. c0 \in Ctxs /\ eta \in Times
      BY DEF NewSURBCtx, DecoyInv, DecoyTypeOK, TypeOK, Ctxs, Times
    <2>4. QED
      BY <2>1, <2>2, <2>3
  <1>2. TypeOK'
    BY <1>1, NextTypeOK DEF LifecycleNext, DecoyInv, DecoyTypeOK
  <1>3. \/ /\ panicked'
           /\ UNCHANGED <<surbStore, surbETAs>>
        \/ /\ ~panicked'
           /\ surbETAs' = [surbETAs EXCEPT ![eta] = Append(@, c0)]
           /\ surbStore' = surbStore \cup {c0}
    BY <1>1 DEF NewSURBCtx, StoreSURBCtx, Panic
  <1>4. net[Genuine(c0)] = 0 /\ net[Tampered(c0)] = 0
    <2>1. InFlight(c0) = 0
      BY <1>1 DEF DecoyInv, Unallocated, Ctxs
    <2>2. net[Genuine(c0)] \in Nat /\ net[Tampered(c0)] \in Nat
      BY <1>1, ReplyRecords DEF DecoyInv, DecoyTypeOK
    <2>3. QED
      BY <2>1, <2>2 DEF InFlight
  <1>7. \A c \in Ctxs \ {c0} : /\ net'[Genuine(c)] = net[Genuine(c)]
                                /\ net'[Tampered(c)] = net[Tampered(c)]
    BY <1>1, ReplyRecords DEF DecoyInv, DecoyTypeOK
  <1>8. /\ net'[Tampered(c0)] = 0
        /\ net'[Genuine(c0)] \in 0..1
        /\ net'[Genuine(c0)] > 0 => ~panicked' /\ c0 \in surbStore'
    BY <1>1, <1>3, <1>4, ReplyRecords DEF DecoyInv, DecoyTypeOK
  <1>11. DecoyTypeOK'
    <2>1. net' \in [Replies -> 0..MaxCopies]
      BY <1>0, <1>1, ReplyRecords DEF DecoyInv, DecoyTypeOK
    <2>2. ctxBase' \in [Ctxs -> Bases] /\ issued' \subseteq Ctxs
      BY <1>0, <1>1 DEF DecoyInv, DecoyTypeOK
    <2>3. QED
      BY <1>1, <1>2, <2>1, <2>2 DEF DecoyInv, DecoyTypeOK
  <1>12. NetBounded' /\ Unallocated'
    BY <1>1, <1>7, <1>8 DEF DecoyInv, NetBounded, Unallocated, InFlight, Ctxs
  <1>13. ListedAtOwnEta'
    <2> SUFFICES ASSUME NEW k \in Times, NEW c \in Ctxs, InList(c, surbETAs'[k])
                 PROVE  c < nextCtx' /\ ctxEta'[c] = k
      BY DEF ListedAtOwnEta
    <2>1. CASE InList(c, surbETAs[k])
      <3>1. c < nextCtx /\ ctxEta[c] = k
        BY <2>1 DEF DecoyInv, ListedAtOwnEta
      <3>2. QED
        BY <3>1, <1>1 DEF DecoyInv, DecoyTypeOK, TypeOK
    <2>2. CASE ~InList(c, surbETAs[k])
      <3>1. k = eta /\ surbETAs'[k] = Append(surbETAs[k], c0)
        BY <2>2, <1>3, <1>1 DEF DecoyInv, DecoyTypeOK, TypeOK
      <3>2. surbETAs[k] \in Seq(Ctxs)
        BY DEF DecoyInv, DecoyTypeOK, TypeOK
      <3>3. InList(c, surbETAs'[k]) <=> InList(c, surbETAs[k]) \/ c = c0
        BY <3>1, <3>2, <1>1, AppendInList
      <3>4. c = c0
        BY <2>2, <3>3
      <3>5. QED
        BY <3>1, <3>4, <1>1 DEF DecoyInv, DecoyTypeOK, TypeOK
    <2>3. QED
      BY <2>1, <2>2
  <1>14. AcceptedRetired'
    <2> SUFFICES ASSUME NEW c \in Ctxs, acceptCount[c] # 0
                 PROVE  acceptCount[c] = 1 /\ c \notin surbStore'
      BY <1>1 DEF AcceptedRetired
    <2>1. c # c0
      BY <1>1 DEF DecoyInv, Unallocated, DecoyTypeOK, TypeOK, Ctxs
    <2>2. QED
      BY <2>1, <1>3 DEF DecoyInv, AcceptedRetired
  <1>15. ReplyHasToken'
    <2> SUFFICES ASSUME NEW c \in issued', net'[Genuine(c)] > 0, c \notin retired',
                        now' < ctxEta'[c] + Slack
                 PROVE  c \in surbStore'
      BY DEF ReplyHasToken
    <2>1. CASE c = c0
      BY <2>1, <1>8
    <2>2. CASE c # c0
      <3>1. c \in issued /\ c \in Ctxs
        BY <2>2, <1>0, <1>1 DEF DecoyInv, DecoyTypeOK
      <3>2. c \in surbStore
        BY <2>2, <3>1, <1>1, <1>7 DEF DecoyInv, ReplyHasToken
      <3>3. QED
        BY <3>2, <1>3
    <2>3. QED
      BY <2>1, <2>2
  <1>16. QED
    BY <1>11, <1>12, <1>13, <1>14, <1>15 DEF DecoyInv


(***************************************************************************)
(* A step that only empties nodes (a retire, a sweep, a restart) keeps     *)
(* every listed context at its own ETA.                                    *)
(***************************************************************************)
LEMMA EmptyingKeepsListed ==
  ASSUME ListedAtOwnEta, TypeOK,
         \A k \in Times : surbETAs'[k] = surbETAs[k] \/ surbETAs'[k] = <<>>,
         UNCHANGED <<nextCtx, ctxEta>>
  PROVE  ListedAtOwnEta'
  <1> SUFFICES ASSUME NEW k \in Times, NEW c \in Ctxs, InList(c, surbETAs'[k])
               PROVE  c < nextCtx' /\ ctxEta'[c] = k
    BY DEF ListedAtOwnEta
  <1>1. surbETAs'[k] # <<>>
    BY EmptyList
  <1>2. QED
    BY <1>1 DEF ListedAtOwnEta

\* The sweep either panics, changing nothing, or removes from the map the
\* contexts listed in expired nodes and empties those nodes.
LEMMA SweepShape ==
  ASSUME SweepSURBCtxs, ~panicked
  PROVE  \/ /\ panicked'
            /\ UNCHANGED <<surbStore, surbETAs>>
         \/ /\ ~panicked'
            /\ surbStore' = {c \in surbStore : \A k \in Expired : ~InList(c, surbETAs[k])}
            /\ surbETAs' = [k \in Times |-> IF k \in Expired THEN <<>> ELSE surbETAs[k]]
  BY DEF SweepSURBCtxs, Panic

\* A retire either panics, changing nothing, or removes the context from
\* the map and empties one node.
LEMMA LoadAndDeleteShape ==
  ASSUME TypeOK, NEW c \in Ctxs, LoadAndDeleteSURBCtx(c), ~panicked
  PROVE  \/ /\ panicked'
            /\ UNCHANGED <<surbStore, surbETAs>>
         \/ /\ ~panicked'
            /\ c \in surbStore
            /\ surbStore' = surbStore \ {c}
            /\ \E k \in Times : surbETAs' = [surbETAs EXCEPT ![k] = <<>>]
  <1> DEFINE k == etaNode[c]
  <1>1. k # NoNode => k \in Times
    BY DEF TypeOK
  <1>2. QED
    BY <1>1 DEF LoadAndDeleteSURBCtx, Panic

----------------------------------------------------------------------------
\* The worker's sweep takes only contexts whose ETA plus slack has passed.
LEMMA SweepKeepsDecoyInv ==
  ASSUME DecoyInv, WorkerSweep
  PROVE  DecoyInv'
  <1>1. ~panicked /\ SweepSURBCtxs /\ UNCHANGED <<now, nextCtx, ctxEta, decoyVars>>
    BY DEF WorkerSweep
  <1>2. TypeOK'
    BY <1>1, NextTypeOK DEF LifecycleNext, DecoyInv, DecoyTypeOK
  <1>3. \/ /\ panicked'
           /\ UNCHANGED <<surbStore, surbETAs>>
        \/ /\ ~panicked'
           /\ surbStore' = {c \in surbStore : \A k \in Expired : ~InList(c, surbETAs[k])}
           /\ surbETAs' = [k \in Times |-> IF k \in Expired THEN <<>> ELSE surbETAs[k]]
    BY <1>1, SweepShape
  <1>4. surbStore' \subseteq surbStore
    BY <1>3
  <1>5. ListedAtOwnEta'
    BY <1>1, <1>3, EmptyingKeepsListed DEF DecoyInv, DecoyTypeOK
  <1>6. ReplyHasToken'
    <2> SUFFICES ASSUME NEW c \in issued', net'[Genuine(c)] > 0, c \notin retired',
                        now' < ctxEta'[c] + Slack
                 PROVE  c \in surbStore'
      BY DEF ReplyHasToken
    <2>1. c \in surbStore /\ c \in Ctxs
      BY <1>1 DEF DecoyInv, ReplyHasToken, DecoyTypeOK, decoyVars
    <2>2. ASSUME NEW k \in Expired PROVE ~InList(c, surbETAs[k])
      <3>1. k \in Times /\ k + Slack <= now
        BY DEF Expired, Nodes, DecoyInv, DecoyTypeOK, TypeOK
      <3>2. QED
        BY <2>1, <3>1, <1>1 DEF DecoyInv, ListedAtOwnEta, DecoyTypeOK, TypeOK, Times
    <2>3. QED
      BY <2>1, <2>2, <1>3
  <1>7. QED
    BY <1>1, <1>2, <1>4, <1>5, <1>6
       DEF DecoyInv, DecoyTypeOK, NetBounded, Unallocated, AcceptedRetired,
           InFlight, decoyVars

\* A clock tick only brings ETAs closer.
LEMMA TickKeepsDecoyInv ==
  ASSUME DecoyInv, Tick, UNCHANGED decoyVars
  PROVE  DecoyInv'
  <1>1. TypeOK'
    BY DEF DecoyInv, DecoyTypeOK, TypeOK, Tick
  <1>2. DecoyTypeOK' /\ NetBounded' /\ Unallocated' /\ ListedAtOwnEta'
        /\ AcceptedRetired'
    BY <1>1 DEF DecoyInv, DecoyTypeOK, NetBounded, Unallocated, ListedAtOwnEta,
                AcceptedRetired, InFlight, Tick, decoyVars
  <1>3. ReplyHasToken'
    <2> SUFFICES ASSUME NEW c \in issued', net'[Genuine(c)] > 0, c \notin retired',
                        now' < ctxEta'[c] + Slack
                 PROVE  c \in surbStore'
      BY DEF ReplyHasToken
    <2>1. c \in issued /\ net[Genuine(c)] > 0 /\ c \notin retired
      BY DEF decoyVars
    <2>2. c \in Ctxs /\ now' = now + 1 /\ ctxEta' = ctxEta /\ surbStore' = surbStore
      BY <2>1 DEF Tick, DecoyInv, DecoyTypeOK
    <2>3. now < ctxEta[c] + Slack
      BY <2>2 DEF DecoyInv, DecoyTypeOK, TypeOK, Times
    <2>4. QED
      BY <2>1, <2>2, <2>3 DEF DecoyInv, ReplyHasToken
  <1>4. QED
    BY <1>2, <1>3 DEF DecoyInv


(***************************************************************************)
(* OnPacket takes one copy of a reply off the network; when it retires the *)
(* context, that context was in the store and so had no acceptance yet.    *)
(***************************************************************************)
LEMMA OnPacketKeepsDecoyInv ==
  ASSUME DecoyInv, NEW r \in Replies, OnPacket(r)
  PROVE  DecoyInv'
  <1>1. /\ ~panicked /\ net[r] > 0 /\ net' = [net EXCEPT ![r] = @ - 1]
        /\ UNCHANGED <<now, nextCtx, ctxEta, surbIDBase, issued, ctxBase>>
    BY DEF OnPacket
  <1>2. r.c \in Ctxs /\ r.genuine \in BOOLEAN
    BY DEF Replies
  <1>3. /\ net' \in [Replies -> 0..MaxCopies]
        /\ \A q \in Replies : net'[q] <= net[q]
    BY <1>1 DEF DecoyInv, DecoyTypeOK
  <1>4. \A c \in Ctxs : InFlight(c)' <= InFlight(c) /\ InFlight(c)' \in Nat
    <2> SUFFICES ASSUME NEW c \in Ctxs
                 PROVE  InFlight(c)' <= InFlight(c) /\ InFlight(c)' \in Nat
      OBVIOUS
    <2>1. Genuine(c) \in Replies /\ Tampered(c) \in Replies
      BY ReplyRecords
    <2>2. /\ net'[Genuine(c)] \in Nat /\ net'[Genuine(c)] <= net[Genuine(c)]
          /\ net'[Tampered(c)] \in Nat /\ net'[Tampered(c)] <= net[Tampered(c)]
          /\ net[Genuine(c)] \in Nat /\ net[Tampered(c)] \in Nat
      BY <2>1, <1>3 DEF DecoyInv, DecoyTypeOK
    <2>3. QED
      BY <2>2 DEF InFlight
  <1>9. NetBounded' /\ \A c \in Ctxs : c >= nextCtx => InFlight(c)' = 0
    <2>1. ASSUME NEW c \in Ctxs
          PROVE  /\ InFlight(c)' <= MaxCopies
                 /\ c >= nextCtx => InFlight(c)' = 0
      <3>1. InFlight(c) <= MaxCopies /\ (c >= nextCtx => InFlight(c) = 0)
        BY DEF DecoyInv, NetBounded, Unallocated
      <3>2. InFlight(c)' <= InFlight(c) /\ InFlight(c)' \in Nat
        BY <1>4
      <3>3. InFlight(c) \in Nat
        BY ReplyRecords DEF InFlight, DecoyInv, DecoyTypeOK
      <3>4. QED
        BY <3>1, <3>2, <3>3, MaxCopiesAssumption
    <2>2. QED
      BY <2>1 DEF NetBounded
  <1>5. CASE UNCHANGED <<storeVars, acceptCount, retired>>
    <2>1. DecoyTypeOK'
      BY <1>1, <1>3, <1>5 DEF DecoyInv, DecoyTypeOK, TypeOK, storeVars
    <2>5. Unallocated'
      BY <1>1, <1>5, <1>9 DEF DecoyInv, Unallocated
    <2>2. ListedAtOwnEta' /\ AcceptedRetired'
      BY <1>1, <1>5 DEF DecoyInv, ListedAtOwnEta, AcceptedRetired, storeVars
    <2>3. ReplyHasToken'
      BY <1>1, <1>3, <1>5, ReplyRecords
         DEF DecoyInv, DecoyTypeOK, ReplyHasToken, storeVars
    <2>4. QED
      BY <2>1, <2>2, <2>3, <2>5, <1>9 DEF DecoyInv
  <1>6. CASE /\ ~Foreign(r)
             /\ LoadAndDeleteSURBCtx(r.c)
             /\ retired' = retired \cup {r.c}
             /\ acceptCount' = IF r.genuine /\ ~panicked'
                                 THEN [acceptCount EXCEPT ![r.c] = @ + 1]
                                 ELSE acceptCount
    <2>1. TypeOK'
      BY <1>1, <1>2, <1>6, NextTypeOK DEF LifecycleNext, DecoyInv, DecoyTypeOK
    <2>2. \/ /\ panicked'
             /\ UNCHANGED <<surbStore, surbETAs>>
          \/ /\ ~panicked'
             /\ r.c \in surbStore
             /\ surbStore' = surbStore \ {r.c}
             /\ \E k \in Times : surbETAs' = [surbETAs EXCEPT ![k] = <<>>]
      BY <1>1, <1>2, <1>6, LoadAndDeleteShape DEF DecoyInv, DecoyTypeOK
    <2>3. ~panicked' => acceptCount[r.c] = 0
      BY <2>2, <1>2 DEF DecoyInv, AcceptedRetired
    <2>4. /\ acceptCount' \in [Ctxs -> Nat]
          /\ \A c \in Ctxs \ {r.c} : acceptCount'[c] = acceptCount[c]
          /\ acceptCount'[r.c] # acceptCount[r.c] => ~panicked' /\ acceptCount'[r.c] = 1
      BY <1>2, <1>6, <2>3 DEF DecoyInv, DecoyTypeOK
    <2>5. r.c \in surbStore \/ panicked'
      BY <2>2
    <2>6. ListedAtOwnEta'
      <3>1. \A k \in Times : surbETAs'[k] = surbETAs[k] \/ surbETAs'[k] = <<>>
        BY <2>2, <2>1 DEF TypeOK
      <3>2. QED
        BY <3>1, <1>1, EmptyingKeepsListed DEF DecoyInv, DecoyTypeOK
    <2>7. AcceptedRetired'
      <3> SUFFICES ASSUME NEW c \in Ctxs, acceptCount'[c] # 0
                   PROVE  acceptCount'[c] = 1 /\ c \notin surbStore'
        BY DEF AcceptedRetired
      <3>1. CASE c = r.c
        BY <3>1, <2>2, <2>4 DEF DecoyInv, AcceptedRetired
      <3>2. CASE c # r.c
        BY <3>2, <2>2, <2>4 DEF DecoyInv, AcceptedRetired
      <3>3. QED
        BY <3>1, <3>2
    <2>8. Unallocated'
      <3> SUFFICES ASSUME NEW c \in Ctxs, c >= nextCtx'
                   PROVE  InFlight(c)' = 0 /\ acceptCount'[c] = 0
        BY DEF Unallocated
      <3>1. InFlight(c) = 0 /\ acceptCount[c] = 0
        BY <1>1 DEF DecoyInv, Unallocated
      <3>2. c # r.c \/ panicked'
        BY <2>2, <1>1 DEF DecoyInv, DecoyTypeOK, TypeOK, Ctxs
      <3>3. QED
        BY <3>1, <3>2, <2>4, <1>4
    <2>9. ReplyHasToken'
      <3> SUFFICES ASSUME NEW c \in issued', net'[Genuine(c)] > 0, c \notin retired',
                          now' < ctxEta'[c] + Slack
                   PROVE  c \in surbStore'
        BY DEF ReplyHasToken
      <3>1. c \in issued /\ c \in Ctxs /\ c # r.c /\ c \notin retired
        BY <1>1, <1>6 DEF DecoyInv, DecoyTypeOK
      <3>2. net[Genuine(c)] > 0
        BY <1>3, ReplyRecords, <3>1 DEF DecoyInv, DecoyTypeOK
      <3>3. c \in surbStore
        BY <3>1, <3>2, <1>1 DEF DecoyInv, ReplyHasToken
      <3>4. QED
        BY <3>1, <3>3, <2>2
    <2>10. DecoyTypeOK' /\ NetBounded'
      <3>1. retired' \subseteq Ctxs
        BY <1>2, <1>6 DEF DecoyInv, DecoyTypeOK
      <3>2. QED
        BY <1>1, <1>3, <1>9, <2>1, <2>4, <3>1 DEF DecoyInv, DecoyTypeOK
    <2>11. QED
      BY <2>6, <2>7, <2>8, <2>9, <2>10 DEF DecoyInv
  <1>7. QED
    BY <1>5, <1>6 DEF OnPacket


\* A reply and the context it names: its copies are part of the context's.
LEMMA ReplyOfCtx ==
  ASSUME NEW r \in Replies
  PROVE  /\ r.c \in Ctxs
         /\ r = Genuine(r.c) \/ r = Tampered(r.c)
  BY DEF Replies, Genuine, Tampered

(***************************************************************************)
(* The network duplicates a reply only while fewer than MaxCopies of the   *)
(* context's replies are in flight, and only a reply already in flight.    *)
(***************************************************************************)
LEMMA DuplicateKeepsDecoyInv ==
  ASSUME DecoyInv, NEW r \in Replies, DuplicateReply(r)
  PROVE  DecoyInv'
  <1> DEFINE c0 == r.c
  <1>1. /\ net[r] > 0 /\ InFlight(c0) < MaxCopies
        /\ net' = [net EXCEPT ![r] = @ + 1]
        /\ UNCHANGED <<lifecycleVars, surbIDBase, issued, ctxBase, acceptCount, retired>>
    BY DEF DuplicateReply
  <1>2. c0 \in Ctxs /\ (r = Genuine(c0) \/ r = Tampered(c0))
    BY ReplyOfCtx
  <1>3. /\ net[Genuine(c0)] \in Nat /\ net[Tampered(c0)] \in Nat
        /\ InFlight(c0)' = InFlight(c0) + 1
        /\ \A c \in Ctxs \ {c0} : InFlight(c)' = InFlight(c)
    BY <1>1, <1>2, ReplyRecords DEF InFlight, DecoyInv, DecoyTypeOK
  <1>4. c0 < nextCtx
    <2>1. InFlight(c0) > 0
      BY <1>1, <1>2, <1>3 DEF InFlight
    <2>2. QED
      BY <2>1, <1>2 DEF DecoyInv, Unallocated, DecoyTypeOK, TypeOK, Ctxs
  <1>5. net' \in [Replies -> 0..MaxCopies]
    BY <1>1, <1>2, <1>3 DEF InFlight, DecoyInv, DecoyTypeOK
  <1>6. NetBounded' /\ Unallocated'
    <2> SUFFICES ASSUME NEW c \in Ctxs
                 PROVE  /\ InFlight(c)' <= MaxCopies
                        /\ c >= nextCtx' => InFlight(c)' = 0 /\ acceptCount'[c] = 0
      BY DEF NetBounded, Unallocated
    <2>1. nextCtx' = nextCtx /\ acceptCount' = acceptCount /\ nextCtx \in Nat
      BY <1>1 DEF lifecycleVars, DecoyInv, DecoyTypeOK, TypeOK
    <2>2. CASE c = c0
      BY <2>2, <2>1, <1>1, <1>3, <1>4, MaxCopiesAssumption DEF Ctxs, InFlight
    <2>3. CASE c # c0
      BY <2>3, <2>1, <1>3 DEF DecoyInv, NetBounded, Unallocated
    <2>4. QED
      BY <2>2, <2>3
  <1>7. \A q \in Replies : net'[q] > 0 => net[q] > 0
    BY <1>1 DEF DecoyInv, DecoyTypeOK
  <1>8. ReplyHasToken'
    BY <1>1, <1>7, ReplyRecords DEF DecoyInv, DecoyTypeOK, ReplyHasToken, lifecycleVars
  <1>9. QED
    BY <1>1, <1>5, <1>6, <1>8
       DEF DecoyInv, DecoyTypeOK, TypeOK, ListedAtOwnEta, AcceptedRetired, lifecycleVars

\* A hop tampers with one copy of a genuine reply: the context's copies in
\* flight stay as many.
LEMMA TamperKeepsDecoyInv ==
  ASSUME DecoyInv, NEW c0 \in Ctxs, TamperReply(c0)
  PROVE  DecoyInv'
  <1>1. /\ net[Genuine(c0)] > 0
        /\ net' = [net EXCEPT ![Genuine(c0)] = @ - 1, ![Tampered(c0)] = @ + 1]
        /\ UNCHANGED <<lifecycleVars, surbIDBase, issued, ctxBase, acceptCount, retired>>
    BY DEF TamperReply
  <1>2. /\ net[Genuine(c0)] \in Nat /\ net[Tampered(c0)] \in Nat
        /\ net'[Genuine(c0)] = net[Genuine(c0)] - 1
        /\ net'[Tampered(c0)] = net[Tampered(c0)] + 1
        /\ \A q \in Replies \ {Genuine(c0), Tampered(c0)} : net'[q] = net[q]
    BY <1>1, ReplyRecords DEF DecoyInv, DecoyTypeOK
  <1>3. \A c \in Ctxs : InFlight(c)' = InFlight(c)
    BY <1>2, ReplyRecords DEF InFlight
  <1>4. InFlight(c0) <= MaxCopies
    BY DEF DecoyInv, NetBounded
  <1>5. net' \in [Replies -> 0..MaxCopies]
    <2>1. net[Tampered(c0)] + 1 <= MaxCopies
      BY <1>1, <1>2, <1>4 DEF InFlight
    <2>2. \A q \in Replies : net'[q] \in 0..MaxCopies
      BY <1>1, <1>2, <2>1, ReplyRecords DEF DecoyInv, DecoyTypeOK
    <2>3. net' \in [Replies -> Nat] 
      BY <1>1, <1>2, ReplyRecords DEF DecoyInv, DecoyTypeOK
    <2>4. QED
      BY <2>2, <2>3
  <1>6. \A c \in Ctxs : net'[Genuine(c)] <= net[Genuine(c)]
    BY <1>2, ReplyRecords DEF DecoyInv, DecoyTypeOK
  <1>7. ReplyHasToken'
    BY <1>1, <1>6, ReplyRecords DEF DecoyInv, DecoyTypeOK, ReplyHasToken, lifecycleVars
  <1>8. NetBounded' /\ Unallocated'
    BY <1>1, <1>3 DEF DecoyInv, NetBounded, Unallocated, lifecycleVars
  <1>9. DecoyTypeOK' /\ ListedAtOwnEta' /\ AcceptedRetired'
    BY <1>1, <1>5 DEF DecoyInv, DecoyTypeOK, TypeOK, ListedAtOwnEta, AcceptedRetired,
                      lifecycleVars
  <1>10. QED
    BY <1>7, <1>8, <1>9 DEF DecoyInv

(***************************************************************************)
(* New after a panic: an empty map and tree and a fresh recipient, so no   *)
(* context of the dead process passes the recipient check again.           *)
(***************************************************************************)
LEMMA RestartKeepsDecoyInv ==
  ASSUME DecoyInv, Restart
  PROVE  DecoyInv'
  <1>1. TypeOK'
    <2>1. surbETAs' \in [Times -> Seq(Ctxs)]
      BY EmptyIsCtxList DEF Restart
    <2>2. panicked' \in BOOLEAN
      BY Zenon DEF Restart
    <2>3. QED
      BY <2>1, <2>2 DEF Restart, DecoyInv, DecoyTypeOK, TypeOK
  <1>2. ListedAtOwnEta'
    BY EmptyList DEF Restart, ListedAtOwnEta
  <1>3. QED
    BY <1>1, <1>2 DEF Restart, DecoyInv, DecoyTypeOK, NetBounded, Unallocated,
                      InFlight, AcceptedRetired, ReplyHasToken

----------------------------------------------------------------------------
LEMMA NextKeepsDecoyInv == DecoyInv /\ [Next]_vars => DecoyInv'
  <1> SUFFICES ASSUME DecoyInv, [Next]_vars PROVE DecoyInv'
    OBVIOUS
  <1>1. CASE Tick /\ UNCHANGED decoyVars
    BY <1>1, TickKeepsDecoyInv
  <1>2. CASE SendLoopPacket
    BY <1>2, SendKeepsDecoyInv
  <1>3. CASE WorkerSweep
    BY <1>3, SweepKeepsDecoyInv
  <1>4. ASSUME NEW r \in Replies, OnPacket(r) \/ DuplicateReply(r) PROVE DecoyInv'
    BY <1>4, OnPacketKeepsDecoyInv, DuplicateKeepsDecoyInv
  <1>5. ASSUME NEW c \in Ctxs, TamperReply(c) PROVE DecoyInv'
    BY <1>5, TamperKeepsDecoyInv
  <1>6. CASE Restart
    BY <1>6, RestartKeepsDecoyInv
  <1>7. CASE UNCHANGED vars
    BY <1>7 DEF vars, lifecycleVars, decoyVars, DecoyInv, DecoyTypeOK, TypeOK,
                NetBounded, Unallocated, ListedAtOwnEta, AcceptedRetired,
                ReplyHasToken, InFlight
  <1>8. QED
    BY <1>1, <1>2, <1>3, <1>4, <1>5, <1>6, <1>7 DEF Next

(***************************************************************************)
(* DecoyInv holds in every reachable state of the subsystem: the worker's  *)
(* sends and sweeps, OnPacket's retires, a network that duplicates and     *)
(* tampers with replies, panics and restarts, with or without colliding   *)
(* ETAs.                                                                   *)
(***************************************************************************)
THEOREM DecoyInvHolds == Spec => []DecoyInv
  BY InitDecoyInv, NextKeepsDecoyInv, PTL DEF Spec

\* Every variable of the subsystem keeps its type.
THEOREM DecoyTypeCorrect == Spec => []DecoyTypeOK
  BY DecoyInvHolds, PTL DEF DecoyInv

(***************************************************************************)
(* OnPacket accepts at most one reply per SURB, however the network        *)
(* duplicates it and across restarts: the acceptance is counted only when  *)
(* loadAndDeleteSURBCtx took the context out of the store, and a context   *)
(* never comes back into it.                                               *)
(***************************************************************************)
THEOREM AcceptedAtMostOnceHolds == Spec => []AcceptedAtMostOnce
  <1>1. DecoyInv => AcceptedAtMostOnce
    BY DEF DecoyInv, AcceptedRetired, AcceptedAtMostOnce, DecoyTypeOK
  <1>2. QED
    BY <1>1, DecoyInvHolds, PTL

(***************************************************************************)
(* A genuine reply in flight for a context of the current process, not yet *)
(* retired and before its ETA plus slack, finds its context: the context   *)
(* is stored before the packet is dispatched, and sweepSURBCtxs takes it   *)
(* only from the node of its own ETA.                                      *)
(***************************************************************************)
THEOREM ReplyHasTokenHolds == Spec => []ReplyHasToken
  BY DecoyInvHolds, PTL DEF DecoyInv

----------------------------------------------------------------------------
\* Which contexts a step may take out of the store.
DueDrop == \A c \in surbStore \ surbStore' :
             c \in retired' \/ ctxEta[c] + Slack <= now \/ panicked

LEMMA StepDropsOnlyDue == DecoyInv /\ [Next]_vars => [DueDrop]_vars
  <1> SUFFICES ASSUME DecoyInv, [Next]_vars PROVE DueDrop
    OBVIOUS
  <1>1. CASE SendLoopPacket
    <2>1. surbStore \subseteq surbStore'
      BY <1>1 DEF SendLoopPacket, NewSURBCtx, StoreSURBCtx, Panic
    <2>2. QED
      BY <2>1 DEF DueDrop
  <1>2. CASE WorkerSweep
    <2>1. ~panicked /\ SweepSURBCtxs
      BY <1>2 DEF WorkerSweep
    <2>2. \/ UNCHANGED surbStore
          \/ surbStore' = {c \in surbStore : \A k \in Expired : ~InList(c, surbETAs[k])}
      BY <2>1, SweepShape
    <2>3. ASSUME NEW c \in surbStore, NEW k \in Expired, InList(c, surbETAs[k])
          PROVE  ctxEta[c] + Slack <= now
      <3>1. k \in Times /\ k + Slack <= now
        BY DEF Expired, Nodes, DecoyInv, DecoyTypeOK, TypeOK
      <3>2. c \in Ctxs
        BY DEF DecoyInv, DecoyTypeOK, TypeOK, Ctxs
      <3>3. QED
        BY <2>3, <3>1, <3>2 DEF DecoyInv, ListedAtOwnEta
    <2>4. QED
      BY <2>2, <2>3 DEF DueDrop
  <1>3. ASSUME NEW r \in Replies, OnPacket(r) PROVE DueDrop
    <2>1. r.c \in Ctxs /\ ~panicked
      BY <1>3, ReplyOfCtx DEF OnPacket
    <2>2. CASE UNCHANGED <<storeVars, acceptCount, retired>>
      BY <2>2 DEF DueDrop, storeVars
    <2>3. CASE LoadAndDeleteSURBCtx(r.c) /\ retired' = retired \cup {r.c}
      <3>1. UNCHANGED surbStore \/ surbStore' = surbStore \ {r.c}
        BY <2>1, <2>3, LoadAndDeleteShape DEF DecoyInv, DecoyTypeOK
      <3>2. QED
        BY <3>1, <2>3 DEF DueDrop
    <2>4. QED
      BY <1>3, <2>2, <2>3 DEF OnPacket
  <1>4. CASE Restart
    BY <1>4 DEF Restart, DueDrop
  <1>5. CASE \/ Tick /\ UNCHANGED decoyVars
             \/ \E r \in Replies : DuplicateReply(r)
             \/ \E c \in Ctxs : TamperReply(c)
             \/ UNCHANGED vars
    BY <1>5 DEF Tick, DuplicateReply, TamperReply, vars, lifecycleVars, DueDrop
  <1>6. QED
    BY <1>1, <1>2, <1>3, <1>4, <1>5 DEF Next

(***************************************************************************)
(* No step of the subsystem takes a context out of the store before its    *)
(* ETA plus slack, unless OnPacket retired it or the process panicked:     *)
(* sweepSURBCtxs empties only expired nodes, and a node lists only         *)
(* contexts of its own ETA even after two contexts collided on one.        *)
(***************************************************************************)
THEOREM DroppedOnlyWhenDueHolds == Spec => DroppedOnlyWhenDue
  BY DecoyInvHolds, StepDropsOnlyDue, PTL DEF Spec, DroppedOnlyWhenDue, DueDrop

=============================================================================
