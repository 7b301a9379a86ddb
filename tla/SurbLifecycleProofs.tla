------------------------ MODULE SurbLifecycleProofs ------------------------
(***************************************************************************)
(* Proofs about the SURB context store, for every value of the constants.  *)
(***************************************************************************)
EXTENDS SurbLifecycle, SequenceTheorems, TLAPS

USE MaxCtxAssumption, MaxTimeAssumption, MaxDeltaAssumption, SlackAssumption,
    DistinctEtasAssumption

\* The empty list of a removed node is a list of contexts.
LEMMA EmptyIsCtxList == <<>> \in Seq(Ctxs)
  BY EmptySeq

\* Appending a context to a node's list keeps it a list of contexts.
LEMMA AppendCtxList ==
  ASSUME NEW l \in Seq(Ctxs), NEW c \in Ctxs
  PROVE  Append(l, c) \in Seq(Ctxs)
  BY AppendProperties

----------------------------------------------------------------------------
(***************************************************************************)
(* Type correctness: every step of the store and of its callers keeps      *)
(* each variable in its type, and a stored context is always one that has  *)
(* been allocated (surbStore \subseteq 1..nextCtx-1).                      *)
(***************************************************************************)
LEMMA InitTypeOK == LifecycleInit => TypeOK
  <1> SUFFICES ASSUME LifecycleInit PROVE TypeOK
    OBVIOUS
  <1>1. surbETAs \in [Times -> Seq(Ctxs)]
    BY EmptyIsCtxList DEF LifecycleInit
  <1>2. ctxEta \in [Ctxs -> Times] /\ etaNode \in [Ctxs -> Times \cup {NoNode}]
    BY DEF LifecycleInit, Times
  <1>3. /\ now \in 0..MaxTime /\ nextCtx \in 1..(MaxCtx + 1)
        /\ surbStore \subseteq 1..(nextCtx - 1) /\ nilNodes \subseteq Times
    BY DEF LifecycleInit
  <1>4. panicked \in BOOLEAN
    BY Zenon DEF LifecycleInit
  <1>5. QED
    BY <1>1, <1>2, <1>3, <1>4 DEF TypeOK

LEMMA StoreTypeOK ==
  ASSUME TypeOK, NEW c \in Ctxs, NEW eta \in Times, c = nextCtx,
         StoreSURBCtx(c, eta), nextCtx' = nextCtx + 1
  PROVE  /\ surbStore' \subseteq 1..(nextCtx' - 1)
         /\ surbETAs' \in [Times -> Seq(Ctxs)]
         /\ nilNodes' \subseteq Times
         /\ etaNode' \in [Ctxs -> Times \cup {NoNode}]
         /\ panicked' \in BOOLEAN
  <1>1. CASE nilNodes # {} /\ Panic
    BY <1>1 DEF Panic, TypeOK
  <1>2. CASE /\ surbETAs' = [surbETAs EXCEPT ![eta] = Append(@, c)]
             /\ etaNode' = [etaNode EXCEPT ![c] = eta]
             /\ surbStore' = surbStore \cup {c}
             /\ UNCHANGED <<nilNodes, panicked>>
    <2>1. Append(surbETAs[eta], c) \in Seq(Ctxs)
      BY AppendCtxList DEF TypeOK
    <2>2. QED
      BY <1>2, <2>1 DEF TypeOK
  <1>3. QED
    BY <1>1, <1>2 DEF StoreSURBCtx

LEMMA LoadAndDeleteTypeOK ==
  ASSUME TypeOK, NEW c \in Ctxs, LoadAndDeleteSURBCtx(c)
  PROVE  /\ surbStore' \subseteq 1..(nextCtx - 1)
         /\ surbETAs' \in [Times -> Seq(Ctxs)]
         /\ nilNodes' \subseteq Times
         /\ etaNode' \in [Ctxs -> Times \cup {NoNode}]
         /\ panicked' \in BOOLEAN
  <1> DEFINE k == etaNode[c]
  <1>1. CASE Panic
    BY <1>1 DEF Panic, TypeOK
  <1>2. CASE k # NoNode /\ surbETAs' = [surbETAs EXCEPT ![k] = <<>>]
                        /\ etaNode' = [etaNode EXCEPT ![c] = NoNode]
                        /\ surbStore' = surbStore \ {c}
                        /\ nilNodes' \in {nilNodes, nilNodes \cup {k}}
                        /\ UNCHANGED panicked
    <2>1. k \in Times
      BY <1>2 DEF TypeOK
    <2>2. QED
      BY <1>2, <2>1, EmptyIsCtxList DEF TypeOK
  <1>3. QED
    BY <1>1, <1>2 DEF LoadAndDeleteSURBCtx

LEMMA SweepTypeOK ==
  ASSUME TypeOK, SweepSURBCtxs
  PROVE  /\ surbStore' \subseteq 1..(nextCtx - 1)
         /\ surbETAs' \in [Times -> Seq(Ctxs)]
         /\ nilNodes' \subseteq Times
         /\ etaNode' \in [Ctxs -> Times \cup {NoNode}]
         /\ panicked' \in BOOLEAN
  BY EmptyIsCtxList DEF SweepSURBCtxs, Panic, TypeOK

LEMMA NextTypeOK == TypeOK /\ [LifecycleNext]_lifecycleVars => TypeOK'
  <1> SUFFICES ASSUME TypeOK, [LifecycleNext]_lifecycleVars PROVE TypeOK'
    OBVIOUS
  <1>1. CASE Tick
    BY <1>1 DEF Tick, TypeOK
  <1>2. ASSUME NEW d \in 1..MaxDelta, NewSURBCtx(d) PROVE TypeOK'
    <2>1. nextCtx \in Ctxs /\ now + d \in Times
      BY <1>2 DEF NewSURBCtx, TypeOK, Ctxs, Times
    <2>2. ctxEta' \in [Ctxs -> Times]
      BY <1>2, <2>1 DEF NewSURBCtx, TypeOK
    <2>3. QED
      BY <1>2, <2>1, <2>2, StoreTypeOK DEF NewSURBCtx, TypeOK, Ctxs
  <1>3. ASSUME NEW c \in Ctxs, LoadAndDeleteSURBCtx(c),
               UNCHANGED <<now, nextCtx, ctxEta>>
        PROVE TypeOK'
    BY <1>3, LoadAndDeleteTypeOK DEF TypeOK
  <1>4. CASE SweepSURBCtxs /\ UNCHANGED <<now, nextCtx, ctxEta>>
    BY <1>4, SweepTypeOK DEF TypeOK
  <1>5. CASE UNCHANGED lifecycleVars
    BY <1>5 DEF lifecycleVars, TypeOK
  <1>6. QED
    BY <1>1, <1>2, <1>3, <1>4, <1>5 DEF LifecycleNext

\* The store's type invariant holds in every reachable state.
THEOREM TypeCorrect == LifecycleSpec => []TypeOK
  BY InitTypeOK, NextTypeOK, PTL DEF LifecycleSpec

----------------------------------------------------------------------------
(***************************************************************************)
(* Lists of at most one context, which is all the tree holds while ETAs do *)
(* not collide.                                                            *)
(***************************************************************************)
LEMMA SingletonList ==
  ASSUME NEW c, NEW x
  PROVE  /\ InList(x, <<c>>) <=> x = c
         /\ Len(<<c>>) = 1
         /\ <<c>>[1] = c
         /\ Append(<<>>, c) = <<c>>
         /\ <<c>> # <<>>
  BY DEF InList, Range

LEMMA EmptyList ==
  ASSUME NEW x
  PROVE  ~InList(x, <<>>) /\ Len(<<>>) = 0
  BY DEF InList, Range

(***************************************************************************)
(* P1 when ETAs do not collide.  StoreIndexBijection is not inductive: a   *)
(* step of storeSURBCtx keeps the map and tree in step only if the new     *)
(* context is fresh (not already in the map) and its ETA names no node, so *)
(* that Insert makes a new node of one.  BijectionInv adds that every node *)
(* holds exactly one stored context of its own ETA; freshness comes from   *)
(* TypeOK (surbStore \subseteq 1..nextCtx-1).  The panic branches of all  *)
(* three operations are then unreachable.                                  *)
(***************************************************************************)
LEMMA InitBijectionInv == LifecycleInit => BijectionInv
  <1> SUFFICES ASSUME LifecycleInit PROVE BijectionInv
    OBVIOUS
  <1>1. TypeOK
    BY InitTypeOK
  <1>2. ~panicked /\ nilNodes = {}
    BY DEF LifecycleInit
  <1>3. SingletonNodes /\ StoredInOwnNode
    BY DEF LifecycleInit, SingletonNodes, StoredInOwnNode
  <1>4. QED
    BY <1>1, <1>2, <1>3 DEF BijectionInv

LEMMA StoreKeepsBijectionInv ==
  ASSUME DistinctEtas, BijectionInv, NEW d \in 1..MaxDelta, NewSURBCtx(d)
  PROVE  BijectionInv'
  <1> DEFINE c == nextCtx
             eta == now + d
  <1> USE DEF BijectionInv
  <1>1. c \in Ctxs /\ eta \in Times /\ c \notin surbStore
    BY DEF NewSURBCtx, Ctxs, Times, TypeOK
  <1>2. surbETAs[eta] = <<>>
    BY <1>1 DEF NewSURBCtx, EtaAvailable, Nodes
  <1>3. /\ surbETAs' = [surbETAs EXCEPT ![eta] = <<c>>]
        /\ etaNode' = [etaNode EXCEPT ![c] = eta]
        /\ surbStore' = surbStore \cup {c}
        /\ nilNodes' = nilNodes /\ panicked' = panicked
        /\ ctxEta' = [ctxEta EXCEPT ![c] = eta]
    BY <1>2, SingletonList DEF NewSURBCtx, StoreSURBCtx, InsertMustPanic
  <1>4. TypeOK'
    BY NextTypeOK DEF LifecycleNext
  <1>5. ASSUME NEW c0 \in surbStore PROVE c0 # c /\ ctxEta[c0] # eta
    <2>1. c0 # c
      BY DEF TypeOK
    <2>2. surbETAs[ctxEta[c0]] = <<c0>>
      BY DEF StoredInOwnNode
    <2>3. <<c0>> # <<>>
      BY SingletonList
    <2>4. QED
      BY <1>2, <2>1, <2>2, <2>3
  <1>6. surbETAs \in [Times -> Seq(Ctxs)] /\ ctxEta \in [Ctxs -> Times]
        /\ etaNode \in [Ctxs -> Times \cup {NoNode}]
    BY DEF TypeOK
  <1>7. SingletonNodes'
    <2> SUFFICES ASSUME NEW k \in Times, surbETAs'[k] # <<>>
                 PROVE \E c1 \in surbStore' : surbETAs'[k] = <<c1>> /\ ctxEta'[c1] = k
      BY DEF SingletonNodes
    <2>1. CASE k = eta
      BY <2>1, <1>1, <1>3, <1>6
    <2>2. CASE k # eta
      <3>1. PICK c1 \in surbStore : surbETAs[k] = <<c1>> /\ ctxEta[c1] = k
        BY <2>2, <1>3, <1>6 DEF SingletonNodes
      <3>2. c1 # c
        BY <1>5
      <3>3. QED
        BY <2>2, <3>1, <3>2, <1>1, <1>3, <1>6
    <2>3. QED
      BY <2>1, <2>2
  <1>8. StoredInOwnNode'
    <2> SUFFICES ASSUME NEW c1 \in surbStore'
                 PROVE etaNode'[c1] = ctxEta'[c1] /\ surbETAs'[ctxEta'[c1]] = <<c1>>
      BY DEF StoredInOwnNode
    <2>1. CASE c1 = c
      BY <2>1, <1>1, <1>3, <1>6
    <2>2. CASE c1 # c
      <3>1. c1 \in surbStore /\ c1 \in Ctxs
        BY <2>2, <1>3 DEF TypeOK, Ctxs
      <3>2. etaNode[c1] = ctxEta[c1] /\ surbETAs[ctxEta[c1]] = <<c1>>
        BY <3>1 DEF StoredInOwnNode
      <3>3. ctxEta[c1] # eta /\ ctxEta[c1] \in Times
        BY <3>1, <1>5, <1>6
      <3>4. QED
        BY <2>2, <3>1, <3>2, <3>3, <1>1, <1>3, <1>6
    <2>3. QED
      BY <2>1, <2>2
  <1>9. QED
    BY <1>3, <1>4, <1>7, <1>8

LEMMA LoadAndDeleteKeepsBijectionInv ==
  ASSUME BijectionInv, NEW c \in Ctxs, LoadAndDeleteSURBCtx(c),
         UNCHANGED <<now, nextCtx, ctxEta>>
  PROVE  BijectionInv'
  <1> DEFINE k == etaNode[c]
  <1> USE DEF BijectionInv
  <1>0. surbETAs \in [Times -> Seq(Ctxs)] /\ ctxEta \in [Ctxs -> Times]
        /\ etaNode \in [Ctxs -> Times \cup {NoNode}]
    BY DEF TypeOK
  <1>1. c \in surbStore /\ k = ctxEta[c] /\ k \in Times /\ surbETAs[k] = <<c>>
    BY <1>0 DEF LoadAndDeleteSURBCtx, StoredInOwnNode
  <1>2. k # NoNode /\ k \notin nilNodes /\ InList(c, surbETAs[k]) /\ ~(Len(surbETAs[k]) > 1)
    BY <1>1, SingletonList DEF NoNode, Times
  <1>3. /\ surbETAs' = [surbETAs EXCEPT ![k] = <<>>]
        /\ etaNode' = [etaNode EXCEPT ![c] = NoNode]
        /\ surbStore' = surbStore \ {c}
        /\ nilNodes' = nilNodes /\ panicked' = panicked
    BY <1>1, <1>2 DEF LoadAndDeleteSURBCtx
  <1>4. TypeOK'
    BY NextTypeOK DEF LifecycleNext
  <1>5. ASSUME NEW c0 \in surbStore \ {c} PROVE ctxEta[c0] # k
    <2>1. surbETAs[ctxEta[c0]] = <<c0>>
      BY DEF StoredInOwnNode
    <2>2. <<c0>> # <<c>>
      BY SingletonList
    <2>3. QED
      BY <1>1, <2>1, <2>2
  <1>6. SingletonNodes'
    <2> SUFFICES ASSUME NEW k1 \in Times, surbETAs'[k1] # <<>>
                 PROVE \E c1 \in surbStore' : surbETAs'[k1] = <<c1>> /\ ctxEta'[c1] = k1
      BY DEF SingletonNodes
    <2>1. k1 # k
      BY <1>0, <1>3
    <2>2. PICK c1 \in surbStore : surbETAs[k1] = <<c1>> /\ ctxEta[c1] = k1
      BY <2>1, <1>0, <1>3 DEF SingletonNodes
    <2>3. c1 # c
      BY <2>1, <2>2, <1>1
    <2>4. QED
      BY <2>1, <2>2, <2>3, <1>0, <1>3
  <1>7. StoredInOwnNode'
    <2> SUFFICES ASSUME NEW c1 \in surbStore'
                 PROVE etaNode'[c1] = ctxEta'[c1] /\ surbETAs'[ctxEta'[c1]] = <<c1>>
      BY DEF StoredInOwnNode
    <2>1. c1 \in surbStore \ {c} /\ c1 \in Ctxs
      BY <1>3 DEF TypeOK, Ctxs
    <2>2. etaNode[c1] = ctxEta[c1] /\ surbETAs[ctxEta[c1]] = <<c1>> /\ ctxEta[c1] \in Times
      BY <2>1, <1>0 DEF StoredInOwnNode
    <2>3. ctxEta[c1] # k
      BY <2>1, <1>5
    <2>4. QED
      BY <2>1, <2>2, <2>3, <1>0, <1>3
  <1>8. QED
    BY <1>3, <1>4, <1>6, <1>7

LEMMA SweepKeepsBijectionInv ==
  ASSUME BijectionInv, SweepSURBCtxs, UNCHANGED <<now, nextCtx, ctxEta>>
  PROVE  BijectionInv'
  <1> USE DEF BijectionInv
  <1>0. surbETAs \in [Times -> Seq(Ctxs)] /\ ctxEta \in [Ctxs -> Times]
        /\ surbStore \subseteq Ctxs
    BY DEF TypeOK, Ctxs
  <1>1. /\ surbStore' = {c \in surbStore : \A k \in Expired : ~InList(c, surbETAs[k])}
        /\ surbETAs' = [k \in Times |-> IF k \in Expired THEN <<>> ELSE surbETAs[k]]
        /\ UNCHANGED <<nilNodes, etaNode, panicked>>
    BY DEF SweepSURBCtxs
  <1>2. TypeOK'
    BY NextTypeOK DEF LifecycleNext
  <1>3. Expired \subseteq Times
    BY DEF Expired, Nodes
  <1>4. ASSUME NEW c \in surbStore, NEW k \in Times
        PROVE  InList(c, surbETAs[k]) <=> ctxEta[c] = k
    <2>1. CASE surbETAs[k] = <<>>
      <3>1. surbETAs[ctxEta[c]] = <<c>>
        BY DEF StoredInOwnNode
      <3>2. QED
        BY <2>1, <3>1, EmptyList, SingletonList
    <2>2. CASE surbETAs[k] # <<>>
      <3>1. PICK c1 \in surbStore : surbETAs[k] = <<c1>> /\ ctxEta[c1] = k
        BY <2>2 DEF SingletonNodes
      <3>2. surbETAs[ctxEta[c]] = <<c>>
        BY DEF StoredInOwnNode
      <3>3. QED
        BY <3>1, <3>2, SingletonList
    <2>3. QED
      BY <2>1, <2>2
  <1>5. ASSUME NEW c \in surbStore PROVE c \in surbStore' <=> ctxEta[c] \notin Expired
    BY <1>0, <1>1, <1>3, <1>4
  <1>6. SingletonNodes'
    <2> SUFFICES ASSUME NEW k \in Times, surbETAs'[k] # <<>>
                 PROVE \E c1 \in surbStore' : surbETAs'[k] = <<c1>> /\ ctxEta'[c1] = k
      BY DEF SingletonNodes
    <2>1. k \notin Expired /\ surbETAs'[k] = surbETAs[k]
      BY <1>1
    <2>2. PICK c1 \in surbStore : surbETAs[k] = <<c1>> /\ ctxEta[c1] = k
      BY <2>1 DEF SingletonNodes
    <2>3. c1 \in surbStore'
      BY <2>1, <2>2, <1>5
    <2>4. QED
      BY <2>1, <2>2, <2>3
  <1>7. StoredInOwnNode'
    <2> SUFFICES ASSUME NEW c1 \in surbStore'
                 PROVE etaNode'[c1] = ctxEta'[c1] /\ surbETAs'[ctxEta'[c1]] = <<c1>>
      BY DEF StoredInOwnNode
    <2>1. c1 \in surbStore /\ ctxEta[c1] \notin Expired
      BY <1>1, <1>5
    <2>2. etaNode[c1] = ctxEta[c1] /\ surbETAs[ctxEta[c1]] = <<c1>> /\ ctxEta[c1] \in Times
      BY <2>1, <1>0 DEF StoredInOwnNode
    <2>3. QED
      BY <2>1, <2>2, <1>1
  <1>8. QED
    BY <1>1, <1>2, <1>6, <1>7

LEMMA NextBijectionInv ==
  ASSUME DistinctEtas
  PROVE  BijectionInv /\ [LifecycleNext]_lifecycleVars => BijectionInv'
  <1> SUFFICES ASSUME BijectionInv, [LifecycleNext]_lifecycleVars PROVE BijectionInv'
    OBVIOUS
  <1>1. CASE Tick
    <2>1. TypeOK'
      BY <1>1, NextTypeOK DEF BijectionInv
    <2>2. QED
      BY <1>1, <2>1 DEF Tick, BijectionInv, SingletonNodes, StoredInOwnNode
  <1>2. ASSUME NEW d \in 1..MaxDelta, NewSURBCtx(d) PROVE BijectionInv'
    BY <1>2, StoreKeepsBijectionInv
  <1>3. ASSUME NEW c \in Ctxs, LoadAndDeleteSURBCtx(c),
               UNCHANGED <<now, nextCtx, ctxEta>>
        PROVE BijectionInv'
    BY <1>3, LoadAndDeleteKeepsBijectionInv
  <1>4. CASE SweepSURBCtxs /\ UNCHANGED <<now, nextCtx, ctxEta>>
    BY <1>4, SweepKeepsBijectionInv
  <1>5. CASE UNCHANGED lifecycleVars
    BY <1>5 DEF lifecycleVars, BijectionInv, TypeOK, SingletonNodes, StoredInOwnNode
  <1>6. QED
    BY <1>1, <1>2, <1>3, <1>4, <1>5 DEF LifecycleNext

LEMMA BijectionInvImplies == BijectionInv => StoreIndexBijection
  <1> SUFFICES ASSUME BijectionInv PROVE StoreIndexBijection
    OBVIOUS
  <1> USE DEF BijectionInv
  <1>0. surbETAs \in [Times -> Seq(Ctxs)] /\ ctxEta \in [Ctxs -> Times]
        /\ surbStore \subseteq Ctxs
    BY DEF TypeOK, Ctxs
  <1>1. ASSUME NEW k \in Times, surbETAs[k] # <<>>
        PROVE  \E c \in surbStore : surbETAs[k] = <<c>> /\ ctxEta[c] = k
    BY <1>1 DEF SingletonNodes
  <1>2. ASSUME NEW c \in surbStore
        PROVE  /\ etaNode[c] = ctxEta[c] /\ surbETAs[ctxEta[c]] = <<c>>
               /\ InList(c, surbETAs[ctxEta[c]]) /\ ctxEta[c] \in Nodes \ nilNodes
    <2>1. etaNode[c] = ctxEta[c] /\ surbETAs[ctxEta[c]] = <<c>>
      BY DEF StoredInOwnNode
    <2>2. InList(c, <<c>>) /\ <<c>> # <<>>
      BY SingletonList
    <2>3. QED
      BY <1>0, <2>1, <2>2 DEF Nodes
  <1>3. surbStore \subseteq TreeCtxs
    BY <1>0, <1>2 DEF TreeCtxs
  <1>4. TreeCtxs \subseteq surbStore
    <2> SUFFICES ASSUME NEW c \in Ctxs, NEW k \in Nodes \ nilNodes, InList(c, surbETAs[k])
                 PROVE c \in surbStore
      BY DEF TreeCtxs
    <2>1. k \in Times /\ surbETAs[k] # <<>>
      BY EmptyList DEF Nodes
    <2>2. PICK c1 \in surbStore : surbETAs[k] = <<c1>> /\ ctxEta[c1] = k
      BY <2>1, <1>1
    <2>3. QED
      BY <2>2, SingletonList
  <1>5. ASSUME NEW k \in Times, NEW i \in 1..Len(surbETAs[k])
        PROVE  ctxEta[surbETAs[k][i]] = k
    <2>1. surbETAs[k] # <<>>
      BY EmptyList
    <2>2. PICK c1 \in surbStore : surbETAs[k] = <<c1>> /\ ctxEta[c1] = k
      BY <2>1, <1>1
    <2>3. i = 1
      BY <2>2, SingletonList
    <2>4. QED
      BY <2>2, <2>3, SingletonList
  <1>6. QED
    BY <1>2, <1>3, <1>4, <1>5 DEF StoreIndexBijection

(***************************************************************************)
(* P1: while the monotonic clock never hands two live contexts the same    *)
(* ETA, the SURB map and the ETA tree hold exactly the same contexts,      *)
(* each in the node of its own ETA, whatever the order of stores, lookups  *)
(* and sweeps and for every number of contexts, clock range and slack.     *)
(***************************************************************************)
THEOREM StoreIndexBijectionHolds ==
  ASSUME DistinctEtas
  PROVE  LifecycleSpec => []StoreIndexBijection
  <1>1. LifecycleSpec => []BijectionInv
    BY InitBijectionInv, NextBijectionInv, PTL DEF LifecycleSpec
  <1>2. QED
    BY <1>1, BijectionInvImplies, PTL

(***************************************************************************)
(* BijectionInv, the inductive invariant itself, is an invariant of the    *)
(* store while ETAs do not collide: no store, lookup or sweep ever panics  *)
(* and every tree node holds exactly its one stored context.               *)
(***************************************************************************)
THEOREM BijectionInvHolds ==
  ASSUME DistinctEtas
  PROVE  LifecycleSpec => []BijectionInv
  BY InitBijectionInv, NextBijectionInv, PTL DEF LifecycleSpec

----------------------------------------------------------------------------
(***************************************************************************)
(* Refinement of SurbTokens.  Under BijectionInv each store step is a step *)
(* of the abstract token set with the map's key set as the live tokens:    *)
(* storeSURBCtx issues nextCtx, loadAndDeleteSURBCtx of a stored id        *)
(* retires it (and of an unknown id is a stutter), and sweepSURBCtxs       *)
(* keeps exactly the tokens that are not overdue.                          *)
(***************************************************************************)
LEMMA StoreIsIssue ==
  ASSUME BijectionInv, NEW d \in 1..MaxDelta, NewSURBCtx(d)
  PROVE  Tokens!Issue(d)
  <1>1. nilNodes = {}
    BY DEF BijectionInv
  <1>2. surbStore' = surbStore \cup {nextCtx}
    BY <1>1 DEF NewSURBCtx, StoreSURBCtx, Panic
  <1>3. QED
    BY <1>2 DEF NewSURBCtx, Tokens!Issue

LEMMA LoadIsRetire ==
  ASSUME BijectionInv, NEW c \in Ctxs, LoadAndDeleteSURBCtx(c),
         UNCHANGED <<now, nextCtx, ctxEta>>
  PROVE  c \in surbStore /\ Tokens!Retire(c)
  <1> DEFINE k == etaNode[c]
  <1> USE DEF BijectionInv
  <1>0. surbETAs \in [Times -> Seq(Ctxs)] /\ ctxEta \in [Ctxs -> Times]
    BY DEF TypeOK
  <1>1. c \in surbStore /\ k = ctxEta[c] /\ k \in Times /\ surbETAs[k] = <<c>>
    BY <1>0 DEF LoadAndDeleteSURBCtx, StoredInOwnNode
  <1>2. k # NoNode /\ k \notin nilNodes /\ InList(c, surbETAs[k]) /\ ~(Len(surbETAs[k]) > 1)
    BY <1>1, SingletonList DEF NoNode, Times
  <1>3. surbStore' = surbStore \ {c}
    BY <1>1, <1>2 DEF LoadAndDeleteSURBCtx
  <1>4. QED
    BY <1>1, <1>3 DEF Tokens!Retire

LEMMA SweepIsSweep ==
  ASSUME BijectionInv, SweepSURBCtxs, UNCHANGED <<now, nextCtx, ctxEta>>
  PROVE  Tokens!Sweep
  <1> USE DEF BijectionInv
  <1>0. surbETAs \in [Times -> Seq(Ctxs)] /\ ctxEta \in [Ctxs -> Times]
        /\ surbStore \subseteq Ctxs
    BY DEF TypeOK, Ctxs
  <1>1. surbStore' = {c \in surbStore : \A k \in Expired : ~InList(c, surbETAs[k])}
    BY DEF SweepSURBCtxs
  <1>2. ASSUME NEW c \in surbStore
        PROVE  (\A k \in Expired : ~InList(c, surbETAs[k])) <=> ~(ctxEta[c] + Slack <= now)
    <2>1. surbETAs[ctxEta[c]] = <<c>> /\ ctxEta[c] \in Times
      BY <1>0 DEF StoredInOwnNode
    <2>2. ctxEta[c] \in Nodes
      BY <2>1, SingletonList DEF Nodes
    <2>3. ASSUME NEW k \in Expired, InList(c, surbETAs[k]) PROVE k = ctxEta[c]
      <3>1. k \in Times /\ surbETAs[k] # <<>>
        BY <2>3, EmptyList DEF Expired, Nodes
      <3>2. PICK c1 \in surbStore : surbETAs[k] = <<c1>> /\ ctxEta[c1] = k
        BY <3>1 DEF SingletonNodes
      <3>3. QED
        BY <2>3, <3>2, SingletonList
    <2>4. InList(c, surbETAs[ctxEta[c]])
      BY <2>1, SingletonList
    <2>5. QED
      BY <2>2, <2>3, <2>4 DEF Expired
  <1>3. QED
    BY <1>1, <1>2 DEF Tokens!Sweep, Tokens!Overdue

LEMMA NextRefinesTokens ==
  BijectionInv /\ [LifecycleNext]_lifecycleVars => [Tokens!TokensNext]_Tokens!tokenVars
  <1> SUFFICES ASSUME BijectionInv, [LifecycleNext]_lifecycleVars
               PROVE  [Tokens!TokensNext]_Tokens!tokenVars
    OBVIOUS
  <1>1. CASE Tick
    BY <1>1 DEF Tick, Tokens!TokensNext, Tokens!Advance
  <1>2. ASSUME NEW d \in 1..MaxDelta, NewSURBCtx(d) PROVE Tokens!TokensNext
    BY <1>2, StoreIsIssue DEF Tokens!TokensNext
  <1>3. ASSUME NEW c \in Ctxs, LoadAndDeleteSURBCtx(c),
               UNCHANGED <<now, nextCtx, ctxEta>>
        PROVE Tokens!TokensNext
    BY <1>3, LoadIsRetire DEF Tokens!TokensNext
  <1>4. CASE SweepSURBCtxs /\ UNCHANGED <<now, nextCtx, ctxEta>>
    BY <1>4, SweepIsSweep DEF Tokens!TokensNext
  <1>5. CASE UNCHANGED lifecycleVars
    BY <1>5 DEF lifecycleVars, Tokens!tokenVars
  <1>6. QED
    BY <1>1, <1>2, <1>3, <1>4, <1>5 DEF LifecycleNext

(***************************************************************************)
(* The store implements its promise: while ETAs do not collide, the keys   *)
(* of surbStore behave as the live tokens of SurbTokens, so a stored token *)
(* is returned by loadAndDeleteSURBCtx at most once and sweepSURBCtxs      *)
(* removes exactly the overdue tokens (spec P3), for every bound.          *)
(***************************************************************************)
THEOREM TokensRefinementHolds ==
  ASSUME DistinctEtas
  PROVE  LifecycleSpec => TokensRefinement
  <1>1. LifecycleInit => Tokens!TokensInit
    BY DEF LifecycleInit, Tokens!TokensInit, Ctxs
  <1>2. LifecycleSpec => []BijectionInv
    BY BijectionInvHolds
  <1>3. QED
    BY <1>1, <1>2, NextRefinesTokens, PTL
       DEF LifecycleSpec, TokensRefinement, Tokens!TokensSpec

=============================================================================
