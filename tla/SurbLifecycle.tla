--------------------------- MODULE SurbLifecycle ---------------------------
(***************************************************************************)
(* The SURB context store of the decoy traffic subsystem                   *)
(* (src/internal/decoy/decoy.go): the map surbStore from SURB id to        *)
(* context and the AVL tree surbETAs of contexts ordered by expected       *)
(* arrival, both guarded by the decoy's mutex, with the three operations   *)
(* storeSURBCtx, loadAndDeleteSURBCtx and sweepSURBCtxs.  Each operation   *)
(* holds the lock for its whole body, so each is one atomic step here.     *)
(*                                                                         *)
(* A context is identified by its allocation number c \in Ctxs, which      *)
(* stands for both the *surbCtx pointer and its 64-bit random id suffix    *)
(* (ids are assumed never to collide).  An AVL node is identified by its   *)
(* key, the ETA, since the tree holds at most one node per key.  A node's  *)
(* Value is either a non-empty list of contexts, surbETAs[k], or the nil   *)
(* *surbCtx that loadAndDeleteSURBCtx stores into it (k \in nilNodes);     *)
(* surbETAs[k] = <<>> and k \notin nilNodes means there is no node k.      *)
(* A Go panic kills the process: panicked.                                 *)
(***************************************************************************)
EXTENDS Naturals, Sequences, Functions

CONSTANTS
  MaxCtx,       \* number of SURB contexts the model allocates
  MaxTime,      \* last value of the monotonic clock
  MaxDelta,     \* largest accepted path transit time deltaT (ticks)
  Slack,        \* Debug.DecoySlack: grace period before a SURB is swept
  DistinctEtas  \* TRUE: the clock never gives two live contexts one ETA

ASSUME MaxCtxAssumption == MaxCtx \in Nat \ {0}
ASSUME MaxTimeAssumption == MaxTime \in Nat
ASSUME MaxDeltaAssumption == MaxDelta \in Nat \ {0}
ASSUME SlackAssumption == Slack \in Nat
ASSUME DistinctEtasAssumption == DistinctEtas \in BOOLEAN

Ctxs == 1..MaxCtx
Times == 0..(MaxTime + MaxDelta)
NoNode == -1     \* ctx.etaNode == nil

VARIABLES
  now,        \* monotime.Now()
  nextCtx,    \* next context to allocate
  ctxEta,     \* ctxEta[c]: the eta field of context c
  surbStore,  \* the contexts reachable from d.surbStore (keyed by id)
  surbETAs,   \* surbETAs[k]: the []*surbCtx Value of the AVL node with key k
  nilNodes,   \* keys of AVL nodes whose Value is a nil *surbCtx
  etaNode,    \* etaNode[c]: the key of the node ctx.etaNode points to
  panicked    \* the process died of a Go panic

storeVars == <<surbStore, surbETAs, nilNodes, etaNode, panicked>>
lifecycleVars == <<now, nextCtx, ctxEta, surbStore, surbETAs, nilNodes,
                   etaNode, panicked>>

\* c is an element of the list l.
InList(c, l) == c \in Range(l)

\* The keys of the nodes in the AVL tree.
Nodes == {k \in Times : surbETAs[k] # <<>>} \cup nilNodes

\* The environment's promise when DistinctEtas holds: a new ETA is not the
\* key of a node already in the tree.
EtaAvailable(eta) == DistinctEtas => eta \notin Nodes

Panic ==
  /\ panicked' = TRUE
  /\ UNCHANGED <<surbStore, surbETAs, nilNodes, etaNode>>

----------------------------------------------------------------------------
(***************************************************************************)
(* storeSURBCtx.  avl.Tree.Insert walks from the root comparing the new    *)
(* value with each node's Value; the comparator's type assertion panics on *)
(* a node whose Value is a nil *surbCtx.  Which nodes the walk meets       *)
(* depends on the tree's shape, so a tree with a nil node may panic; it    *)
(* must when the key itself is nil or every node is (the root is one).     *)
(* Insert returns the existing node for an equal key and the code then     *)
(* appends the context to its list.                                        *)
(***************************************************************************)
InsertMustPanic(eta) == eta \in nilNodes \/ (nilNodes # {} /\ Nodes = nilNodes)

StoreSURBCtx(c, eta) ==
  \/ /\ nilNodes # {}
     /\ Panic
  \/ /\ ~InsertMustPanic(eta)
     /\ surbETAs' = [surbETAs EXCEPT ![eta] = Append(@, c)]
     /\ etaNode' = [etaNode EXCEPT ![c] = eta]
     /\ surbStore' = surbStore \cup {c}
     /\ UNCHANGED <<nilNodes, panicked>>

(***************************************************************************)
(* loadAndDeleteSURBCtx for a context found in the store (a miss returns   *)
(* nil and changes nothing).  The id is deleted from the map, then the     *)
(* context is taken out of its node.  For a list of more than one the code *)
(* sets the node's Value to nCtxList[l-1], which it has just set to nil.   *)
(* A nil etaNode, a node holding nil, or a list without the context        *)
(* panics.                                                                 *)
(***************************************************************************)
\* Mutant: the single-entry check inverted (nCtxList[0] == ctx panics).
LoadAndDeleteInvertedCheck(c) ==
  LET k == etaNode[c]
  IN /\ c \in surbStore
     /\ \/ /\ k = NoNode \/ k \in nilNodes \/ surbETAs[k] = <<c>>
           /\ Panic
        \/ /\ k # NoNode /\ k \notin nilNodes
           /\ Len(surbETAs[k]) = 1 /\ surbETAs[k] # <<c>>
           /\ surbETAs' = [surbETAs EXCEPT ![k] = <<>>]
           /\ etaNode' = [etaNode EXCEPT ![c] = NoNode]
           /\ surbStore' = surbStore \ {c}
           /\ UNCHANGED <<nilNodes, panicked>>

LoadAndDeleteSURBCtx(c) ==
  LET k == etaNode[c]
  IN /\ c \in surbStore
     /\ \/ /\ k = NoNode \/ k \in nilNodes \/ ~InList(c, surbETAs[k])
           /\ Panic
        \/ /\ k # NoNode /\ k \notin nilNodes
           /\ Len(surbETAs[k]) > 1 /\ InList(c, surbETAs[k])
           /\ nilNodes' = nilNodes \cup {k}
           /\ surbETAs' = [surbETAs EXCEPT ![k] = <<>>]
           /\ etaNode' = [etaNode EXCEPT ![c] = NoNode]
           /\ surbStore' = surbStore \ {c}
           /\ UNCHANGED panicked
        \/ /\ k # NoNode /\ k \notin nilNodes
           /\ surbETAs[k] = <<c>>
           /\ surbETAs' = [surbETAs EXCEPT ![k] = <<>>]
           /\ etaNode' = [etaNode EXCEPT ![c] = NoNode]
           /\ surbStore' = surbStore \ {c}
           /\ UNCHANGED <<nilNodes, panicked>>

(***************************************************************************)
(* sweepSURBCtxs.  The forward iterator visits the nodes in ascending key  *)
(* order and stops at the first whose eta + slack > now; every node before *)
(* it has its contexts deleted from the map and is removed.  Reading a     *)
(* visited node's Value panics if it is nil, the stopping node included.   *)
(* ctx.etaNode of a swept context is left as it is.                        *)
(***************************************************************************)
Expired == {k \in Nodes : k + Slack <= now}

Visited ==
  LET future == Nodes \ Expired
  IN Expired \cup {k \in future : \A j \in future : k <= j}

\* Mutant: contexts are deleted from the map but their nodes stay in the tree.
SweepKeepsNodes ==
  \/ /\ Visited \cap nilNodes # {}
     /\ Panic
  \/ /\ Visited \cap nilNodes = {}
     /\ surbStore' = {c \in surbStore : \A k \in Expired : ~InList(c, surbETAs[k])}
     /\ UNCHANGED <<surbETAs, nilNodes, etaNode, panicked>>

\* Mutant: the loop's test is off by one (eta + slack > now + 1).
SweepEarly ==
  LET early == {k \in Nodes : k + Slack <= now + 1}
  IN \/ /\ Visited \cap nilNodes # {}
        /\ Panic
     \/ /\ Visited \cap nilNodes = {}
        /\ surbStore' = {c \in surbStore : \A k \in early : ~InList(c, surbETAs[k])}
        /\ surbETAs' = [k \in Times |-> IF k \in early THEN <<>> ELSE surbETAs[k]]
        /\ UNCHANGED <<nilNodes, etaNode, panicked>>

SweepSURBCtxs ==
  \/ /\ Visited \cap nilNodes # {}
     /\ Panic
  \/ /\ Visited \cap nilNodes = {}
     /\ surbStore' = {c \in surbStore : \A k \in Expired : ~InList(c, surbETAs[k])}
     /\ surbETAs' = [k \in Times |-> IF k \in Expired THEN <<>> ELSE surbETAs[k]]
     /\ UNCHANGED <<nilNodes, etaNode, panicked>>

----------------------------------------------------------------------------
(***************************************************************************)
(* The caller's side: sendLoopPacket allocates a context with              *)
(* eta = monotime.Now() + deltaT and stores it.                            *)
(***************************************************************************)
\* Mutant: the same context (SURB id) used for every packet.
NewSURBCtxSameId(d) ==
  /\ nextCtx <= MaxCtx
  /\ EtaAvailable(now + d)
  /\ ctxEta' = [ctxEta EXCEPT ![nextCtx] = now + d]
  /\ StoreSURBCtx(nextCtx, now + d)
  /\ UNCHANGED <<now, nextCtx>>

NewSURBCtx(d) ==
  /\ nextCtx <= MaxCtx
  /\ EtaAvailable(now + d)
  /\ ctxEta' = [ctxEta EXCEPT ![nextCtx] = now + d]
  /\ nextCtx' = nextCtx + 1
  /\ StoreSURBCtx(nextCtx, now + d)
  /\ UNCHANGED now

\* The monotonic clock advances.
Tick ==
  /\ now < MaxTime
  /\ now' = now + 1
  /\ UNCHANGED <<nextCtx, ctxEta, surbStore, surbETAs, nilNodes, etaNode, panicked>>

LifecycleInit ==
  /\ now = 0
  /\ nextCtx = 1
  /\ ctxEta = [c \in Ctxs |-> 0]
  /\ surbStore = {}
  /\ surbETAs = [k \in Times |-> <<>>]
  /\ nilNodes = {}
  /\ etaNode = [c \in Ctxs |-> NoNode]
  /\ panicked = FALSE

\* Any caller, any order: the store on its own.
LifecycleNext ==
  /\ ~panicked
  /\ \/ Tick
     \/ \E d \in 1..MaxDelta : NewSURBCtx(d)
     \/ \E c \in Ctxs : LoadAndDeleteSURBCtx(c) /\ UNCHANGED <<now, nextCtx, ctxEta>>
     \/ SweepSURBCtxs /\ UNCHANGED <<now, nextCtx, ctxEta>>

LifecycleSpec == LifecycleInit /\ [][LifecycleNext]_lifecycleVars

----------------------------------------------------------------------------
\* Every variable has its type; a stored context has been allocated.
TypeOK ==
  /\ now \in 0..MaxTime
  /\ nextCtx \in 1..(MaxCtx + 1)
  /\ ctxEta \in [Ctxs -> Times]
  /\ surbStore \subseteq 1..(nextCtx - 1)
  /\ surbETAs \in [Times -> Seq(Ctxs)]
  /\ nilNodes \subseteq Times
  /\ etaNode \in [Ctxs -> Times \cup {NoNode}]
  /\ panicked \in BOOLEAN

(***************************************************************************)
(* P1 of the spec: the ids in surbStore are exactly the ids reached by     *)
(* iterating surbETAs (so no node holds a nil Value), each in the node of  *)
(* its own ETA, which its etaNode handle names.  storeSURBCtx,             *)
(* loadAndDeleteSURBCtx and sweepSURBCtxs must keep map and tree in step.  *)
(***************************************************************************)
TreeCtxs == {c \in Ctxs : \E k \in Nodes \ nilNodes : InList(c, surbETAs[k])}

StoreIndexBijection ==
  /\ nilNodes = {}
  /\ surbStore = TreeCtxs
  /\ \A c \in surbStore : etaNode[c] = ctxEta[c] /\ InList(c, surbETAs[ctxEta[c]])
  /\ \A k \in Times : \A i \in 1..Len(surbETAs[k]) : ctxEta[surbETAs[k][i]] = k

(***************************************************************************)
(* The inductive form of StoreIndexBijection when ETAs never collide: the  *)
(* process has not panicked, no node holds nil, every node holds exactly   *)
(* one stored context whose ETA is the node's key, and every stored        *)
(* context's handle names that node.  Without DistinctEtas it fails at the *)
(* first appended list.                                                    *)
(***************************************************************************)
SingletonNodes ==
  \A k \in Times :
    surbETAs[k] = <<>> \/ \E c \in surbStore : surbETAs[k] = <<c>> /\ ctxEta[c] = k

StoredInOwnNode ==
  \A c \in surbStore : etaNode[c] = ctxEta[c] /\ surbETAs[ctxEta[c]] = <<c>>

BijectionInv ==
  /\ TypeOK
  /\ ~panicked
  /\ nilNodes = {}
  /\ SingletonNodes
  /\ StoredInOwnNode

(***************************************************************************)
(* Refinement: the map, tree and lists implement the set of live tokens of *)
(* SurbTokens, with the store's key set as that set.  Every store step is  *)
(* an Issue, a Retire, a Sweep that takes exactly the overdue tokens, a    *)
(* clock tick or a stutter (the panics change no token).                   *)
(***************************************************************************)
Tokens == INSTANCE SurbTokens WITH live <- surbStore

TokensRefinement == Tokens!TokensSpec

=============================================================================
