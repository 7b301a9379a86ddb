# Formal models of the Meson server's decoy subsystem

The repository's program code is `src/internal/decoy/decoy.go`: the decoy
traffic generator of a Meson (Katzenpost) mix node. The rest of `src/` is
build and CI configuration (`go.mod`, `src/unnamed/*`).

## 1. Inventory

### Components and their state

| Component | Code | State |
|---|---|---|
| SURB context store | `surbStore map[uint64]*surbCtx` (75), `storeSURBCtx` (406-419), `loadAndDeleteSURBCtx` (421-453) | id → context |
| ETA index | `surbETAs *avl.Tree` (74), comparator in `New` (495-506), `sweepSURBCtxs` (455-485) | one node per ETA, valued by the list of contexts with that ETA; `ctx.etaNode` points back |
| Reply validator | `OnPacket` (118-159) | `recipient` (70), `surbIDBase` (76) |
| Loop packet builder | `sendLoopPacket` (286-343), `makeSURBID` (386-392), `dispatchPacket` (372-384) | none of its own; writes the store |
| Worker loop | `worker` (161-239) | `docCache`, `wakeInterval`, `timer` |
| Provider selection | `sendDecoyPacket` (241-284) | none |
| Discard packets | `sendDiscardPacket` (345-370) | none; unreachable (`isLoopPkt := true` at 245) |
| Start | `New` (488-516) | creates all of the above |

### How they interact

Two goroutines share the store and the index, under the decoy's mutex:

* the worker goroutine. On each timer firing with a valid document, it
  sends one loop packet; `sendLoopPacket` stores the context (325), then
  builds (327) and dispatches (337) the packet. After each wake-up with a
  valid document it also sweeps expired contexts (232).
* the crypto worker. It calls `OnPacket` for every SURB reply. `OnPacket`
  checks the recipient and the SURB id base, retires the context
  (`loadAndDeleteSURBCtx`, 144), and only then decrypts and authenticates the
  payload (151).

The three store operations hold the lock for their whole body, so each one
is one atomic step. Their steps interleave freely.

### Hard behaviours

* **Two SURBs with the same ETA.** `storeSURBCtx` appends to an existing
  node's list. The code's comment says this "should be exceedingly rare".
* **Duplicated and tampered replies.** They come from the mix network.
* **A reply racing the sweep.** This happens near `eta + slack`.
* **Failures after the store.** `NewPacket` or `packet.New` can fail after
  the context was stored. A `NewSURB` error is logged and ignored (311).
* **Panics and restart.** A panic kills the server. `New` then starts over
  with an empty store, a fresh random recipient, and a `surbIDBase` that
  repeats within the same second.
* **The timer protocol.** The worker stops, drains and resets its timer
  (234-237).

### Correctness properties

These are what the code must guarantee:

* The map and the index agree: every stored context is listed in exactly
  the node of its ETA, and every listed context is stored.
* No operation panics.
* Each SURB's reply is accepted at most once.
* A genuine reply that arrives before `eta + slack` finds its context.
* Eventually (liveness): expired contexts are swept.
* The timer protocol never blocks the worker and never leaves a stale tick.
* While a document for the current epoch is cached, the worker keeps sending
  and sweeping; once halted, it returns.

## 2. Modules

### `SurbLifecycle.tla`: the store, the index, and the three locked operations

**Variables**

| Variable | Code |
|---|---|
| `surbStore` | the map's key set; a context is identified with its id |
| `surbETAs[k]` | the list held by the node with key `k`; `<<>>` means there is no node `k` |
| `nilNodes` | the nodes whose value is a nil `*surbCtx`, the state left by line 439 |
| `etaNode[c]` | `ctx.etaNode` (`NoNode` = nil) |
| `ctxEta[c]` | `ctx.eta` |
| `panicked` | set when the code panics |

`now` is `monotime.Now()`. `nextCtx` is the next fresh context.

**Actions**

* **`StoreSURBCtx`** is `storeSURBCtx`. The comparator's type assertion
  panics whenever the Insert compares against a nil node. The model makes
  the conservative abstraction `InsertMustPanic`, and otherwise allows a
  panic whenever a nil node exists, because the AVL search path is not
  modelled.
* **`LoadAndDeleteSURBCtx`** is `loadAndDeleteSURBCtx`. It has three cases:
  * the panics at 431, 444 and 446;
  * the list branch, including the line-439 assignment;
  * the single-node branch (449-450).
* **`SweepSURBCtxs`** is `sweepSURBCtxs`.
  * It visits the nodes in key order: all the expired ones, then the first
    unexpired one, where the loop breaks (`Visited`).
  * It panics if any visited node is nil.
  * Otherwise it deletes every context of every expired node, and the nodes
    themselves.
* **`NewSURBCtx(d)`** is the part of `sendLoopPacket` from the context
  literal to the store (320-325): `eta = now + deltaT`.
* **`Tick`** advances the clock.

`DistinctEtas` is a constant. TRUE means the ETAs of live contexts never
collide, which is what the code's comment assumes. FALSE lets them collide,
as nanosecond clocks and equal path delays allow.

### `Decoy.tla`: the whole subsystem around the store

It EXTENDS `SurbLifecycle`.

**Actions**

* **`SendLoopPacket`** stores a context with the process's `surbIDBase` and
  either dispatches one genuine reply or not. "Not" covers every failure
  after the store at 325, and a `NewSURB` failure, which leaves no usable
  SURB.
* **`OnPacket(r)`**:
  1. It drops a reply whose context was not issued since the last `New`.
     This is the random recipient check (129).
  2. It drops a reply whose base differs (136).
  3. It drops a reply whose context is not stored (145).
  4. Otherwise it retires the context, and counts an acceptance if the
     payload is genuine (151).
* **`WorkerSweep`** is the sweep call of the worker loop.
* **`DuplicateReply` and `TamperReply`** are the network. A lost reply is
  one that is never delivered.
* **`Restart`** is `New` after a panic. The store is emptied, `issued` is
  reset (a fresh recipient), and the base is drawn from `Bases`.

**History variables**

* `acceptCount` counts the acceptances of each SURB.
* `retired` is the set of contexts `OnPacket` has taken.

### `SurbTokens.tla`: what the store promises

The abstract specification: a set `live` of reply tokens. `Issue(d)` adds a
fresh token with ETA `now + d`; `Retire(c)` removes a live token; `Sweep`
removes exactly the tokens with `ctxEta[c] + Slack <= now`; `Advance` moves
the clock. `SurbLifecycle` implements it under the mapping
`Tokens == INSTANCE SurbTokens WITH live <- surbStore` (the other variables
map to themselves). The property `TokensRefinement == Tokens!TokensSpec` says
that the map, the AVL index and their three operations together behave as
this set. It holds only with distinct ETAs: with a collision the store's
retire at 439 leaves the nil node, and the next step panics, which no step of
the abstract set matches.

### `Scheduler.tla`: the worker loop

It EXTENDS `SurbLifecycle`: the worker and the crypto worker (`OnPacket`'s
retire) act on the same store.

**Timers are Go 1.13's** (`go.mod`): `timer.C` has a buffer of one;
`Stop` returns false when the timer is not armed (it fired, or was stopped);
`Reset` re-arms it and leaves `C` as it is; an interval of `maxDuration`
never fires in the life of a process.

| Variable | Code |
|---|---|
| `pc` | where the worker is in an iteration: `select`, `check` (208), `send` (215), `sweep` (224-232), `rearm` (234), `drain` (235), `done` (returned) |
| `docCache` | the epoch of `docCache` (`NoDoc` = nil) |
| `timerFired` | the local of 173 |
| `wakeInf` | `wakeInterval = maxDuration` (TRUE) or a finite draw (FALSE) |
| `timerArmed`, `timerInf`, `timerC` | the timer: armed, the interval it was last Reset to, the ticks in `C` (0..1) |
| `epoch` | `PKI().Now()` |
| `docOffer`, `docsOffered` | a document `OnNewDocument` is blocked handing over on the unbuffered `docCh`, and how many were offered |
| `halted` | `HaltCh()` is closed |

**Worker steps**, one per path through an iteration:

* `WorkerHalt` (175-177): the select takes the halt case.
* `WorkerRecvDoc` (178-203): it receives a document. Traffic disabled, a
  `PKI().Now()` error, a document for another epoch, or a provider node
  each `continue` to the select *without* touching the timer; otherwise the
  document is cached and the loop goes to the check.
* `WorkerRecvTimer` (204-205): it takes the tick.
* `WorkerCheck` (208-211): a `Now()` error, no document, or a stale one
  suspends (`maxDuration`); otherwise on to send (if the timer fired) or
  sweep.
* `WorkerSend` (215, `sendDecoyPacket` 241-284): either `sendLoopPacket`
  stores a context or provider or path selection fails and nothing changes.
* `WorkerSweep` (224-232): a finite interval, then `sweepSURBCtxs`.
* `WorkerRearm`, `WorkerStopFailed`, `WorkerDrain` (234-237): if the timer
  fired or `Stop` succeeds, `Reset`; if `Stop` fails, drain `C`, then
  `Reset`.

**Environment**: `TimerExpire` (the runtime fills `C` when a finite timer is
due), `OfferDocument` (`OnNewDocument` for some epoch, at most `MaxDocs`),
`NextEpoch`, `Halt`, `CryptoRetire` (`OnPacket`'s retire at 144) and
`ClockTick`.

**Fairness.** `SchedFairness` assumes weak fairness of the worker (its
goroutine keeps being scheduled; none of its steps blocks except the select
and the drain), weak fairness of `TimerExpire` (the runtime fires an armed
finite timer), and strong fairness of the halt case (Go's `select` picks
uniformly at random among the ready cases, so a case that is ready
infinitely often is taken). Nothing is assumed of the PKI worker, the epoch,
the clock or the replies: documents may stop coming.

## 3. Runs

| Run | Config | Expect | Checks |
|---|---|---|---|
| `lifecycle` | `MCSurbLifecycle.cfg`: 3 contexts, time 0..3, deltas 1..2, slack 1, distinct ETAs | pass | `TypeOK`, `StoreIndexBijection`, `BijectionInv`, `TokensRefinement` |
| `lifecycle_eta_collision` | `MCSurbLifecycleCollide.cfg`: the same bounds, ETAs may collide | violation | `StoreIndexBijection` |
| `decoy_collisions` | `MCDecoy.cfg`: 3 contexts, time 0..3, deltas 1..2, slack 1, ETAs may collide, one base, at most 2 copies of a reply in flight | pass | `DecoyTypeOK`, `AcceptedAtMostOnce`, `ReplyHasToken`, `DecoyInv`, `DroppedOnlyWhenDue` |
| `scheduler` | `MCScheduler.cfg`: 3 contexts, time 0..3, delta 1, slack 1, distinct ETAs (`DistinctEtas = TRUE`), epochs 0..1, 2 documents, traffic on, not a provider, `Now()` never fails | pass | `SchedTypeOK`, `DrainNeverBlocks`, `NoStaleTick`, `TimerInv`, `KeepsSending`, `ExpiredEventuallySwept`, `HaltObserved` |
| `scheduler_now_error` | `MCSchedulerNowError.cfg`: the same, `Now()` may fail | violation | `KeepsSending` |

**The properties**

* **`StoreIndexBijection`** says the map and the index agree. There is no
  nil node, the map's keys are exactly the contexts listed in live nodes,
  each stored context is listed in the node of its ETA and points to it,
  and each listed context has that node's ETA.
* **`BijectionInv`** is its inductive strengthening. With distinct ETAs,
  every node holds exactly one context.
* **`TokensRefinement`**: the store implements `SurbTokens` (above).
* **`AcceptedAtMostOnce`** says that however replies are duplicated, and
  across restarts, `OnPacket` accepts at most one reply per SURB.
* **`ReplyHasToken`** says that a genuine reply to a context of the current
  process that is in flight, not yet retired and before `eta + slack` finds
  its context in the store. It breaks if the sweep takes contexts early.
  The model makes the store and the dispatch of `sendLoopPacket` (325, 337)
  one step, which is sound for the code's order (the reply cannot overtake
  a step that has not happened) but means a swapped order cannot be written
  down: the ordering hazard at 325 (store after dispatch) is not checked.
* **`DroppedOnlyWhenDue`** (action property): a step takes a context out
  of the store only by retiring it, once it is past `eta + slack`, or on a
  panic. A sweep that compared against the wrong bound would break it.
* **`DecoyInv`**: the inductive strengthening of the two above (section 4).
* **`DrainNeverBlocks`**: at the drain (235) a tick is in `C`, so the worker
  never hangs there, even when the timer expired between the select taking a
  document and `Stop`.
* **`NoStaleTick`**: an armed timer's channel is empty, so `Reset` never
  leaves an old tick that would wake the worker early.
* **`TimerInv`**: the invariant both rest on. It relates `pc`, `timerFired`,
  `timerArmed` and `timerC`: at the select an unarmed timer has its tick in
  `C` (the `continue` paths keep that), after a wake-up by the timer the
  timer is unarmed and `C` empty, after a wake-up by a document an unarmed
  timer has its tick in `C`.
* **`KeepsSending`** (liveness): while a document for the current epoch is
  cached, the worker reaches the send again, unless the epoch moves on, it is
  halted, or the server panicked.
* **`ExpiredEventuallySwept`** (liveness): a context past `eta + slack` is
  eventually removed while the worker is scheduled.
* **`HaltObserved`** (liveness): after Halt the worker returns.

**Bounds.** Three contexts are the fewest that make every branch happen:
two contexts colliding, plus a third whose Insert meets the nil node.
Times up to 3 with deltas up to 2 give contexts that expire, contexts that
do not, and sweeps that stop at the first unexpired node. Two copies per
reply are enough for a duplicate. In `scheduler`, two epochs and two
documents give a document for the current epoch, one for the next epoch
arriving early (rejected at 191), a roll-over that makes the cached one
stale, and a second document that resumes the worker; delta 1 keeps the
state space at 70k states while contexts still expire.

**Mutants.** Each property has one, listed in `PROJECT.json`. Each mutant
changes one definition the way a plausible bug would: the id counter not
advanced, a sweep that keeps its nodes, an inverted list check, a lookup
without delete, a sweep one tick early, a `Stop`-failure test that ignores
`timerFired`, a `Reset` without the drain, a sweep that forgets to
re-schedule, a send that skips the sweep. TLC finds each of them violated.

**Findings.**

1. `lifecycle_eta_collision` finds the line-439 bug in four states:
   store two contexts with ETA 1; retire one of them; the node's value is
   now a nil context, and the other context is still in the map. From there
   a retire of that other context, a sweep, or a store panics.
   `decoy_collisions` lets ETAs collide and shows that the end-to-end
   properties still hold: every path into the bad state ends in a panic and
   a restart, not in a double acceptance or a premature drop.
2. `scheduler_now_error` shows that one transient `PKI().Now()` error at the
   wake-up check (208-209) suspends the worker with `maxDuration` although
   the cached document is for the current epoch. Nothing re-arms a finite
   timer until another document arrives, so decoy traffic and sweeps stop.
   Spec 4.3 says the loop stays scheduled while the cached snapshot matches
   the current epoch.

## 4. Proofs (checked by TLAPS)

`SurbLifecycleProofs.tla`:

* **`TypeCorrect`**: `LifecycleSpec => []TypeOK`, for every value of the
  constants under their `ASSUME`s.
* **`StoreIndexBijectionHolds`** and **`BijectionInvHolds`**: under
  `DistinctEtas`, `LifecycleSpec => []StoreIndexBijection` and
  `[]BijectionInv`.
* **`TokensRefinementHolds`**: under `DistinctEtas`,
  `LifecycleSpec => TokensRefinement`. The initial state maps to
  `TokensInit`; with `BijectionInv`, a store step is `Issue`, a retire is
  `Retire`, a sweep is `Sweep` (each swept context is alone in its expired
  node, so the contexts removed are exactly the overdue ones), a tick is
  `Advance`.

`StoreIndexBijection` alone is not inductive. It does not say that a node's
list is a singleton, and the store step needs that fact to know the new
ETA's node is empty. The inductive invariant is `BijectionInv`:

```
TypeOK /\ ~panicked /\ nilNodes = {} /\ SingletonNodes /\ StoredInOwnNode
```

TLC checks it on the `lifecycle` run. The proof shows three things:

1. `LifecycleInit => BijectionInv`;
2. each of the three store operations and `Tick` preserve it. The store step
   uses `EtaAvailable` to know the new ETA's node is empty; the retire step
   is then always the single-node branch; the sweep step deletes exactly the
   contexts whose own node expired;
3. `BijectionInv => StoreIndexBijection`.

The lemmas about one-element sequences (`SingletonList`, `EmptyList`) are
stated once and cited.

`DecoyProofs.tla` proves the `Decoy` properties for every value of the
constants, **with or without colliding ETAs**, across duplication, tampering,
panics and restarts:

* **`DecoyInvHolds`**: `Spec => []DecoyInv`.
* **`DecoyTypeCorrect`**, **`AcceptedAtMostOnceHolds`**,
  **`ReplyHasTokenHolds`**: each follows from `DecoyInv`.
* **`DroppedOnlyWhenDueHolds`**: the action property `DroppedOnlyWhenDue`,
  from `DecoyInv` and the lemma that every step satisfies it.

Neither `AcceptedAtMostOnce` nor `ReplyHasToken` is inductive. `DecoyInv`
strengthens them with four facts; TLC checks it on `decoy_collisions`:

* `NetBounded`: at most `MaxCopies` replies of a SURB are in flight. The
  type of `net` after a duplicate or a tamper needs it.
* `Unallocated`: a context not yet allocated has no reply in flight and no
  acceptance. Without it, the fresh context `sendLoopPacket` stores could
  already carry a reply or an acceptance.
* `ListedAtOwnEta`: a node lists only allocated contexts whose ETA is the
  node's key. This is the weak half of the bijection that survives
  collisions, and it is what the sweep case needs: a context the sweep
  takes from an expired node is itself expired.
* `AcceptedRetired`: an accepted context was accepted once and is not in
  the store. A retire needs the context in the store, so the acceptance it
  counts is the first.

The proof has one lemma per action of `Next`. Helper lemmas state the shape
of a retire and of a sweep (either a panic that changes nothing, or the
exact removal), that emptying nodes keeps `ListedAtOwnEta`, what `Append`
does to list membership, and that replies to distinct contexts are distinct
records.

`SchedulerProofs.tla`:

* **`TimerInvHolds`**: `SchedSpec => []TimerInv`, for all constants.
  `TimerInv` is inductive as it stands; the proof has one lemma for the
  worker's nine steps and one for the environment's.
* **`DrainNeverBlocksHolds`**, **`NoStaleTickHolds`**: follow from it.
* **`SchedImplementsLifecycle`**: `SchedSpec => LifecycleSpec`. Every
  scheduler step is, on the store's variables, one of the store's locked
  operations taken without a prior panic, or a stutter (lemma
  `SchedStepIsStoreStep`). The worker's send is a store, its sweep a sweep,
  the crypto worker's retire a retire, and the clock a tick.
* **`SchedStoreIndexBijection`**, **`SchedTokensRefinement`**: under
  `DistinctEtas`, the bijection and the refinement of `SurbTokens` hold for
  the store inside the running worker loop. They follow from the store's
  theorems by the composition theorem.
* **`SchedTypeCorrect`**: `SchedSpec => []SchedTypeOK`, from `TypeCorrect`
  through the composition theorem, `TimerInv`, and an inductive typing of
  the PKI side and the wake intervals (`DocsTypeOK`).

**Only model-checked**

* The collision runs and the `Now()`-error run (violations, found by TLC).
* The three liveness properties of `scheduler`: `KeepsSending`,
  `ExpiredEventuallySwept` and `HaltObserved`. They need fairness and
  ENABLED, which the provers cannot handle.
* `TokensRefinement` and `StoreIndexBijection` with colliding ETAs. They are
  false there: the `lifecycle_eta_collision` run is the counterexample.

**Out of the provers' reach**

* Liveness and ENABLED.
* Induction over recursive definitions.
* Any module that reaches a RECURSIVE operator.

## 5. Not modelled

* **Provider selection** (261-273) is a search over a random permutation
  with no state; the model keeps only its outcome (found or not). The
  provider-layer panic (248-252) is a configuration precondition.
* **The exponential draw** of the wake interval (225-229): only "finite" is
  kept; no property depends on its value.
* **`OnNewDocument` after Halt** (115): the send on the unbuffered `docCh`
  blocks forever once the worker has returned. Whether that can happen
  depends on the server's shutdown order, which is outside `src/`.
* **Not planned:**
  * discard packets (unreachable);
  * metrics and logging;
  * Sphinx cryptography and path selection (external libraries, abstracted
    to choices);
  * 64-bit SURB id collisions (assumed never to happen).
