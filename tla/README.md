# A TLA+ verification project for MoE4All

MoE4All (the `infr-*` crates) runs large language models on a single machine: a Vulkan/Metal/CPU
engine with paged experts, a concurrent serving layer, disk-backed conversations, speech and
embedding services and a model downloader. This directory holds TLA+ modules translated from the
Rust source, TLC configurations that check them on small instances, and theorems proved with TLAPS
for every value of the constants. `PROJECT.json` maps every definition to the source lines it
stands for and lists runs, hazards, findings, theorems and, for every property of a passing run, a mutant of the model that breaks it.

Paths below are relative to `src/crates/`; `parallel.rs` is `infr-llama/src/parallel.rs`,
`runner.rs` is `infr-llama/src/seam/runner.rs`.

## 1. Inventory

| Component | State it keeps | Operations | Interacts with | What is hard | What makes it correct |
|---|---|---|---|---|---|
| **KV slot pool** (`parallel.rs` 217-240, 1096-1148, 2039-2721) | `Mutex<Pool>`: per slot the KV, `busy`, LRU tick, image key, `idle_since`; condvar `freed` | three checkouts (resident, cold cache, image), guard drop, detached return | request threads, cold worker, scheduler, session cache | the lock is dropped in the middle of a checkout; KVs move out of and into the pool; one condvar, two kinds of waiters | one owner per KV; no sleeper beside a free slot; a slot's key describes its KV; every call returns |
| **Cold-session worker** (`parallel.rs` 1150-1333) | its reservation, stop flag | scan, reserve, spill, return, timed/untimed wait, final flush | pool, session cache, step gate | races with checkouts; a failing spill at shutdown | flush complete and finite |
| **Concurrent scheduler** (`parallel.rs` 805-1094, 2723-3885, 4929-5255) | `DecodeBatchQueue` (`arriving`, `waiting`), `batch_interrupt`, `decode_ready`, the active cohort, per-request event and acknowledgement channels | register, enqueue, gather, admit, prepare, coalesce, prefill, token group, retire, fail, close | request threads (rendezvous channels), pool, runner | flag outside its lock, three waits, unwinding callbacks, failure while works are queued | no forgotten work, bounded cohort, no waiter without a work, exclusive prefill, progress |
| **Batched token runner** (`runner.rs` 525-591, 10754-11425; `parallel_token_delivery.rs`) | per-lane positions, samplers, resident rows | poll, feed, sample, deliver, acknowledge, report | scheduler, step gate | interrupted before the first step; refused tokens | every acknowledgement is taken; rows are kept |
| **Speculative decode** (`infr-llama/src/mtp/`, Lookup) | head lanes beside each KV | seed, draft, verify, invalidate | pool, scheduler | two states to keep together | head and KV agree |
| **Engine start and shutdown** (`parallel.rs` 1150-1187, 1337-1367, 1570-1665) | stop flags, join handles | start, drop | both workers | notification against wait; order of the joins | both workers end before the fields they use |
| **Session cache** (`infr-llama/src/session_cache.rs`) | catalogue, main and MTP files | spill, publish, take, restore, return, gc | cold worker, checkout, step gate, head lanes | crash or error between two renames, detached publication, eviction of a file somebody is about to publish | a catalogued entry has its file; a sidecar fits its main file; a conversation is lost only by policy |
| **Step gate** (`infr-llama/src/sampling.rs` 340-400) | `next`, `serving` tickets | enter, drop | every GPU submit | a woken waiter whose turn it is not, a lost wakeup | exclusion, FIFO, progress |
| **Elastic VRAM arena** (`infr-vulkan/src/unified.rs`; the slot side of `pager.rs`; segmented KV in `lib.rs`) | free lists, leases, generation, frozen KV coordinates, phase | plan, retire, commit, restore, drop | paged experts, KV growth, Prefill ring, runtime buffers | leases dropped between plan and commit, a floor that Prefill borrows | disjoint ranges, nothing leaked, plans never stale, floor restored |
| **Expert pager, host tier** (`infr-core/src/pager.rs`, `hostpager.rs`, `infr-vulkan/src/pager_gpu_owner.rs`) | residency tables, pins, uploads | resolve, evict, upload | arena, runner | asynchronous uploads | a used expert is resident |
| **CPU spin pool** (`infr-cpu/src/pool.rs`) | generation, task cursor, check-ins, sleeping flags, one panic flag | run, park_workers, drop | kernels | park handshake, late worker, two callers and one job slot | each task once, closure outlives workers, a panic is blamed on its own run |
| **HTTP server** (`infr-server/src/lib.rs`) | permits, cancel latch, deadline | admit, stream, abort | engine | disconnect, deadline and permit race | permits returned, reason right |
| **Idle services** (`infr-tts`, `infr-audio`, `infr-embedding`) | lazily loaded model, reaper | request, unload, drop | their engines | reaper against request and drop | no use after unload |
| **Hub downloads** (`infr-hub/src/ranged.rs`, `parts.rs`) | part file, sidecar plan, lock | claim, write, record, commit | file system, HTTP | crash, resume, changed upstream | recorded cells are on disk |
| Templates, parsers, GGUF, kernels, CLI, models | — | — | — | sequential or numerical | left to unit tests |

A request thread tokenizes, **registers** with the scheduler so that the worker waits for it
briefly, **checks a slot out** (possibly seeding it from another slot or from disk), moves its KV
into a `BatchWork` and **enqueues** it. The scheduler worker admits it into its cohort, prefills it,
runs token groups, exchanges each token and its acknowledgement with the thread, and **gives the KV
back** in the final event; the guard's drop returns it to the pool and wakes a waiter. Constrained
text and image prefills generate on the guard's own KV, without the scheduler.

## 2. Modules

### `SlotPool` — slots, guards, cold worker

One action per critical section of the pool lock. `slots[s]` is `Slot` (the KV is named after its
home slot, so misplacing one is visible), `content[kv]` is what the KV's recorded tokens stand for
(nothing, text, or the state of one image), `req[r]` is the program counter and `SlotGuard` of a call
plus the copy source it has reserved, `cold` the maintenance worker.

| Action | Code |
|---|---|
| `CheckoutSleep` | `freed.wait` when every slot is busy |
| `CheckoutText` | first critical section of `checkout_with_cold_cache` / `checkout_resident`: target and source reserved, a slot with an image reset |
| `Seeded` | the unlocked spill, restore or copy, and the second critical section |
| `CheckoutImage` | `checkout_multimodal` and its cold-cache form |
| `RunLegacy` | a generation on the guard's KV, failing or not |
| `Release` | `SlotGuard::drop`, whose `notify_one`/`notify_all` is `NotifyFreed` |
| `ColdReserve`, `ColdSleep`, `ColdReturn` | `cold_session_worker` |

Abstracted: which free slot the prefix score and the LRU stamp choose, and when an idle slot has
aged (any choice is allowed); token values; the files.

### `ParallelSeam` — the scheduler, extending `SlotPool`

Adds registration, the queue, the interrupt flag, the cohort, the works and the scheduler's program
counter. A prompt is the number of rows still to prefill: 0 is `Decode`, up to `ShortRows`
`ShortPrefill`, more `LongPrefill`; `PromptRows` is a whole prompt. Channels are the rendezvous
channels of the code (`sync_channel(0)`), so a send and its receive are one step, and a send to a
thread that has unwound fails. `SchedPoll` and `SchedDrain` are separate because the flag is swapped
before the lock is taken. `SchedYield` is the runner's poll before a step; `SchedAccount` records
what the runner reports as resident, which is nothing when the group fed nothing. `GiveBack` is
`deliver_batch_state` with `return_detached_slot` for a thread that is gone.

Left out: QSA boundaries, Lookup and MTP cycles (a token group may end after any step, which covers
the group ends they cause), benchmark entry points, panics other than a stream callback's.

### `EngineShutdown`

The drop of both workers and their last steps. Evaluating a wait condition and starting to wait are
two steps, because the drops store and notify without the mutex.

### `StepGate` and its abstraction `FifoLock`

Each critical section of the gate's mutex is one step: `Enter` (take a ticket, wait unless it is
served), `Recheck` (a woken waiter evaluates its condition again), and the two halves of
`GatePass::drop`, `Leave` (`serving += 1`) and `Notify` (`notify_all`, after the mutex is free).
`FifoLock` is the promise: a line of threads whose head has the baton. `GateIsFifo` is the refinement;
the line is the threads in the order of their tickets, from the one being served.

### `SessionCache`, extending `FifoLock`

Conversations of idle slots written to disk and brought back, by the cold worker and by checkouts. A
snapshot is a main file and, when the MTP lane describes the same tokens, a sidecar; each step of a
spill (write and sync, rename the sidecar, rename the main file, release the KV, publish) is an
action, so errors, a killed process (`Crash`) and other threads fall between any two.

| Action | Code |
|---|---|
| `SpillWrite`, `RenameMtp`, `RenameMain`, `Release` and their failures | `spill_with_gate` |
| `WorkerReserve`, `WorkerDrop`, `Publish` | one round of `cold_session_worker`: the catalogue is unlocked from the reservation to the publication |
| `Begin`, `Lookup`, `Free`, `Restore`, `RestoreFails` | `checkout_with_cold_cache`, `take_best_continuation`, `restore`, `return_entry` |
| `GcList`, `GcSweep` | `gc_root` in two steps, because files appear between listing and removing |
| `Crash` | the process is killed and `SessionCache::open` reads the directory again |

A checkout holds the gate, the head lanes and the catalogue from lookup to collection, so its locks
are its program counter. Abstracted: a KV is a conversation and a number of turns; which resident
prefix is copied and image slots belong to `SlotPool`; file formats, checksums and headers.
Assumed: one request in flight per conversation; a kill, not a power cut (the operating system's
pages survive); unlink does not fail; no other process uses the directory.

### `SpinPool` and its abstraction `ForkJoin`

`run`, the worker loop, `park_workers` and `Drop`, with one step per access to a shared variable:
the compare-exchange on `in_run`, the writes of the job, the bump of `seq`, a read of each sleeping
flag, the draws from `cursor`, the check-in, and on the worker's side the flag, the second look at
`seq` and `park`, which may return for no reason. Memory is sequentially consistent: that the
acquire and release orderings suffice is not shown. The adaptive spin budget is kept only as zero or
not. `park_idle_workers` sets a hint that makes a worker park early, which `GiveUp` may do at any time; a run of
one task, a pool without workers and the rayon fallback leave the pool as it is. `ForkJoin` says only
that the indices of a run are handed out once each and that it returns after the last of them;
`RunsOnce` is the refinement.

### `UnifiedArena` and its abstraction `CellLeases`

The range allocator, the owner leases and the planners of `unified.rs`, with the steps of `pager.rs`
and `lib.rs` that use them. Addresses are logical and a cell is one alignment unit. `free` and `live`
are the allocator's two tables; an allocation remembers its batch (`lease`), because the ranges of
one claim come back only when the last handle of the batch has been dropped.

| Action | Code |
|---|---|
| `StartWork`, `StartGrow`, `StartRing`, `StartDecode`, `StartRestore` | the callers that take the execution gate: `alloc_unified_buffer_locked`, `ensure_segmented_kv_batch_inner`, `enter_prefill_layer`, `enter_decode`, `activate_unified_phase` |
| `PlanWork`, `PlanRing`, `ReserveKv`, `PlanGrow` | `plan_owner_claim`, `build_prefill_layout` with `plan_unit_claim`, `reserve_kv_layout`, `plan_exact_claim`; `Settle` is the victims and the floor check |
| `Retire`, `Commit` | `commit_unified_claim`: victims one by one, then the ranges |
| `RestoreSlot`, `EndRestore` | `try_restore_loaned_slots` for each pool, and the generation that is read again at the end |
| `StartTrim`, `TrimSegment`, `EndTrim` | `reset_benchmark_session_state` (from `clear_benchmark_slots`) with `trim_segmented_kv`: the tail goes, the first segment and the reservation stay |
| `CloseWork`, `CloseSegment`, `DropReservation`, `GiveBack` | clients dropping handles at any time, without the gate; `Drop for UnifiedAllocation` |

`CellLeases` says that no cell is leased twice and none comes back before its whole lease is closed;
`LeasesHold` is the refinement. Abstracted: which experts are in which slot, how they are relocated, and
parking of exchange slots; the layout is any that `ArenaAssumption` allows; which slots are protected is any set of `Pins`; a unit of a Prefill
request is one cell and the ring is one request; a session is one segmented buffer (in the code one per
K, V and QSA plane of every layer; they grow in one batch under one lease and are trimmed one after another, so a
lease has a kept and a trimmed part there exactly when it has one here). A trim may follow any
growth, in one batch or segment by segment, as benchmark cases and slots seeded or restored at a depth do. The branches for
a stale plan and for a claim below the floor are kept although the runs show that the model never
takes them (`NeverStale`, `FloorKept`). One thing seen and not a property: `EndRestore` and `Commit`
store the generation as it is when they finish, so cells given back meanwhile are remembered as seen
and stay free, not expert filler, until the next change; no document promises a time.

### Proof and instance modules

`SlotPool_proofs`, `ParallelSeam_proofs`, `EngineShutdown_proofs`, `StepGate_proofs`,
`SessionCache_proofs`, `SpinPool_proofs` and `UnifiedArena_proofs` hold the theorems. `MCSlotPool`, `MCParallelSeam` and `MCUnifiedArena` give the constants values (the image
key of each call, the slots of the arena) and the symmetry sets.

## 3. Runs

| Run | Question | Bounds |
|---|---|---|
| `pool` | Does any schedule of checkouts, copies, spills and returns lose, double or mislabel a KV, or leave a call waiting? | 3 text calls and 1 image call on 2 slots, with and without the cold worker |
| `seam_safety` | The same across the hand-over, and: is work forgotten, a cohort overfilled, an acknowledgement left behind, a decode run inside a long prefill? | 3 text calls, whose callbacks may panic, and 1 image call; 3 slots, a cohort of 2, prompts up to 2 rows, budget 1 |
| `seam_live` | Does every call that starts return? | 2 scheduled calls (one may panic) and a constrained one on 2 slots, cohort with room, no session cache |
| `shutdown` | Do the workers end in order and is the flush complete and finite? | 2 slots, each empty or with a conversation; spills may fail |
| `step_gate` | Is the gate a FIFO lock, and is every ticket served? | 4 threads, 7 tickets |
| `session_cache` | Do catalogue, files and lanes stay consistent through errors, evictions and kills, and what may lose a conversation? | worker and 2 callers, 2 slots, 2 conversations, 3 turns, 2 spills, 1 kill; a cap of 3 files |
| `spin_pool` | Is every index run once, does the closure outlive its users, is a panic blamed on its run, is any wakeup lost? | 2 workers, 2 callers of which 1 parks, 2 tasks of which 1 may panic, 2 generations and the drop |
| `arena` | Do claims, restores and drops keep the arena tiled, plans fresh, KV coordinates and the floor available? | 2 shards of 4 cells, 6 slots of two pools, 2 sessions of 2 segments, rings of 4 or 5 cells |
| `seam_full`, `seam_image`, `shutdown_hang`, `arena_trim` | Statements of docs and comments that the code does not keep, see section 6 | 2 or 3 calls on 2 slots; 1 slot for the shutdown; the arena as in `arena` |

**Why these bounds are enough.** More calls than slots makes threads sleep; two slots are the least
with a target and a source at once, and a third lets a queue form behind a full cohort of two while
another call waits for a slot. One image among text calls gives matching, foreign and absent keys.
`PromptRows = 2` with `ShortRows = 1` reaches all three phases; `LongLimit = 1` makes two long
prompts take turns. A budget of one token reaches the end of the budget, the refused token and the
end of stream; the run `seam_image` uses two. Symmetry is used in `seam_safety`
only, over slots and text calls, whose constants are symmetric there; no liveness is checked
with it. These models have no unbounded counter: `gen` stops at `MaxNew`, `rest` at `PromptRows`,
`waiting` holds each call at most once.

Four threads and seven tickets let a thread come back while three others wait and are overtaken by
nobody. Two spills are the least with a snapshot evicted or restored while another is being written,
and the cap of 3 (a main file weighs 1, a sidecar 1) is reached by two snapshots with sidecars. In
the pool two callers compete for the job slot, two generations let a worker be late for one and on
time for the next, and two workers let one sleep while the other works. In the arena the slots of the
two pools are interleaved, as a corridor that starts in one shard and ends in another needs; `MCPins` protects one
slot or none; a ring of 5 is always split over the shards, a ring of 4 when KV is live in the first (and, with
nothing left for runtime buffers, may lie in the second); the floor is 3 cells, so Prefill takes it. Sessions are symmetric there, and no liveness is checked.

`CHECK_DEADLOCK FALSE` appears where the system or its bounds end: the shutdown, a pool that has been
dropped, a gate whose tickets and a cache whose turns are used up. In `pool`, the scheduler's models
and `arena`, a stop is reported as a deadlock (the quiet end of the first two is an explicit step,
`Idle` or `Quiet`).

**Fairness.** Threads are scheduled (weak fairness on each thread's own steps, on the scheduler and
on the cold worker while it holds a slot), and a stream callback returns. Nothing is assumed of
clients: a call may never start, a callback may refuse every token or none. A thread waiting for a slot has
strong fairness on its checkout: neither the mutex nor the condition variable is FIFO, so weak
fairness would not do, but a waiter can only be overtaken by the finitely many other calls and by
the cold worker, which leaves a slot alone for `session_idle` after it has returned it. `seam_live`
keeps a lane of the cohort spare, because with a full cohort the code does not make progress
(`seam_full`), and has no session cache, whose effect on waiting is in `pool`.

In `StepGate` the threads inside the gate have weak fairness: steps end and passes are dropped, also
by unwinding. In `SessionCache` a thread that has begun goes on, except that
the worker's publication has no fairness, because it competes for the catalogue's mutex; nobody has to begin. In `SpinPool` the operating system runs every thread and each task ends; nobody
has to call `run`, and parking and spurious wakeups are not fair. `UnifiedArena` states no fairness.

**Mutants.** For each property the model has an operator, marked "Mutant", that is a plausible
slip in the mapped code (a notification dropped, a key not recorded, an early return, a capacity
that ignores the cohort, an off-by-one at the budget); with it the property is violated.

## 4. Proofs

All proofs are checked by `tlapm` with SMT, Zenon and LS4; they assume only the named assumptions on
the constants (`PoolAssumption`, `SeamAssumption`, `ShutdownAssumption`, `CacheAssumption`), which say that the distinguished values are
distinct, the slots finitely many and `KeyOf` a function; the pool of workers has its own `PoolAssumption`, which says that
there is a worker and that callers and workers are different threads. `ArenaAssumption` describes the
layout that `ExpertArenaLayout::build` hands to the arena: shards that do not overlap, slots inside
them and apart from each other, a floor between two coordinates, and in the floor at least the
`MinEnabled` slots of each pool (`build` places `min_enabled_slots + 1` there).

**`SlotPool_proofs`.** For any sets of calls and image keys, finite or not, and any finite set of slots:

- `PoolTypeCorrect`: `PoolSpec => []PoolTypeOK`.
- `SoleOwnership`: `PoolSpec => []SoleOwner`. `SoleOwner` is not inductive: that a release puts a KV
  into its own slot depends on what the guard remembers. `IInv` adds the shape of a guard at each
  program point (`GuardShape`), of the cold worker (`ColdShape`) and of a slot (`SlotShape`), and
  says pairwise what `SoleOwner` says of the set of holders (`Exclusive`). Two lemmas do most of the
  work: `CheckoutInv` (both checkouts) and `ReturnInv` (a guard's release and the return of a copy
  source, with the notification, of which `NotifyMovesNothing` says that it moves no KV).
- `KeysAreTrue`: `PoolSpec => []KeyTruth`. What a free slot says of its KV depends on what its last
  holder left in it, so `KInv` follows the state through the holders: a guard's KV holds nothing or
  what its call computes (`HeldState`), a reserved source and a KV being spilled hold token state
  (`ReservedState`). `HolderExcludes` gives the frame: whoever writes a KV holds it, so no free slot
  and no other guard is affected.

- `PoolStrandsNobody`: `PoolSpec => []NoStrandedWaiter`. The property compares the number of free slots with the
  number of threads on their way to one, and every notification wakes only one sleeper, so the
  invariant has to say who else is coming. `StrandInv` is that only finitely many calls have begun
  (they may be infinitely many in all, and cardinalities need a finite set) together with the
  property; its step lemma goes by what an action does to the three numbers involved, free slots, woken and sleeping
  threads.

`KeysAreTrue` is about calls on their own guards. With the hand-over `KeyTruth` fails when a thread
unwinds (`seam_image`).

**`ParallelSeam_proofs`.** For any slots, calls, cohort sizes, prompts and budgets. Two invariants.

- `SeamInv` is what the scheduler knows of its calls. A call the scheduler counts as arriving is at one of the
  program points between registration and queue (`Registered`, which is why `arriving` never underflows); no
  call is listed twice in queue and cohort (`QueueShape`); the token group is part of the cohort and has
  tokens out only while they are delivered (`GroupShape`); a scheduled thread listens or has unwound
  (`Listeners`); only scheduled calls have a work, unspent as long as it is queued (`WorkShape`); a budget
  is used up only at the few places that retire its call next (`Budget`); and there is no long prompt in the cohort
  while a token group runs (`NoLong`). It gives `SeamIsTyped`, `CohortFits`, `AcksAreExpected`, `WorkIsNotStranded`
  and the action property `LongPrefillIsExclusive`.
- `OwnInv` adds who owns each KV: the shape of a guard with and without a work (`SeamGuards`), the KV
  of a work, which is the one its guard has given away, and again `ColdShape`, `SlotShape` and,
  pairwise, `SeamExclusive`. It gives `SeamHasSoleOwner` and `WaitersHaveWork`. `HoldersKept` and
  `NothingMoves` are the frame; `Acquired` and `LetGo` are the two ways a KV changes hands.
- `NobodyStrandedNextToASlot` is `NoStrandedWaiter` with the hand-over, where the scheduler also frees
  slots, for threads that have unwound.

**`EngineShutdown_proofs`.** For any set of slots: `ShutdownTypeCorrect`,
`WorkersEndBeforeFieldsDrop` (`FieldsOutliveWorkers` with "a worker exits only once stopped" is
inductive given the types), and `ColdWorkerFlushes` (a slot whose conversation is still resident is
idle or reserved, so the scan that lets the worker leave found none).

**`StepGate_proofs`.** For any set of threads and number of tickets: `GateTypeCorrect`,
`GateExcludes` (`OneHolder`) and `GateImplementsFifo` (`GateIsFifo`). `GateInv` says that a queued
ticket is in the window from `serving` to `next` (`InWindow`), that no two threads have the same
(`Unique`), that every ticket of the window has its thread (`Owned`) and that a holder's is the one
being served (`Served`). `Owned` and `Unique` make the line a function of the tickets
(`LineFacts`); `EnterJoins` and `LeaveDeparts` are the two steps that move it, all others stutter.

**`SpinPool_proofs`.** For any numbers of workers, tasks and runs and any set of callers:
`NoStaleJobEver`, `EveryVerdictIsOwn` and `PoolRunsOnce` (`RunsOnce`). The argument is about
counting: while a job is published, the check-ins `done` are the workers that have seen its
generation and left its loop (`Count`), and before it is published every worker has met
the generation before (`Met`). So when `done` reaches the number of workers there is nobody in the
loop (`AllChecked`), and the caller may forget the closure. `Held` says that the indices in hand are
below the cursor and distinct, `Blame` that the one panic flag belongs to the run in progress.
`PoolStepRest` and `PoolStepCount` split the step lemma, because only the second needs the theorems
about cardinalities.

`PoolIsTyped` and `BurstsParkEverybody` (the action property `BurstParks`) need `MoreInv` beside it: the
bounds of the counters, that `in_run` is never left latched without an owner, and `Forced`, that while a
burst is the only one and its request stands, every worker that has joined its generation has read the
request. A burst that ends while another is on takes the request back, so a request that stands has
stood since before the first of them joined.

**`SessionCache_proofs`.** For any threads, slots, conversations, cap and numbers of spills and kills:
`CatalogAlwaysOnDisk`, `NothingLitters`, `SidecarsFit` and the action properties
`PairsAlwaysStayWhole` and `ConversationsLostOnlyByPolicy`. All but the last rest on one invariant, `CacheInv` (`CacheInvariant`): a checkout in the cache
has the baton (`Checks`), which is why the main file it renamed or took is not evicted under it; the
snapshots threads write or restore differ from one another and are in no catalogue (`Apart`); how far
the files of each have come (`Stage`), so that a rename never finds its main file there; and an
orphan listed for deletion that has found its main file since belongs to a spill under way
(`Listed`). One lemma per action shows that it is kept; `Before` and `BatonKept` are the facts about
the gate they share, and `Swept` is all they need to know of evictions.

`ConversationsLostOnlyByPolicy` (`LostOnlyByPolicy`) adds `KvInv`: a slot has one thread at a time
(`OneOwner`), a snapshot being written records what is in the slot that will be released for it, a slot
is empty once it was released and before something is restored into it, and a checkout restores only its own
conversation, so that the turn it serves overwrites nobody else's (`HoldsOf`). `KeptMove` is the frame: a
conversation that was resident or stored is still one of the two, unless its file was deleted, when the
KV a thread removes is recorded in a known file and every file it knew is known afterwards. Each action
is then shown to be such a move, to serve the turn itself, or to be one of the named losses.
`CacheIsTyped` (`TypeOK`) adds `TypeInv`: a conversation has one checkout at a time, so that two checkouts
cannot both pass the bound on its turns (the bound on all turns together is a sum, which a proof
cannot unfold; `Begin` states both).

**`UnifiedArena_proofs`.** For any number of shards, cells, slots and sessions: `ArenaIsTyped`,
`ArenaIsTiled`, `PlansAreNeverStale`, `CoordinatesStayFrozen` and `FloorIsKept`, all from `ArenaInv`.

The first half is about the operators. What the allocator does: `Tiling(F, R)` says that the free
and the lent ranges are apart, cover every shard and leave no two neighbours free, and it survives returning
a range (`Insert`) and lending ranges that are clear (`Claim`); a range that meets
nothing but free ranges lies in one of them (`ClearIsFree`). What the planner sees: a gap lies between blockers or ends of a
window, no blocker touches it, and two gaps of one corridor do not overlap. Placement is by
least and greatest coordinates; that a nonempty set of naturals has a least element is the library's
fact about minimal elements of a well-founded relation, from which `MinIn` and `MaxIn` follow
without an induction here.

The parts of `ArenaInv` need each other. `Tile` with `LiveOk` (every allocation is lent for what its
class allows) is preserved only if a commit lends clear ranges, and that is `PlanOk`: whatever still
overlaps a planned range is an expert about to be retired or a handle already closed. `PlanOk` survives
because nobody else can lend while the gate is taken (`CtlOk`) and because drops only make room. For
KV growth it also says that the ranges are the session's own coordinates, so that `KvLive` is preserved (the
segments a session holds are its committed prefix, all of it until it closes, and more than it only while it is
trimmed); those are clear because `KvOk` keeps the coordinates
of all sessions apart and below the floor, `WorkLive` keeps runtime buffers above it, and `RingGone`
keeps the Prefill ring out of Decode. `FloorIn` says that during Decode the slots of the floor hold
their experts, those before the cursor while a restore is running; it needs all the others to
know that a restore finds no other tenant in the floor. `OneOwner` (a lease has one owner) and `OwnBack`
(a session that is neither closed nor trimmed waits only for ranges leased with a segment it still
holds) are there for trimmed sessions. `CoordinatesStayFrozen` says no more than the code keeps: what a growth
meets at its coordinates is an expert, or a trimmed range of the session's own whose lease has a sibling in
use. That the second does not happen is what the comments promise and `arena_trim` refutes.

`ArenaImplementsLeases` is the refinement `LeasesHold`. A lease is a batch that still has a range out; two of
them differ because what is left of each is a nonempty set of cells that nobody else has, so that the set of
leases loses and gains one at a time. A commit grants one lease of clear cells, a range that is given back shrinks
one that is closed, and dropping the last handle closes one. Leaving Prefill drops all
ring handles at once; it closes at most one lease because all ring allocations are of one claim (`RingOne`).

**Only model-checked.** Liveness (`EveryCallReturns`, `FlushEnds`, `EveryTicketServed`,
`CheckoutsEnd`, `EveryoneReturns`): TLAPS has no rules for `ENABLED` and fairness here.
Every invariant, action property and refinement of a passing run has its theorem. The four statements of section 6 are false and cannot have one.

## 5. Not modelled

By far the largest part of the source is kernels, shaders, the recorder and adapter that drive
them, and model graphs (`infr-vulkan/src/adapter.rs`, `recorder.rs`, `infr-cpu/src/kernels.rs`, the
`seam` runners): numerical code with no state a model checker could explore usefully. It is left to
the repository's parity tests, as are GGUF parsing, tokenizers, templates, the CLI and the model
definitions. The models therefore cover a small share of the lines and most of the code that
coordinates threads, files and memory of the inference core.

Of the coordinating code these parts are left out:

- the speculative token groups (MTP drafts and verification, Lookup): only what the cold cache does with a
  head lane is modelled;
- the expert pager's residency, asynchronous uploads, GPU-decode ownership and relocation of experts;
- the HTTP layer (permits, deadlines, disconnects), the idle-unloading services and the model hub. None of them shares
  state with the modelled core except through the calls that `SlotPool` takes in any order;
- within the modelled parts: panics outside stream callbacks and pool tasks (a scheduler thread that panics leaves
  its callers blocked, a panic while seeding leaves two slots reserved), failing device allocations,
  generic pools without an expert layout, weak memory.

The hazards of `PROJECT.json` without a property say which part they belong to.

## 6. Where the code and its documentation disagree

1. `seam_full` — A call that enqueues between the swap of `batch_interrupt` and the queue lock and
   fills the cohort leaves the flag up; with no capacity it is never consumed (`parallel.rs` 2798),
   so every token group yields before its first step and the cohort never returns. A group that ends
   with no step also records no resident rows for its lanes (`runner.rs` 11417, against the contract at
   353-359), so each round prefills the prompts again; in a cohort with room an interrupt between
   admission and the runner's first poll costs that much too.
2. `seam_image` — `return_detached_slot` (`parallel.rs` 2703) marks a KV with image state as
   token-only.
3. `shutdown_hang` — The worker drops notify without the mutex (`parallel.rs` 1164, 1177); a worker
   between its check and its wait sleeps for ever and the join hangs. `infr-tts/src/service.rs` 258
   takes the mutex for this reason.
4. `arena_trim` — `trim_segmented_kv` (`infr-vulkan/src/lib.rs` 8749) keeps a session's reservation because
   "future growth must reuse the same frozen coordinates". When one batch committed the kept segment and
   trimmed ones (a benchmark slot seeded at a depth, a session restored from disk), they share an owner
   lease: the trimmed ranges stay allocated, and `plan_exact_claim` (`unified.rs` 801-813) refuses the next
   growth. `parallel.rs` 2003-2005 promises that unused segments are returned and can be committed again.

## 7. Plan

Done: `SlotPool`, `ParallelSeam`, `EngineShutdown`, `StepGate`, `SessionCache`, `SpinPool`,
`UnifiedArena`, three refinements (`FifoLock`, `ForkJoin`, `CellLeases`), and the proofs of section 4. Next
are models: speculative token groups and head lanes in `ParallelSeam`; `HostPager` (residency, pins,
uploads); `RangedDownload` with crashes; `Admission`; `IdleService`.
