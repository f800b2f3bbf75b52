# attention.rs in TLA+

A verification development for attention.rs, the library of attention, state
and mixture-of-experts kernels that an inference engine links against. Most of
the repository is GPU arithmetic behind thin Rust wrappers; the part that has
state, order and failure is small, and it is that part these modules describe.

## The system and its parts

The engine calls the library from the thread that runs the model (one thread per
GPU), once per layer and forward pass. What the library keeps between calls:

| Part | Where | State | Operations |
|---|---|---|---|
| recurrent-state slots | `mamba_cache.rs` | per layer a conv and a recurrent tensor with one row per slot; free list; sequence -> slot | allocate, ensure for a batch, free, grow, batch write, reset |
| prefix-state cache | `mamba_cache.rs` | snapshots by prefix hash on the device and on the CPU, four LRU queues, preserved marks, two capacities | set capacity, capture, restore (promoting from the CPU), remove, reset |
| graph domain, scratch pools | `graph_workspace.rs`, `workspace.rs`, `fp8_linear.rs` | thread-local domain and one buffer set per kind and domain | set domain / drop guard, get pool |
| expert LRU | `expert_cache.rs`, `kernels/src/expert_cache.cu` | slot -> expert, expert -> slot, stamps, tick, miss list, weight banks | ensure, gather |
| KV blocks | `cache.rs` | none of its own: acts on the engine's cache tensors | copy, swap, clear |
| PagedAttention layer | `lib.rs`, `paged_attention.rs`, `flash.rs`, `metal_flash.rs` | per layer an index, the FP8 scales and a counter of their updates; process-wide TurboQuant buffers, a split-K workspace and a layer counter | new, forward |
| FlashInfer, MLA | `flashinfer.rs`, `mla.rs` | plan data in a shared workspace | plan, run |
| gated delta net | `gdn.rs`, `gdn.cu` | none: reads and writes the slot tensors | prefill and decode convolution, delta rule, normalisation, gating |
| DeepSeek V4 helpers | `deepseek_v4.rs` and its kernels | none: read and write a window ring, compressed rows, indexer keys and the compressor's state | write, gather, compress, score, select, attend |
| cubin loader | `trtllm_cubin_loader.rs` | files in a directory that processes share | look up, download, verify, write |
| MoE, sort, top-k | `moe.rs`, `moe_w2.rs`, `sort.rs`, `topk.rs` | none | permute rows by expert, grouped GEMM, sort, select |
| sampler | `sampler.rs` | an atomic position counter | sample |
| device memo | `cuda_utils.rs` | a table keyed by device | query |
| quantised linears, fused operations | the other files | none | kernel launches |

How they interact. A sequence gets a slot, the delta-net kernels read and write
the slot's rows by index, and at chunk boundaries the engine captures the rows
as a snapshot under the hash of the prefix; a later sequence with the same
prefix restores it into its own slot. Kernels borrow scratch from the pools of
the domain that the engine has set around the call; when a CUDA graph is being
captured, the addresses they got are baked into it. The MoE layer rewrites
expert ids to slot ids through the expert LRU before its grouped GEMMs. An
attention layer stores the new rows of a batch in blocks the engine handed out
and attends to the rows of each sequence's block table, by kernels chosen per
call; the FlashInfer library asks the cubin loader for kernels by callback.

What is hard here. Processes meet only in the loader's cache directory, and
threads only inside kernels; elsewhere the hazards are operations that touch many tensors and fail half-way (every tensor
operation returns a `Result`, and `?` leaves what was done before it), several
maps and queues that are edited separately and must agree, raw addresses that
outlive the buffer they point into, capacities that change under stored data,
and integers at their limits. `PROJECT.json` lists them at their lines.

What makes each part correct:

* slots: a slot belongs to one sequence or to the free list, never to both; a
  sequence starts from zero and then sees its own state only, through growth and
  the failures of every operation;
* prefix cache: a hash yields what was last captured under it, or nothing; the
  queues list the tiers; capacities hold; eviction is least recently used,
  ordinary before preserved;
* both together: resuming from a snapshot is resuming from the captured state;
* pools: graphs of different domains never share a buffer, and a captured buffer
  is replaced only for a larger request of its own domain;
* paged KV: every call reads exactly the rows of its own sequences, each position
  its path serves once, in the encoding they were stored in, whichever path stored
  them, and nothing disturbs what is stored for another sequence;
* gated delta net: between calls a slot carries exactly its own sequence, and each
  output was made of its own sequence, in any mix of chunks, kernels, paddings
  and rejected drafts;
* DeepSeek V4: every complete block has the row pooled over its own tokens, and
  every query reads the last rows of its window and complete blocks, once each;
* cubin loader: a kernel with a hash is never a wrong one, and every call ends;
* expert LRU: after `ensure` and `gather` every routed expert is in the slot its
  id was rewritten to, with its own weights, and the victims were the least
  recently used.

## Modules

    SequenceStates  <== MambaSlots ----+            (==> : implements)
    SnapshotStore   <== PrefixCache ---+--> MambaCache ==> RecurrentStates
      (by way of PrefixCacheHistory)
    KvBlocks ------> PagedAttention
    GatedDeltaNet -+
    DeepseekV4 ----+--> SequenceKernels
    ScratchPools
    ExpertLru
    CubinLoader

    PrefixCacheProofs <- MambaCacheProofs                              (theorems)
    NumberFacts <- PrefixCacheProofs, ExpertLruProofs, SequenceKernelsProofs, PagedAttentionProofs
    ScratchPoolsProofs, CubinLoaderProofs

MambaCache extends both of its halves, so the three share no names (`Init`,
`PrefixInit` and `CacheInit`; a capture is `CapturePrefixState` on the tiers and
`CaptureSlot` on the whole). `MC*` modules give constants their values, add symmetry
and state constraints for TLC, and nothing else.

**MambaSlots** models the slot half of `MambaCache`. `buffer` is the sequence of
tensors (conv and recurrent of every layer, in the order the code visits them),
each a function from its rows to the token that stands for a slot's state;
`free` is the free list with its end on top, `slotOf` the map, `maxBatch` the
recorded batch size. Operations that can fail after touching some tensors are
actions of their own (`...Fails`), with the number of tensors done chosen by
`\E`. `CopyFits` is candle's rule for `slice_assign`, from its use.
`EnsureSlotsForSequences` works through the missing sequences in any order, the
order being the caller's. *Abstracts*: tensor contents to a token, zero being the token `Zero`.

**SequenceStates** says what slots are for: a sequence has a state, unseen by
others, that is zero at its start. MambaSlots implements it by mapping a
sequence to the rows of its slot.

**PrefixCache** models the prefix half. A tier is a record of its snapshots and
two queues. The operations are functions on a record of both tiers and the
preserved set, as the code's methods are functions on `self`; the actions choose
`fails`, the hashes whose copy to the CPU fails during the call. Trailing calls
of the code (normalising the queues, shrinking the CPU tier) are inside the
operation. `spills` says whether the build has a CPU tier; without one the device
tier is alone and evicted snapshots are lost with their marks. **SnapshotStore** is its promise (a partial map from hash to snapshot
that forgets on its own, in which a capture that is reported has been made).
**PrefixCacheHistory** adds history variables: the order of use, to state that
both tiers are in LRU order, and what the last step reported as captured, which
the refinement of SnapshotStore needs (without it a capture that stores nothing
would look like one that was never asked for).

**MambaCache** composes them: `capture` gathers the snapshot from the slot's
rows, `restore` scatters it into a slot, which may stop between two tensors.
`reply` is the `Ok(true)` of the last capture or restore.
**RecurrentStates** is the promise of the composition, with the same `reply`.

**ScratchPools** models `set_graph_workspace_domain`, its guard, and `get_*` for
the kinds of pool: *exact* ones (CUTLASS, FlashInfer FP8, MLA decode: allocate
the request, then drop the old), *growing* ones (NVFP4, MoE activation, grouped
GEMM: drop the old, allocate the part-wise maximum), split by domain or shared
(the MoE activation pool). `Capture` is the engine's: a warmed-up request made
while a graph is recorded. Guards are dropped innermost first, as the values of
nested Rust scopes are; Rust would also allow another order, which the code
does not promise to handle.

**ExpertLru** models the kernel of `ensure` (touching the hits, then placing the
misses, one by one, each by a strided scan of `Threads` threads and a tree
reduction whose tie-breaks are modelled) and `gather`, which copies the missed
experts' weights into their slots. The tick wraps at `TickModulus`. The engine
calls `gather` after each `ensure`, and routes to no more experts than there are
slots.

**KvBlocks** has what `cache.rs` does to one cache tensor: the rows a copy moves
and the bytes a clear touches, offsets counted as the code counts them, on CUDA
and on Metal. **PagedAttention** models the layer on top of it. `config` is the
build and the model's configuration, fixed at the start. The engine's actions
(`StartPrefill`, `StartDecode`, `SwapOut`, `SwapIn`, `MoveBlocks`, `ClearBlocks`,
`FreeSequence`) only hand out free blocks; one `Forward...` action per path serves
one layer of the call: it stores the new rows (`...Store`, `...Writes`) and answers
with the rows each query reads (`out`). A stored cell is the token it came from,
its format and the FP8 scale it was stored under; a reader that expects another
format or scale gets `Garbage`. Windows, split-K parts and the partitions of the
conventional kernel are modelled by the positions they cover, in order, so a
position read twice or left out shows. A view of a layer's caches is passed from
the store to the read, as the tensors are.

The paths do not agree on the window, and the model follows each of them:

| Path | Positions a query at p reads, for a window of W |
|---|---|
| native and conventional CUDA kernels, native Metal kernels | the last W up to p |
| fresh prefill with the causal mask, FlashAttention | the last W + 1 up to p |
| FlashInfer decode | the last W + 1 in an SM90 build, else all up to p |
| FlashInfer prefill | the last W + 1, but all up to p over an FP8 cache |
| low-bit TurboQuant prefill on Metal, conventional decode on Metal | all up to p |
| conventional prefill of a chunk on Metal | the last W up to the end of the chunk, for every query of it |

Native decode on CUDA merges the parts of each sequence through a workspace of
fixed size. `WorkspaceRoom` is the number of sequences whose partial results fit
with the parts in use; those of the others lie beyond the end and are `Garbage`.
`Configs` holds the combinations that a build can have: the `compile_error!`s of
`lib.rs` are `FeatureAssumption`, and a FlashInfer build with an FP8 cache is taken
to have the FP8 kernels, without which a call would store and answer nothing.
A prefill serves one sequence; a decode any batch.

**GatedDeltaNet** models one layer over the slots. The state of a slot is the last
`KernelSize - 1` inputs (`conv`) and per value head the sequence of updates it took
(`rec`), each update the key, value and decay that went into it. A call is a
record `op` laid out as the kernels see it: rows end to end, with `cu` their
bounds. The blocks of the parallel convolution run in any order, the state commit
behind them; the recurrences run on the slots or on gathered rows. `fed` is a
history variable: the tokens that count. `Accept` is speculative decoding: of a
verified prefill some first tokens are accepted and both states set back to the
snapshots behind the last of them. `LockStep` says that the threads of a block
run in step; without it the kernels that keep a step's key in one buffer with no
barrier behind its last use may take the next step's key (`Overtaken`).

**DeepseekV4** models the attention state of one layer and sequence: the ring, the
compressed rows and indexer keys, and the compressor's state. The action of a
chunk is a first prefill, a continued one over gathered rows, one over the ring,
or a decode step, eager or captured. The caller's part (which helper serves which
tokens of a chunk, and the replay of the tail after a bulk prefill) is external
and documented at its definitions. A compressed row is the function from
routes to the projected tokens it was pooled over, `NoRow` where a route has none. The indexer scores every row of its cache, those
not yet written too, and the masks of each helper take out what lies behind the
query; its scores favour old blocks or new ones (`newest`). Its decode kernel for many rows
(`Scans`) excludes only the first `Remembered` picks from later ones, so that all
picks past them name one row. A call that a helper refuses (no rows, more picks than
rows, more rows than it takes) ends the sequence with `Refused`; `careful` says
whether the caller clips the picks to the rows there are and does without the
helper while there are none. `read` records for every query the rows it attended to, by entry of its indices.

**SequenceKernels** is both: a model has one of the two kinds of layer.

**CubinLoader** models the callback in several processes that share one cached
file: lookup, reading and verifying, up to `Attempts` requests with pauses after
errors and none after broken bodies, and `fs::write`, which empties the file before
it fills it. Processes crash between any two steps, writes are refused, the server
is flaky until it recovers. A path stands for one kernel; `settings` says whether
the library names its hash and whether downloads are switched off.

## Runs

| Run | Question | Bounds and why they are enough |
|---|---|---|
| `slots` | is every slot exclusive, clean, inside the tensors, and does the cache implement SequenceStates, whatever fails? | 3 sequences, 1 to 3 slots, one layer (two tensors): growth by one and by two, a full pool, a leak with a free slot left, a failure between the two tensors |
| `prefix` | do maps, queues, marks and capacities agree; is eviction in true LRU order within each class; is SnapshotStore implemented? | 4 hashes, device capacity 0 to 2, CPU capacity twice that, with two or three victims per CPU eviction: each tier overflows at either capacity, and capacities shrink under stored snapshots; builds with and without the CPU tier |
| `mamba_cache` | is resuming from a snapshot resuming from the captured state? | 2 sequences, 2 hashes, one snapshot per tier, a slot that grows to two |
| `scratch` | does the domain routing protect captured buffers? | a growing and an exact pool, two parts, so sizes can grow separately, two devices, two nested guards, two buffers per cell; `TwoCellsUsed`: a behaviour uses two cells of one pool, as no property relates more |
| `expert_lru` | do tables, ids, victims and weights agree? | 4 experts, 3 slots, 4 threads (more threads than slots and an odd number of slots, so ties meet at every level of the reduction), calls of up to 3 ids with repetitions |
| `paged_attention` | does every call read exactly its own rows, and is nothing else disturbed? | 2 sequences of up to 3 tokens, blocks of 2 slots, 4 blocks and one on the CPU, up to 2 layers; the thresholds of split-K, direct prefill and partitions at 2 or 3 tokens, so each is crossed; a window of 1, so that one token, two and the whole context are three different answers; a workspace for batches of both sequences; every build and cache mode, one unusual choice at a time, and also FP8 with a window in FlashInfer builds and TurboQuant with a window in native Metal ones (`OneChoice`) |
| `sequence_kernels` | does every slot and sequence carry, and every query read, exactly its own state? | gated delta net: 2 slots, 2 key and 4 value heads, a kernel of 3 taps, up to 4 tokens per slot in batches of up to 2 rows of up to 3 tokens: rows shorter than, equal to and longer than the convolution's state, empty rows, padded rows. DeepSeek V4: a ring of 3, overlapping blocks of 4 and plain ones of 2 and 3, 16 tokens in chunks of up to 12: rings that wrap within a chunk, chunks with a head, bulk and tail, three blocks, more blocks than the indexer may pick, more rows than can be sorted, and calls on both sides of each refusal; as many picks as the exclusion list serves |
| `cubin_loader` | is a hashed kernel never wrong, and does every call end? | 2 processes on one file, the code's 4 attempts |
| `paged_clear` (violation) | are only the named blocks cleared? | 2 blocks, element widths of one and two bytes |
| `paged_scales` (violation) | are rows read under the scale they were stored with? | 2 updates, 2 levels of the scale |
| `paged_window` (violation) | does every path attend to the same window? | a window of 2, a sequence of 3 |
| `gdn_race` (violation) | do the recurrences need the threads of a block to be in step? | the bounds of `sequence_kernels` with `LockStep = FALSE` |

Bounds on what would grow for ever are constants named as bounds: `MaxSlots`,
`MaxBuffers`, `MaxScopes`, `MaxSize`, `MaxTick`, `MaxIds`, `Capacities`, `MaxLen`,
`MaxTokens`, `MaxChunk`, `MaxRows`, `LongestChunk`, `NumBlocks`, `MaxScale`. Runs
that reach them stop there and do not check deadlock. Symmetry is used over
sequences, slots, hashes, snapshots, experts, devices and parts, with safety
properties only. PrefixCache picks the order of hashes that are in no queue with
`SetToSeq`; `QueuesListTiers` shows that there are none, so this choice does not
break the symmetry.

`sequence_kernels` takes `LockStep` to be true: what `gdn_race` shows is one
finding, and everything else about these kernels is checked beside it. In the same
way `ReadsOwnContext` is stated for stable scales, for layers with TurboQuant
buffers, for sequences inside the workspace (those beyond it are excepted one by
one, the others of their batch are not) and beside the overlapping partitions; it
asks of each path for the positions of the table above (`ServedContext`), neither
fewer nor more, and the runs that violate compare the paths with what the sources
say of them. `AttendsExactlyItsContext` speaks of the calls that are not refused.

The largest runs are `paged_attention` (about a million distinct states) and
`sequence_kernels` (about two hundred thousand).

### Fairness and liveness

Only the loader waits for anything. `CubinLoader` assumes weak fairness of each
process's own steps: a thread of a live process goes on, and a request ends by its
timeout of 60 seconds at the latest. Nothing is assumed of the server, of crashes
or of the engine. `EveryCallIsAnswered` then holds, because the number of requests
is bounded, and the answer is a kernel if the server is well from the start of the
call. Every other operation is a call that returns, made when the engine decides
to make it, and there is no liveness to state.

### Where the code and its words disagree

* `paged_clear`: `clear_blocks` counts elements where it should count bytes (CUDA)
  and bytes where it should count elements (Metal); rows of other blocks are lost.
* `paged_scales`: the conventional path raises the FP8 scale on calls that still
  read rows stored under the old one, which a comment in `lib.rs` says must not be.
* `paged_window`: the native kernels count the query's own position in the window,
  FlashAttention and the causal mask do not: one token more. FlashInfer does as the
  latter where it has a window at all: its decode outside SM90 builds
  (`flashinfer_common.cuh:79`) and its prefill over an FP8 cache
  (`flashinfer_prefill_fp8_fa2.cu:163`) are instantiated without one.
* `gdn_race`: the shared key of the recurrence kernels is loaded for the next step
  without a barrier behind its last use.

Visible in the models, and stated as exceptions, preconditions or assumptions:

* a failed promotion puts its snapshot back into a CPU tier that its own eviction
  has just filled: one more than the documented maximum (`mamba_cache.rs:291`,
  `:1105`), never two (`CpuWithinCapacityPlusOne`);
* a failed capture leaves the mark of a preserved hash behind when it has dropped
  the CPU copy; an ordinary snapshot spilled into a CPU tier of preserved ones
  evicts one;
* a larger request of a graph's own domain frees the buffer the graph uses, so
  engines must warm up with the largest (`WarmedUpIsFinal`);
* the MoE activation pool does not consult the domain (`workspace.rs:594`,
  contrary to `graph_workspace.rs:29`): an eager request can free what a decode
  graph uses;
* when the tick of the expert LRU wraps, every stamp is ahead of it and all misses
  of a call take slot 0;
* the CUDA conventional kernel with partitions starts each partition at the window
  at the earliest, so with a window partitions overlap (`pagedattention.cuh:143`);
  Metal's conventional decode kernels are given no window, and its low-bit TurboQuant
  prefill kernels are given one and do not look at it;
* Metal's conventional prefill kernel admits every position of the chunk to each of
  its queries, later ones included, and counts the window from the end of the chunk
  (`prefill_paged_attn.metal:1196`); the CUDA kernel of the same operation warns of
  exactly this (`prefill_paged_attn.cu:235`). `ServedUpTo` follows the code;
* the split-K workspace is made for 64 sequences and no batch is compared with it: the
  bound on the splits that a comment relies on (`flash.rs:311`) does not bound the
  sequences (`InWorkspace`);
* the indexer's kernel for many rows remembers 512 earlier picks (`ds_indexer.cu:539`);
  asked for at least two more, it names one row again and again (`NeverOutrun`);
* ring indices for a prefill are right only for chunks that do not wrap the ring,
  although `deepseek_v4.rs:1773` speaks of continued prefills (`RingPrefill`'s
  first guard, a duty of the caller that no code checks);
* the CUDA convolution admits kernel sizes up to 16 and serves those up to 4
  (`GdnAssumption`).

## Proofs

Proved with TLAPS for every value of the constants, from the assumptions the
modules name:

| Theorem | Says |
|---|---|
| `TypeCorrect`, `SlotsAreExclusive`, `FreeSlotsAreZero`, `SlotsAreInside` (MambaCacheProofs) | the four invariants of `slots` |
| `PartialGrowthIsForever`, `LeakedIsLost` (MambaCacheProofs) | its two action properties |
| `SlotsArePrivateStates` (MambaCacheProofs) | MambaSlots implements SequenceStates |
| `Typed`, `RoutedByInnermost`, `NeverAliased`, `DroppedByOwnDomain`, `WarmedUpStays` (ScratchPoolsProofs) | all properties of `scratch` |
| `Typed`, `QueuesAlwaysListTiers`, `TiersStayDisjoint`, `DeviceStaysWithinCapacity`, `CpuStaysWithinCapacityPlusOne`, `RoomIsAlwaysMade`, `MarksStayWithSnapshots`, `QueuesFollowUse`, `NewestStayOnDevice` (PrefixCacheProofs) | the nine invariants of `prefix` |
| `PreservedAreEvictedLast`, `PreservedAreDroppedLast`, `OnlyFailedCapturesLeaveMarks` (PrefixCacheProofs) | its three action properties |
| `RefinesSnapshotStore` (PrefixCacheProofs) | PrefixCache implements SnapshotStore |
| `CacheIsRecurrentStates` (MambaCacheProofs) | MambaCache implements RecurrentStates, a snapshot being the contents of all buffers (`SnapshotsAssumption`) |
| `Typed`, `TablesStayInverse`, `EveryRoutedIsResident`, `ResidentsAreLoaded`, `LeastRecentlyUsedIsEvicted` (ExpertLruProofs) | all properties of `expert_lru`, as long as the tick does not wrap |
| `OnlyHashedKernelsAreGiven` (CubinLoaderProofs) | `GivenAsHashed`, for any number of processes |
| `RingKeepsTheWindow`, `WindowIsReadExactly` (SequenceKernelsProofs) | the ring holds the last rows, and the indices of a decode step name exactly those of its window, for any size of the ring |
| `TypeCorrect` (PagedAttentionProofs) | `TypeOK` of `paged_attention` |
| `RowsAreStored`, `QueriesReadTheirContext`, `OthersUntouched` (PagedAttentionProofs) | the inductive invariant, `ReadsOwnContext` and `ContextsUntouched`, for every build and configuration, batches and workspaces of every size, where blocks are only cleared at one byte an element |
| `RowsAlwaysCover` (SequenceKernelsProofs) | `RowsCoverTheirTokens`, for every ratio and any mix of chunks and decode steps |
| `ContextIsReadExactly` (SequenceKernelsProofs) | `AttendsExactlyItsContext`, for every window and ratio, every helper, kernel and preference of the indexer, where the exclusion list is not outrun (`NeverOutrun`) |
| `StatesAlwaysFollow`, `OutputsAlwaysSeeTheirs` (SequenceKernelsProofs) | `StatesFollowTheirSequences` and `OutputsSeeTheirSequence`, for every batch, kernel and number of slots, heads and taps, where the threads of a block run in step |

So every property of the runs `slots`, `prefix`, `mamba_cache`, `scratch`,
`expert_lru`, `paged_attention` and `sequence_kernels` holds beyond their bounds.
Many of the proofs are about loops of the code. A loop is a recursive function of
the number of its rounds, and what is claimed of every round is proved by refuting
a first round that breaks it (`LeastNumber` of NumberFacts: every non-empty set of
numbers has a least element). The functions that the `LET`s define are shown to
satisfy their equations first (`PickedUnfolds`, `ShrinkDeviceUnfolds`,
`LoopUnfolds`, `ServeUnfolds`, `StateAfterUnfolds`, `CuSeqlensUnfolds`).

**Slots.** The invariants are not inductive alone. Zeroing or copying a slot needs the slot
to be inside every tensor, which holds because growth raises `maxBatch` only
after the last tensor has grown; a grown free list is exclusive because every
slot known before is below the old `maxBatch`; freed slots are exclusive because
the map is injective. The inductive invariant `Inv` is the conjunction of the
four. `InitInv` and `NextInv` are its two steps; `NextInv` has one step per
action, and the batch grants, which compose single grants, rest on lemmas about
what a sequence of grants keeps, proved from its closed form in terms of the
order in which sequences are served and the top of the free list.

`PartialGrowthIsForever` needs one more invariant, `PartialFromFirst`: buffers are
replaced in order, so if any has outgrown the capacity the first one has.
`LeakedIsLost` rests on `OwnedBeforeOrNew`, what a step may put into circulation.
The refinement shows, operation by operation, which rows change: a granted slot
is on the free list and so no other sequence's, an owned slot has one owner, a
slot below the old capacity keeps its rows when tensors grow.

**Prefix cache.** The invariants of the run do not hold by themselves in the middle
of an operation, which evicts, spills and drops in turn; so the lemmas are about a
record `w` of both tiers and the marks, as the operations are. `WorldOK(w)` says
that each tier's queues list its snapshots once and in their class, and that the
tiers are disjoint. `Settled(v, w, ...)` says what evictions may make of `v`:
snapshots are lost or move from the device to the CPU unchanged, a mark goes with
its snapshot, and of two CPU snapshots the preserved one stays if the ordinary one
does. Both are kept by one eviction (`EvictFacts`) and, as `Settled` composes, by any
number of them (`ShrinkDeviceLoop`). The inductive invariant `PrefixInv` is `WorldOK` of the
present, the two bounds on sizes and `MarksAreStored`; the two bounds need each other's
step, because an eviction from the device is what fills the CPU tier
(`StaysWithin`). `Orderly` is what `NextStep` adds for the action properties. With
the queues of a tier known to list it, normalising changes nothing
(`NormalizedIsSame`), so the arbitrary order in which the code would append
unlisted hashes never matters. The refinement follows from `Keeps`: an operation
changes what is found under no hash but the one it captures, except to lose it.

The order of use needs a stronger invariant, `HistoryOK`: `used` lists the stored
hashes once, every queue follows it (but for what a failed promotion put back), and
within a class what is on the device was used after what is on the CPU. The last
part carries the proof: a spilled snapshot is appended to the CPU queue at the time
of its eviction, and stays in order of use only because an eviction takes the oldest
of its class from the device, which is still younger than all of its class on the
CPU (`EvictInOrder`).

**The cache as a whole.** Its inductive invariant is that of both halves, and each
operation is proved once to keep it and to be a step of RecurrentStates. An operation
on one half leaves the other's part of the mapping alone. A capture stores what the
slot holds, which is what the sequence's state maps to. A restore is where the halves
meet: the snapshot found under the hash before the step is the one found after it,
although a promotion in between has evicted others, moved this one and marked it used
(`RestoreFromCpuStep`); and writing the first `n` buffers of a slot changes one
sequence, because a live slot has one owner and is not on the free list
(`WriteSlotLoads`), so free slots stay zero as well.

**Expert LRU.** `LeftmostExists` shows that the order in which the tree reduction
settles ties, the order of the reversed bits of a thread's number, has a first
element in every set of threads when their number is a power of two; so the victim
search finds a slot used longest ago (`VictimIsOldest`). The placement of the misses
is a loop with invariant `LoopInv`: the tables are inverse, the slots of the call's
experts carry the call's tick, the misses recorded so far are in their slots, and
everything evicted was used before everything kept. `RoomForMiss` is the pigeonhole
argument that a call of at most `NumSlots` distinct experts always finds a slot
outside the call, and that its miss list is never full. Between calls `UsedInv`, that a
slot is empty exactly if its stamp is zero, makes empty slots the first victims.
`MissInv` says which weights are still to come. The theorems take `TickNeverWraps`
(`MaxTick < TickModulus`) as hypothesis: it is the precondition of 2^32 calls listed
above, and beyond it `RoutedAreResident` is false.

**Scratch pools.** Routing needs to know what a dropped guard restores: `GuardsNest`
says that every guard on the stack remembers what the one below it set. That
captures never alias needs only that a captured buffer lies in the cell of the
graph's domain (`CapturedInOwnDomain`), as a cell is selected by kind and domain.
`ChangedByRequest`, that a cell is only changed by a request for it that it cannot
serve, gives both action properties.

**Cubin loader.** The invariant says nothing of the file: what a call is about to
write has been verified before (`PendingAsHashed`), what it reads is verified
after, and whatever other processes do to the file in between does not matter.

**PagedAttention.** The invariant is `Shape` and `RowsInv`. `Shape` has the block
tables (each as long as its sequence needs, no block listed twice among those of one
cache), the call being served (a batch without repetition whose new tokens are the
last of their sequences), the layers (consecutive indices) and the types. `RowsInv`
says where rows are: each token that a layer has been given (`Served`: in a call, the
layers from the next on lack its new tokens) is in the row its table names, in the
cache, in the TurboQuant buffers or with keys in one and values in the other, under
a scale no larger than the layer's. It does not ask for the layer's own scale, since
the conventional path breaks that (`paged_scales`); it follows where the scale is
still 1. Tables apart, a row has one token (`RowsApart`), so a store puts every new
token in its row and leaves the others (`StoringFacts`); what it leaves is a view
with all of the context (`WrittenIsComplete`). The reads need arithmetic: the parts of
split-K concatenate to the positions they were cut from, for any number of parts that are long enough,
and the partitions of the conventional kernel to the whole, as a partition is a
number of blocks; each by induction over the parts with `LeastNumber`. `Spans` gives the
window of each path, as `ServedSpan` states it in terms of the configuration, and
`MetalChunkReads` treats the one kernel whose queries end at the chunk. What the
workspace has no room for is excepted by sequence (`InWorkspace`), so `SplitKReads`
is a statement about places in the batch. Swaps and
moves keep a row in its place in the block and the destinations are free
(`SwappedRows`, `CopyMoves`). `TypeCorrect` needs `Shape` only. The other theorems
take `OneByteClears` (`ClearWidths \subseteq {1}`) as hypothesis: at two bytes an element
`clear_blocks` loses rows, which is the finding of `paged_clear`. Constants are any
numbers that `BoundsAssumption` and `SplitAssumption` allow, partitions being whole
blocks; the engine's choice of free blocks (`Given`) is any injective one.

**The ring.** `RingHoldsTheNewest` is inductive with the length and the ring's domain.
Each step rests on `SlotsApart`: two tokens less than a window apart have different
remainders, so a chunk cut to the last `Window` rows overwrites only rows that leave
the window. `EntryOfDecode` gives the index kernel's two branches one closed form,
the slot of the i-th token of the window, for a ring that has wrapped or not.

**The compressed rows.** That every complete block has its row says nothing of the
next one, which a decode step pools from the compressor's state. The inductive
invariant `CompressorInv` adds what the state holds: the tokens of the open block at
their routes (`OpenBlock`), and in an overlapping layer the whole block before it,
or no rows at the start (`BlockBefore`). One decode step keeps both and, if it ends a
block, pools its row (`DecodeKeepsState`); so do the tokens served one by one
(`ServedOK`, along the loop of `Serve`). The rows of the four bulk kernels are those
of consecutive blocks (`FirstPrefillRows`, `NonoverlapContRows`, `OverlapContRows`),
from the first whole block of the chunk (`HeadEndsABlock`) to its last
(`LastBlock`). A bulk kernel leaves the state behind, but the replay begins
at the start of a block, where `OpenBlock` asks for nothing, and in an overlapping
layer a whole block early, so that the first block end it passes makes `BlockBefore`
true whatever the state was (`BulkThenReplay`): the replay of the tail alone
would not do.

**What a query reads.** With the ring and the compressed rows known, what remains is
indices. `NamesWindow` says of the window's part of an index list that its i-th entry
names the row of the i-th token of the window and every other entry is -1;
`NamesBlocks`, that the first entries of the other part name the rows of distinct
complete blocks, as many as are to be attended to. Each helper's list is shown to do
so where the rows lie as it takes them to lie: in token order (`InOrder`, for the
first and the continued prefill) or in the ring (`InRing`). The indexer's pick is
counted: a row is the i-th best if i rows are better, which determines it whether
scores favour old rows or new ones (`PlaceOfBlock`). What is ranked are the complete
blocks, because the masks leave exactly those of all the rows that are scored; the
mask of a captured decode step does so over every row the cache has room for. The
theorem takes `NeverOutrun` as hypothesis: at most one pick more than the exclusion list holds, or so few rows
that the kernel which needs the list is never chosen; with a third pick in the run's
bounds, TLC finds a decode step that attends to one row twice. No complete block is an unwritten row, as no pooled row is `NoRow`
(`DsAssumption`). `RowsListed` draws the conclusion for the rows read: no two entries
name one row, since pooled rows of different blocks differ (`PoolsApart`) and are no
key/value rows. `KernelsAgree` reduces the three kernels to one; for FlashInfer
because the entries past the window's never name a row of the ring.

**The gated delta net.** The two properties speak of the slots between calls and of
outputs during a call; the inductive invariant `SlotsConsistent` says what holds at
each phase of a call. While the blocks of the convolution run (`Convolving`), a row's
working window is that of its sequence before the call until the row is committed,
and that behind its last token afterwards; every token is computed or may still be: in
the parallel form no row is committed while an output is missing, elsewhere a row is
served and committed at once. Then the slots hold the new windows and still the old
states (`Recurring`), then both (`Answering`), with a snapshot per token of a
verified prefill.

Three groups of lemmas carry the steps. The layout: the offsets grow (`CuGrows`), so
each token is in exactly one row although rows may be empty (`HolderIs`,
`EveryTokenHasARow`), and since no two rows of a batch share a slot, what a row
writes is no other row's (`RowOfSlot`). The window: read from the row's own tokens and
its stored inputs, it is the last inputs of the slot's sequence (`WindowOfRow`), and
shifting one input in keeps it so (`LastOfOneMore`, `StateAfterHoldsLast`). The
recurrence: whatever the kernel, with keys normalised before or inside it and key heads
repeated or shared, a head takes the same update (`TakenIsExpected`; `KeyHeads` needs
`NumKHeads` to divide `NumVHeads`), and running a stretch of tokens appends their
updates (`ThroughIs`). A decode is a batch of rows of one token (`SinglesAre`).
Accepting some first tokens of a verified row sets both states back to the
snapshots behind the last of them, which by `Answering` are those of the shorter
sequence (`FirstOfPart`, `SetBackRow`).

Both theorems have `LockStep` as a hypothesis: with it `TornSomewhere` is empty
(`NothingTorn`). It is a property of the hardware that the source does not secure,
and `gdn_race` shows that `StatesFollowTheirSequences` fails without it.

Only model-checked: the liveness of CubinLoader, as the provers treat neither fairness nor ENABLED.

## Not modelled

* Floating-point arithmetic, layouts and launches of kernels (attention, GEMMs,
  norms, rope, activations, quantised linears, the delta net's output norm, hyper
  connections, ALiBi and soft caps): no state, and nothing TLC could say about the
  numbers.
* The order of `ensure` and `gather` of the expert LRU is the engine's and taken for
  granted: a second `ensure` before the `gather` of the first loses its miss list.
* A device buffer read beyond its end: the model knows only that what is read there
  is no row (`Garbage`).
* The FlashInfer library and what a plan leaves in its workspace: which captured
  graph reads which plan is decided inside it. MLA: wrappers around its kernels.
* Mixture of experts, sort, top-k: pure functions in one or a few launches; the
  expert's residency and the scratch they use are modelled.
* The sampler's position counter, updated in two atomic steps (`sampler.rs:23`):
  it only seeds a random generator. The device memo (`cuda_utils.rs:29`): whether
  an address is used again is the allocator's choice.
* Kernel bindings and build scripts: declarations.
* Registering the loader's callback (`std::sync::Once`), statistics, messages.
* Multi-threaded use of one `MambaCache`: its methods take `&mut self`.

## Plan

What is left, most important first:

1. `PlanWorkspace`: FlashInfer and MLA plans made in a shared workspace and used by
   later runs and graphs, on top of the domains of ScratchPools, as far as the
   wrappers determine it;
2. `ExpertPermutation`, `BitonicSort`, `TopK`: pure algorithms against their
   definitions;
3. hyper-connections and the MoE activation path as order of launches.
