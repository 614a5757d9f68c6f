# Specifications of amd-kernels

TLA+ models of moonmath_amd's attention and MoE kernels for AMD GPUs and of the host code that checks,
plans and launches them; the TLC runs that check the models; the TLAPS proofs about them.

The models say which data is read when, in which order things happen, where every lane's data lies, whether
every piece of work is done once, and what the numbers of a softmax may become. A tile, a list, a page or a
head is a number or a model value; scores are small exact numbers. What machine rounding does is not here.

Paths are relative to the repository. *plan.hpp* is `src/csrc/gfx950/attention_plan.hpp`; the other
files are named in full where it matters.

## The system

| Component | State it keeps | Operations | What is hard | What makes it correct |
|---|---|---|---|---|
| gfx950 entry points, `attention_api.cpp` | handles that wait to be destroyed | `forward`, `forward_varlen`, `forward_paged`, `VarlenPlan` | many shapes, layouts and dtypes; integer limits of the C API below | what is admitted the kernels can take; nothing is addressed out of its tensor |
| gfx950 K/V pipeline, `attention.hip` `fwd` | LDS rings of three K and V tiles, each wave's loads in flight, each wave's place | prologue, per block: PV, QK, DMA, tile barrier, softmax; masked tail; O's stage | two wave groups half a block apart, DMA two tiles ahead, one barrier that does not tell waves apart | each read finds its tile in the rows of all waves; no buffer is loaded under a reader; every CTA ends |
| gfx950 MLA pipeline, `attention_mla.hip` | K ring of two, V ring of three | as `fwd`, but A loads K and B loads V | two unequal barriers a block, matched by count alone | as for `fwd`; one group computes at a time |
| gfx950 softmax, `attention_prims.hpp`, both kernels | a wave's rows: scores, frame, sums, O; the page and the resources it loads through | page reads, moved resources, clamps, masks, rare tiles, rescale, finish, merge | tests shared by first tile, masks and resources; 32-bit offsets; sums in two orders; NaN and inf | each load brings its own rows; a row is the sum over its keys, or NaN by itself |
| Work items, *plan.hpp* 24-148 | none (arithmetic) | q blocks, chunks, parts, live and unmasked tiles | causal bounds that go negative, packed heads, uneven parts | masks and live tiles are right; parts tile a block |
| Host planner, *plan.hpp* 430-647 | none | `plan_split`, `list_ctas`, `launch_order` | greedy fill, alignment, turns over XCDs and ranges | every tile once; merges join the parts of their block |
| Device list builder, *plan.hpp* 294-386, 650-692 | the list, buckets, counters | count, scan, claim, store, fill | atomics in any order; capacity known from maxima only | each entry once, in bounds, heaviest first |
| Launch cache, *plan.hpp* 695-940 | per stream: staged plans and lists, a workspace; per device: pinned buffers, graph lists | `launch`, `launch_captured` | the device runs late; streams share the pinned pool; allocation fails; graphs replay | each kernel reads its own plan's list; merges read their own partials |
| Varlen plans, *plan.hpp* 950-1190, `attention_api.cpp` 470-601 | handles, their lists, the closed handles that wait | plan (host or device mode), run, close and its sweep | captures, replays, buffers outgrown or closed while graphs refer to them | a run reads its plan's list; nothing freed is used; every handle is freed once |
| gfx942 attention, `attention_kernel.hip`, `attention_api.cpp`, `lite.py` | K double buffer, votes, the lite lists of two calls, a static split scratch | dense, lite and split forward; V's transpose; launch order | votes half a step apart, lists read backwards, parts and orders recomputed by hand | every row once over its own head's keys; a wave walks what the list kept |
| gfx942 MLA decode, `mla_decode_a16w8.hip` and `_api.cpp` | tiles in registers and LDS by parity; partials | tile choice, step, split, merge | five tiles in flight; decode and merge recompute the same split | tiles accumulated once, in order; merge reads what was written |
| gfx942 MXFP4 MoE, `mxfp4_moe_*` | registers in flight, LDS slabs | gate-up, down, planners, weights' repack | hand-counted waits, XCD swizzle, byte shuffles | each wait covers its load; each output once; weights decode exactly |
| Python package | lazily loaded backends; lite's phase and lists | argument checks, dispatch, repack | a call that raises half way | - |
| opus, tests, benchmarks, tools, docs, build | - | - | vendored, or no part of the running system | - |

How they interact. A Python call reaches a Torch entry point, which takes the problem's shape and stream to
`launch` (dense, paged, lengths on the host) or to a `VarlenPlan`. `launch` finds or makes a plan (host
planner), stages its list to the device through a pinned buffer and queues `fwd` and, when q blocks are
split, `merge`. A varlen plan in device mode queues `list_varlen`, which makes the list from `cu_seqlens`
on the GPU, and `fwd` reads it later. `fwd`'s CTAs each take a work item of the list and run the K/V
pipeline on its tiles. Host state is under `state_mutex` (launch cache, plans) and `closed_mutex` (the
sweep); the device is ordered only per stream; a graph capture records kernels that run whenever, and
however often, the graph replays. The gfx942 kernels plan nothing that lasts: each launch recomputes its
work from lengths, except LiteAttention, whose calls hand each other lists of the blocks kept.

## Modules

| Module | Models | State and actions against the code |
|---|---|---|
| `TileWalk` | what a gfx950 pipeline promises its softmax | abstract: each wave begins and ends blocks in order from exactly the tiles they name, no wave more than a block ahead, and gets through |
| `AttnPipeline` | one CTA of `fwd` | a wave's place in the code is `pc`, its block `blk`; a DMA instruction appends to `dma`, `Land` retires the oldest (loads return in order, which is what `vmcnt` counts); `slab[w]` is the tile in w's rows of each buffer. `Release` is `s_barrier`: it looks at the count of waves only, never at which barrier they are at. `TheWalk` maps it to `TileWalk`. |
| `MlaPipeline` | one CTA of `attention_mla.hip` | the same state, a ring per group; `ArriveTile` waits and then arrives, `BlockEnd` only arrives; B's leading and A's trailing barrier are places of their own. `TheWalk` again. |
| `WaveLoads` | a wave's resources and rows (`attention_prims.hpp`, both kernels) | operators on a call and a tile: page of a block, moved bases, clamps, the rare-tile test, which row a load brings |
| `WaveFrames` | a wave's softmax rows | operators on exact sums kept by key: maximum, frame, rescale, group A's and B's order of sums, finish, merge |
| `LaneViews` | where the gfx950 lanes' elements lie, at full size | opus layouts by what they give: DMA, fragment reads, masks, V's transposed reads, O's stage |
| `AttnWave` | one wave over its tiles and parts, then the merge | `pc` block by block: loads issued, `tile_extras` on rare tiles, softmax, epilogue, `Merge` |
| `WorkItems` | `ceil_div` ... `wave_work` | operators with the code's names |
| `PlanTime` | `modelled_time`, `dev_plan` | operators |
| `HostPlan` | `plan` | one state per stage: `Gain` and `Consider` are turns of `plan_split`'s loops, then `List`, `Order`, `Work` |
| `ListVarlen` | `list_varlen` | waves step between barriers; a claim is one lane's `atomicAdd`, in any order; stores remember what they hit |
| `Entry950` | the entry points and the C API's checks | operators from a call's tensors to a status and the problem handed on |
| `AttnCall` | a whole call | composes `Entry950`, `HostPlan`, `ListVarlen` (instances) and work items' addresses: enter, plan on the host or build the list, done |
| `LaunchCache` | `launch`, `launch_captured`, staging, pinned pool, graphs | a call holds `state_mutex` until its kernels are queued, so it is one step; `queue[s]` is what the device still has to run; memory remembers the plan it was last written from |
| `VarlenPlans` | `VarlenPlan` over the C handles | `Plan`, `Run`, `Close` with its sweep, graph captures and replays; a buffer is an address, its content the number of the plan call |
| `MlaSplit` | how the decode divides a batch: slices, `KvSplit`, parts, tiles, ranks, masks | operators over a call, with the code's names; both kernels' ways from a CTA to its work and back |
| `DecodeEntry`, `DecodeLanes` | the decode's entry point, tile choice and workspace; its lanes' places | operators; the lanes at full size |
| `MlaDecode` | one CTA of the decode, `wave_body` | `Start` picks any CTA of the grid; per step `Begin` (rescales, pool rows, first K), `run_softmax`, `accumulate_pv`, `fetch_v`, `Fill`, `contract_qk`, `tile_barrier`; a buffer's content is the tile it came from |
| `Entry942`, `Views942`, `TailSplit` | the gfx942 attention's entry points; addressed rows and V's transpose; the split tail and launch order | operators from a call to its launches, CTAs, rows and keys |
| `LiteLists` | LiteAttention's lists and work order | markers written and walked backwards, must-do ranges |
| `Lanes942`, `Rows942` | the kernel's lanes and LDS reads at full size; rows' exact arithmetic | operators |
| `Attention942` | one CTA's walk in calls that follow one another | `LiteCall`, `FailedCall`, `Reset`, `Launch`; per wave half steps with votes; `Encode` by thread 0; the call's end turns the lists' roles |
| `MoeGrid`, `MoeDequant` | planners, grids, swizzle, stores; the weights' repack and decode | operators |
| `MoeLanes` | the MoE kernels' lanes at full size: staging, operands, stores, LDS | operators on a shape that is built |
| `MoeKernel` | a call of either MoE kernel, to one workgroup's waves | a wave is at an instruction of a part of its program (`Prime`, `slab_body`, ...: loads, waits, LDS writes, products, barriers), and `After` says which part follows, as the kernel's loops do; a register read before its wait is junk |
| `AttnPipelineProofs`, `AttnWaveProofs`, `MlaPipelineProofs`, `MlaDecodeProofs`, `LaunchCacheProofs`, `VarlenPlansProofs`, `Attention942Proofs`, `MoeProofs` | the theorems | |
| `MC*` | constants of the runs | |

Mutated definitions, each a plausible bug, are kept beside the originals and marked.

## Runs

| Run | Question | Bounds, and why they are enough |
|---|---|---|
| `attn_pipeline` | does each wave read its tile under every interleaving of waves and loads, and does the CTA end? | One A wave, two B waves, up to three tiles, any live tiles per wave, all three kinds of item. A ring of three wraps within three tiles plus the prefetch; two waves of a group tell "my rows" from "my group's". The proofs cover every other size. |
| `mla_pipeline` | the same of the MLA kernel | The same, and proofs for every other size. |
| `attn_wave` | what does a wave load, and what becomes of its rows' scores? | One wave of each group, two rows, tiles of four keys, parts of a block. `Max32` 255 is to the widest row here what 2^32 is to a row of 8 MB: eight tiles, so resources move several times in a walk. Pages of two to eight tokens, holes in the table. Scores from a few patterns: far below and above the frame, NaN, +inf. Lanes at full size in `FragmentsMeet`. |
| `attn_call` | is every output row computed once from exactly its keys, in bounds, whatever the call? | About nine hundred calls in families (`MCAttnCall`): every entry, causal or not, packs, views, lengths on host or GPU, pages, captures, and calls with one thing wrong. Two XCDs, one to eight CUs, q blocks of two chunks; cost constants small enough that splits, alignment and refused splits all happen. Integers are cut at 2^16 - 1 for "INT_MAX". On the GPU two waves of two lanes build the list. |
| `list_bounds` | (violation) do lengths that descend stay in bounds? | a finding |
| `launch_cache` | do queued kernels still find their list and partials? | Two streams (each some thread's own), three problem sizes, two slots, two pinned buffers, three calls: enough for a slot and a pinned buffer to come round, a buffer to grow and a graph to replay under later calls. |
| `varlen_plans` | are a plan's lists right in both modes, and is every handle destroyed once? | Two objects on two devices, three handles' lifetimes, three plan calls, two captures of up to three kernels, two sizes: a list grows under a graph, a second capture follows the first, and the handle moved into a destroyed one's place may itself wait or go. `Focus` cuts the product: with one handle its lists and graphs go to the bounds, with more the closing is explored over small ones. |
| `varlen_replay` | (violation) does a run that follows its plan read its list? | a finding |
| `mla_decode` | does the decode walk its tiles in order, and do ranks, parts, workspace and merge agree? | Two query tiles' waves, two that fill, one that does neither; tiles of two tokens, waves of two lanes, six CUs; one request of up to 13 tokens over three ranks, two of uneven lengths, three (more than a wave's lanes). Walks of 0 to 7 tiles: both parities, both drains, a tail tile. The calls are those the entry admits of the arguments tried, refused ones among them. |
| `attn942` | is every row of a gfx942 call stored once over its own keys, and does a lite walk follow its list? | Two A waves (thread 0's, and one that may vote ahead of it) and one B; rows of up to four K blocks, so a list row can hold two ranges; three calls, so a list is written, read backwards and written again; must-do ranges none, one, two. Dense calls: up to two batches, two heads, three q blocks, five K blocks, partial ones, on five CUs of two XCDs. Undefined LDS votes at a CTA's start are all-keep or all-skip. |
| `lite_seed` | (violation) is the first lite call that runs exact? | a finding |
| `moe` | does each wave store the full sum, is each output written once, do weights decode exactly, and do planned shapes have kernels? | Every tile height and number of column tiles, K from two slabs to six, columns that end within a wave, three experts of which one is elsewhere, and calls the entry refuses. Tiles of two rows, two waves, three XCDs; the 64-row tile's four waves share nothing once A is staged and do one column step. All four-bit codes under all scale bytes; 2 to 252 are exact. Lanes at full size, for every shape that is built. |

Deadlock is checked where the system has an end state to reach (`attn_pipeline`, `mla_pipeline`,
`attn_wave`, `attn_call`, `mla_decode`, `moe`). The launch models, and `attn942`'s calls that follow one
another, stop at their bounds and say `CHECK_DEADLOCK FALSE`. Streams, objects and devices that are alike
are symmetric (`launch_cache`, `varlen_plans`: safety only).

### Properties

- Pipelines: `ReadsOwnTile` (each LDS read finds its tile in every loader's rows), `NoDmaUnderRead`,
  `SameBarrier`, `OneGroupComputes`, `Terminates`, and `ImplementsWalk`: the CTA is a `TileWalk`.
- Waves: `LoadsOwnRows`, `FragmentsMeet`, `SumsInRange`, `ExactRows`.
- Calls: `EveryRowFromItsKeys`, `PartialsInWorkspace`, `StaysInTensors`, `MasksRight`,
  `KernelsTakeAdmitted`, `ListsInOrder`.
- Launch cache: `ReadsOwnList`, `MergesOwnPartials`, `CopiesOwnList`, `GraphListsKept`.
- Varlen plans: `OwnListRead`, `NoFreedUse`, `GraphListsItsRuns`, `HandleAccounted`, `CloseSweepsAll`.
- MLA decode: `AccumulatesInOrder`, `EveryPositionOnce`, `MergeReadsItsParts`, `StoredWhereRead`.
- gfx942 attention: `AttendsItsWalk`, `NextRowKeepsVotes`, `LaunchIsAttention`.
- MoE: `StoresFullSum` (the waves' waits, and that the shape's lanes stage, multiply and publish the whole tile), `EveryOutputOnce`, `DequantExact`, `PlansAreBuilt`.

Each has a mutant in `PROJECT.json`: one definition changed as a plausible bug would, on which TLC finds the
property violated.

### Fairness

The pipelines' liveness (`Terminates`, and the walk's "every wave gets through") is checked under `FairSpec`:
weak fairness of each wave's `Step`, of `Land` and of `Release`. The SIMD issues from every wave that can,
the memory system retires every load (it has no way to drop one), and `s_barrier` releases when all waves
are there. Nothing is assumed of the order between waves. No other run needs fairness.

### Assumptions of the models

- **Calls.** Scaled integers stand for INT_MAX, strides and page sizes. When `max_q` is too small for some
  sequence on the GPU, rows past it are not computed, as the binding documents. A varlen run in `AttnCall`
  follows its plan in the same capture or none; `VarlenPlans` has the rest.
- **Launch cache.** Graphs that share a stream's workspace are not replayed concurrently (`Alone`): the
  comment at *plan.hpp* 701 gives the caller that duty.
- **Waves.** Sums are kept by key and exact, with the keys added twice; terms below 2^-126 are flushed, above 2^127 inf. Row bytes are
  those of the head dim or more (a K and V of a lower token stride are left out). A finite score is at most a quarter of
  the largest float, in log2 units (`ScoresAssumption`). Waves 0 and 1 stand for any wave of their groups.
- **gfx942 attention.** A wave's LDS accesses take effect in the order issued. `LiteFits` (lists' sizes) and
  `Addressable` (tensors whose byte offsets fit 32 bits, those of a last q block's rows past Sq among them) are
  callers' duties that no code checks. What offsets beyond 32 bits do is listed as a hazard no property covers.
  `Thr < 0` is what `lite.py` checks. The static scratch of the tail split is used by one stream at a time
  (`attention_kernel.hip:385`). `Lanes942` counts the compiler's own waits only at an operand's first use.
- **Decode.** The run's CTA has two query tiles whichever the cost picks (`pick_tile`'s float cost is a whole
  number here). Only `q_lat`'s device is checked, though the message speaks of all tensors; the model
  follows the code.
- **MoE.** Block heights are counted in 16-row tiles. `stride_cn` is 1. K satisfies `moe_gateup_supports_k`.
  Calls that are admitted and built also have what `CallsAssumption` says: rows aligned to the tile's height
  (`moe_align_block_size`), a block and an expert for each, N within C's row, and N even where two columns are stored
  as one, which `mxfp4_moe_down.hip:158` requires (see Findings for calls that are not so).

## Proofs

`AttnPipelineProofs` proves `TypeOK`, `ReadsOwnTile`, `NoDmaUnderRead` (with `StageAlone`, its part about O's
stage) and `SameBarrier` of `AttnPipeline`'s `Spec` for any number of waves in either group, any number of
tiles and any live tiles per wave. The assumptions are that the groups are disjoint and that the bound on tiles
is a natural number.

None of them is inductive. A wave that sits in its softmax says nothing of what the other waves
have in flight, so the invariant `IInv` ties both to one number, the barriers released (`passed`):

1. `Control`: a wave's place and block determine `passed` (A's block t ends with barrier t + 2, B's
   begins with it; the tail of masked tiles counts on as if they were run).
2. `InFlight`, `RowsLive`, `Issued`: after p barriers a wave has at most K(p) and V(p - 1) in flight, and
   its rows hold, or will, the tiles p - 1 and p of K and p - 2 and p - 1 of V; past its `vmcnt(0)`
   they have landed.
3. So a reader of block t finds its tiles in every wave's rows, and what is loading has a tile number
   at most two above what is read: three buffers are exactly enough.

`Inductive` is the theorem `Spec => []IInv`; each property follows from `IInv` in one step.

It also proves `Walks`: `Spec => ImplementsWalk`, the refinement of `TileWalk`. `ReadsOwnTile` makes
what a wave computes from the data its block names (`SeenIsItsBlock`). `passed` bounds every wave's place,
so a wave that begins a block finds none more than one behind (`WalksTogether`); `IInv` does not say that
waves past their loop are through the last tile, so `LoopsDone` is proved beside it.
`BlockDmaV` begins a block of the walk, `BlockEndA` and `BlockEndB` end it, `DmaOnlyBlock` passes a
tile, every other step stays.

`MlaPipelineProofs` proves `ReadsOwnTile`, `NoDmaUnderRead`, `OneGroupComputes` and the walk without its liveness
(`Walks`) of `MlaPipeline`, for any two non-empty groups. There is no count of barriers in that model: `IInv` says
that there is one number p which every wave has passed. `Control` gives p from a wave's place and block: A computes
block t at p = 2t + 2, B at 2t + 3, and the parity keeps the groups apart. K(n) loads from p = 2n
(`InFlight`) and is read at 2n + 2 and 2n + 3; V(n) loads from 2n + 1 and is read from 2n + 3 to 2n + 5
(`InUse`, `RowsLive`): what lands is one tile above what is read of K, at most two of V. A release makes p
p + 1, every other step keeps it; no wave can have ended at a release (`NoneEnded`).

`MlaDecodeProofs` proves the decode's division of the work for every call: any batch, lengths, heads, ranks,
tile sizes and CUs (`IsCall` is what the entry point admits).

1. `PositionsCountedOnce`: a position p is at row p / world of rank p % world, a rank's row is in one part,
   and a tile left unmasked ends before the row does (`CountedIs`). So a row counts each position it may
   attend once, for any numbers of parts.
2. `UnitsFitTheGrid`: the shares are rounded down, so spare * (units - requests) stays below what the
   spare tiles so far may take; at the batch's end the units fit.
3. `OwnerHasTheUnit`: a block's scan goes on where the last block's ended (`ScanIs`, `BlocksBefore`), so the
   first lane past the unit is the unit's request. `MergeReadsDecode` follows: a CTA's slice and unit
   lead to its request and part, and the merge's first CTA and count lead back to it.
4. `SumsIn32Bits`: what `MaxSplitTiles` is for.

Sums over a batch need induction. The library's induction theorems take an operator, which the provers cannot
instantiate; `LeastNatural` (from the well-foundedness of the naturals) does instead: a sum's claim that
fails fails first somewhere. `SumToStep` shows in the same way that the recursive sum is what it says.
From these facts `EveryPositionOnce` and `MergeReadsItsParts` follow as invariants of `MlaDecode`'s `Spec`.

It also proves the decode's `AccumulatesInOrder` for any calls and any number of waves of each kind, if
some wave stages KV, the waves are numbered from 0 (`WavesAssumption`, the kernel's `static_assert`s) and the CTA has
a thread for each rescale of both planes (`RescaleAssumption`; 320 of 512 threads in the code), so that what the
prologue clears, which several waves share, is cleared before the first barrier (`SomeWaveClearsRescale`). In `Inv`
all waves share the step n of the barrier they passed last. n and a wave's place determine what it holds, and the
five tiles in flight are apart by the parity p = n % 2:

- `FillAt`: slot p has tile n; register p has n + 1 until it is stored to slot 1 - p, register 1 - p has n + 2,
  row 1 - p has n + 3.
- `TileAt`: plane p has tile n - 2, and the softmax puts n - 1 into plane 1 - p; the scores are n - 1 until the
  wave contracts n.
- `WaveAt`: V's fragment p is of tile n - 2 until the fetch makes it n; PV has taken up to n - 3, then n - 2.

Only wave w changes what w's place speaks of (`StepOfOne`), but for the slots and planes that all read, which
`Stepping` fixes for the whole step. The barrier turns what is said of p into the same of 1 - p
(`BarrierAdvances`); after step `tiles` what the drain needs is left in plane 1 - p (`BarrierEnds`). A CTA's
walk has a natural number of tiles because `OwnerHasTheUnit` (`StartKeeps`).

`AttnWaveProofs` proves `LoadsOwnRows` and `SumsInRange` of `AttnWave`, for any rows, keys, tiles, parts and waves.
`CallsAssumption` says which calls: rows that do not overlap (a token stride of the head dim or more), three of the
widest tiles within 32 bits of offset (the API's 2^22 elements a token leave far more), and paged, pages of whole runs of
a wave's rows, D128's K and V of one layout, fewer tiles than `NeverMoves`. `ScoresAssumption` says which scores:
NaN, infinite, or such that two of them sum, scaled and with the headroom, to a finite number. TLC checks what follows
from the invariants and not the invariants themselves. For the loads (`LoadsInv`):

- Unpaged, a resource built at tile m reaches `rsrc_tiles` tiles and a block's loads run one or two ahead (`Reaches`,
  `Near`); the offsets aim at the block's tile (`Aimed`). What makes it hold is that the next rare tile comes before
  the resource's last (`Warned`), though masks and the first tile share that test. A `dma_only_block` moves by itself.
- Paged, K's resource is the one of the run it loads next (`Holding`), V's the K one of the tile before (`VBehind`,
  `HeldAlike`), and the page registers are one and two runs ahead (`Pages`). A run stays in its page since pages hold
  whole runs (`WithinPage`); the last page's entry is never passed, since the entry read is clamped to the last key.
- Past the last key the range is 0 or ends before the row, so a load brings zeros (`UnpagedLoad`, `PagedRow`).

For the sums (`SumsInv`, on top of `LoadsInv`):

- A seed never rises above the largest score (`Seeded`): the first tile sets it by a score (`FirstShift`), a moved
  frame only lowers it (`SeedFollows`). So a score relative to its frame is NaN, +inf or at most two scores (`Sums`,
  `Related`), and scaling it does not overflow (`Scalings`).
- A tile that outgrows no frame has no score above the threshold: every score is in a lane that was tested
  (`InItsLane`, `StillInFrame`). If one row is outgrown all rows move, each past its own largest score by the headroom, or
  not at all (`Shifts`); a row with a NaN or +inf score is masked first (`MovedFrames`).
- The frames follow a block later (`FollowKeeps`), before the next QK is seeded.

`LaunchCacheProofs` proves `LaunchCache`'s four invariants for any streams, problems, list and workspace sizes, slots,
pinned buffers and calls (`CacheAssumption`: the sizes are natural numbers, there is a slot and a buffer). A kernel's
list is right only because of every call since its own, on any stream; `Inv` makes that local. It says that there is
a map `own` that gives each device address one owner, which no step changes:

- A slot of one stream (`SlotFine`). Only that stream's queue copies to it, and streams run in order: what a kernel
  will find is the last copy queued before it, or what the address holds (`HoldsAfter`). A call appends at the end,
  so it changes nothing for the kernels before.
- A stream's workspace (`WsFine`, `KernelWs`), or one of a captured graph, which other streams may replay; only the
  queue of one stream at a time names it (`WsApart`), so a merge right behind its CTAs (`MergeFine`) finds their sums.
- The graphs (`GraphFine`, `GraphListFine`): written once, before anything reads them.
- A queued copy's pinned buffer holds the list it was queued for (`CopyFine`): the pool hands out a buffer only when
  no queue names it (`PoolTurned`, `PinnedFine`).

A call is proved in the code's order: the slot (`FindFine`), the workspace and its failure path, staging with each
of its failures (`StageFine`, `FailedFine`), then what it queues (`RunFine`, `QueueAppends`). `Inv` quantifies over
`own`, so TLC checks what follows from it and not `Inv` itself.

`VarlenPlansProofs` proves `VarlenPlans`' four invariants and its action property `CloseSweepsAll` for any threads,
devices, objects, sizes and any number of handles, plans, captures and kernels. Its `Inv` (TLC has checked it on the
run's instance) rests on an address having one owner for ever:

- A buffer's address is of one handle and of one of its modes (`BuffersFine`), and graphs name none of a host list
  (`NotHost`): a replay cannot write what a host-mode run reads.
- In a graph a run's list is the last one written to its address before it (`LastListed`). A handle planned in a
  capture is the last that listed there (`ListFine`), so what `run` appends keeps this; whatever a replay finds in
  memory, it reads what it has written (`HeldIsListed`).
- An address is freed just when its handle is no object's and does not wait (`FreedFine`); a live graph names only
  objects' handles, for `close` asks that of the caller (`Recorded`).
- The sweep: after n passes n fewer handles are left to look at, those passed over are on devices that capture, and
  the rest and the gone are together what the sweep began with, each once (`SweepFine`, `SweepEnds`).

`Attention942Proofs` proves `AttendsItsWalk` and `NextRowKeepsVotes` for any waves in either group, any admitted
calls, CUs, K blocks and votes, dense or lite, over any number of calls, resets and failed calls (`WavesAssumption`:
the groups are apart, thread 0 is in A, there is a B wave; `CallsAssumption`: a tensor has a shape, a call one of the two
entry points; `MustDosAssumption`: must-do ranges come sorted by both ends, as the kernel's "walked monotonically" asks). TLC has
checked `Inv` and `ListsInv` on the run's instance, but for what says that values are sequences of integers. The
argument for the walk:

- Two barriers a step keep all waves in one of five stages of one step s (`Running`). The stage and a wave's place
  say what it has taken and what it owes (`TakesA`, `TakesB`): A's softmax is half a step ahead of B's, and either
  group owes a PV to the next half. The barriers turn what is said of one stage into the next (`ReleaseKeeps`).
- A vote slot and the registers are the wave's own, so another wave's step leaves what is said of w (`StepOfOne`);
  what w has taken depends on its votes alone (`Taken`, `TakenNext`).
- A B wave's K half holds the block of the step, and the next block lands in the other half (`KeysIn`, `LandKeeps`).
- A walk is never empty, or the prologue would load a block that is not there: a lite row is written with its
  ranges closed (`Rows`, `RecordedFine`), and a range, or an empty row, is read as a block at least (`RowWalks`); a CTA's
  part of a head starts before the head's last block, since the split never makes an empty part (`LaunchPlans`).

And for the row a call leaves (`ListsInv`, on top of `Inv`):

- Rows are strictly ordered in the direction they were written, within the call's blocks (`Written`), row 1 always
  walking down and row 2 up (`RowsFine`: each call reads the row of the last call that wrote the other way). So a walk
  goes one block on, or at least two where a range closes (`WalkFine`, `RowCourse`).
- The ring's two slots hold a wave's last two votes (`Recalls`). When thread 0 reads step n, B's last vote is of n
  and A's of n or n + 1, so all slots of n are still there (`RecordsStep`).
- Before block b the emitter's markers, with an open range closed at b, read back as the blocks kept so far in
  reverse, and their pairs' widths add up to how many (`Encodes`). A record keeps this whether the block is kept or
  dropped and closes a range or not (`RecordEncodes`).
- The ranges the must-do cursor has left pin no block to come (`Cursor`), so the cursor's range pins a block if any
  does (`CursorMoves`).
- The first block is never skipped, so the row is not empty, and does not read back as the empty row's block 0.

And it proves `LaunchIsAttention`, for calls of any shape and layout, any CUs, XCDs and tile sizes, given `SoundBuilds`
and `ExactModes` (the lanes of the two builds meet, and a row's sums are exact under every score: one kernel at full
size, which TLC evaluates as parts of `KernelSound`). The launch orders of `KernelSound` are proved with it
(`OrdersSound`). `Inv` says only that a launch is of an admitted, addressable call; the work is in the operators:

- A plan's prefix and tail are the workgroups (`PlanCovers`). A part's quotient by `ways` is its workgroup in the tail,
  its remainder the blocks it walks, every `ways`-th one (`PartsAfter`). So a kv block of a q block has one CTA
  (`WalkedOnce`), and the merge reads just its own parts (`MergeReads`).
- The swizzle trades digits of a workgroup's number below the last full round and leaves the rest: each workgroup once
  (`SwizzleOnce`), each a q block of a head (`WgOf`).
- A wave, tile and lane are one row of the q block and each row is one's (`PartRow` is one to one: `PartRowIn` and what
  follows it), rows of heads are apart in either layout (`RowsApart`), and a buffer bounded to a head's span brings row
  r of the head or nothing (`ThroughIs`): here `Addressable` is needed, for offsets that do not wrap. Whether a q block
  is stored by a CTA or by a merge, it stores the same rows (`CellOf`), so each row of O once (`Stored`).
- K's rows and V's are keys of the head up to its last (`KeysRead`); V_t is read where the transpose put it (`VtPlace`).
- A workgroup's slot in a lite launch's order counts those ahead of it (`SlotCounts`), and of any two one is ahead, so
  the slots are all different and fill the order (`Ordered`, by the pigeonhole `FS_Injection`); more blocks kept never
  means an emptier bucket (`BucketsRise`), so longer rows come first.

`MoeProofs` proves `EveryOutputOnce` for any tile size, even number of waves, dies, columns, blocks and routing, under
`MoeGridAssumption` (waves come in gate and up pairs), `CallsAssumption` and `LoadsAssumption` (the loads are numbers).
Nothing is inductive here but that the call is one of `Calls`; the work is in the operators:

- The dies' swizzle sends the workgroups one to one onto `0 .. live - 1` and beyond (`OneWorkgroup`): a die's share
  starts where the last one's ended (`Bases`, `Grows`), the first few are one longer. So a block and chunk have one
  workgroup, whatever blocks the grid has to spare.
- A column has one chunk, block of columns, wave, tile and lane (`Digits`, `GateUpColumn`, `DownColumn`), within the
  columns that the chunk's workgroup covers (`ChunkIs`, `ColumnsInside`): so one writer (`OneWriter`).
- A store's offset does not wrap when C and one row more fit the range, and a padding row's offset, C's own size, is
  dropped (`StoreLands`).

It also proves `PlansAreBuilt` for any loads: a plan's tile has a kernel, and its sweep is between one tile and all
(`StepsInside`).

And `DequantExact` for any eight nibbles and any scale in range, where the run tries sixteen words (`DecodedIs`): the
repack puts each nibble where `UnpackHalf` looks (`Repacked`), the table's packed adds do not carry from one half word
into the other (`TableOf`), and a byte selector finds the bytes of the nibble's bf16 (`PermOf`, `UnpackedIs`).

And it proves `StoresFullSum` for K of any length, any number of column steps and any interleaving of the waves, given
`SoundShapes = Shapes` (the lanes of every shape that is built agree: one layout at full size, which TLC evaluates as
`LanesSound` in `MCMoeKernel`), and K a multiple of two slabs for gate-up, as `moe_gateup_supports_k` asks of callers
(`CallsAssumption`). The inductive invariant is `InStep`, and its argument:

- At each instruction of a part, each load still of use has a number of younger operations, the same whatever the
  step (`Behind`), so the wait in front of its use has brought it in (`Arrived`). The last K steps' refills that no
  one reads keep those counts.
- The waves are between the same two barriers (`GateUpRunning`, `DownRunning`), so the slab read has been published by
  all, and the one written is read by none. A gate-up wave's sums hold the slabs before the one it is at, in order;
  a column step starts from none and its ring holds the slabs of this step before the refill's, and the next's behind.
- The GLU's barriers come after all have multiplied, so gate sums overwrite no slab still to be read; they are
  complete when the up half, past the last barrier, takes them.

Only model-checked:

- Liveness under fairness (`Terminates`, the walk's "every wave gets through"): the provers have no rule for it.
- `AttnCall`'s properties and `AttnWave`'s `ExactRows`: they are about sums and lists of a whole call, built by folds
  and recursive functions, each of which needs an induction of its own.
- Properties that compute a full-size layout (`StoredWhereRead`, `FragmentsMeet`, the lanes' part of `StoresFullSum`,
  the lanes' and the rows' part of `LaunchIsAttention`): there is one layout, and TLC evaluates it whole.

## Findings

- **Lite: a call that raises turns the lists' roles** (`lite_seed`). `lite.py` flips its phase before the
  kernel call; after a failed first call the next reads a row no call wrote, and computes one block.
- **Merge items are not checked against the list's end** (`list_bounds`). With `cu_seqlens` that descend
  there may be more split q blocks than `dev_plan` counted, and a merge item is stored past the list, though
  the comment says any `cu_seqlens` stays in bounds.
- **A replay between a plan and its run** (`varlen_replay`). Device-mode plans of one handle share a list.
  Plan and run captured, plan again outside, replay, run: the run reads the replay's list, though the caller
  kept the documented rules.

Met while reading, without a run of their own (`PROJECT.json` has the lines):

- `attention_api.cpp` (gfx950) 11 allows any strides, but `attention.hip` 155 bounds a page's rows by tokens times the
  token stride: with a paged K whose tokens overlap (an expanded one, of stride 0) rows of the cache come as zeros.
- *plan.hpp* 483: with a CU count of -1 (the attribute could not be read) `dev_plan`'s loop does not end.
- `attention_api.cpp` (gfx950) 472: closed handles wait while their *device* captures, says the comment; the
  code looks at the closing thread's stream. 577: a scale below the least float is admitted and returns -1.
- `attention_kernel.hip` (gfx942) 1187: V's transpose addresses V and V_t in 32 bits from the tensors'
  start. 1065, 1699: comments on the vote ring and V_t's size. `attention_api.cpp` 286: `forward_lite` leaves
  out checks it says it mirrors. `_kernel.py` 403 says the lite kernel is absent.
- `mxfp4_moe_gateup.hip` 387: an odd number of slabs loses the last. `mxfp4_moe_api.cpp` 57: block_m 64 with
  K 512 or 768 launches nothing. 168: nt = 1 skips checks that the kernel built for two needs.
  `mxfp4_moe_down.hip` 466: the split is not at most two-way, nor even.

## Not modelled

- Machine arithmetic: rounding modes, fp8 and bf16 conversions of scores, SituGLU's polynomial, and the
  decode's softmax arithmetic (its order is modelled). `mla_dcp_lse_merge_ranks` only computes.
- LDS bank conflicts, instruction scheduling and L1 prefetch: they change time, not results.
- The vendored opus library (7316 of the 11015 lines of implementation), but for the layouts the kernels
  build with it, which `LaneViews` has by what they give.
- hipStreamPerThread keys reused by a later thread, capture modes other than the one `device_alloc` sets, and
  `hipHostMalloc` under another thread's capture: the runtime's behaviour, not fixed by this source.
- Python argument checks and dispatch, error texts, bindings: they keep no state.
- Tests, benchmarks, tools and build were read for what they promise.

## Plan

Done: the modules above. Left, in order of worth:

1. Proofs: the work items' parts and masks for all values.
2. `VarlenPlan` calls of two threads on one handle (`api_varlen_run` takes no lock): the binding holds the
   interpreter's lock today, so nothing in `src/` can run them at once.
