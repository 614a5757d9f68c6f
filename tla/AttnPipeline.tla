---------------------------- MODULE AttnPipeline ----------------------------
(***************************************************************************)
(* The K/V pipeline of the gfx950 attention kernel (csrc/gfx950/           *)
(* attention.hip): one CTA, its waves in two groups half a tile apart, the *)
(* 3-deep K and V rings they share in LDS, the DMA each wave has in flight *)
(* and the barrier that is the only thing keeping them in step.            *)
(*                                                                         *)
(*   A:  block 0 | softmax 0, block 1 | softmax 1, block 2 | ...           *)
(*   B:          | block 0, softmax 0 | block 1, softmax 1 | ...           *)
(*                                                                         *)
(* Every wave fills its own rows (slabs) of every tile, so a reader needs  *)
(* the DMA of ALL waves.  A slab's content is abstracted to the number of  *)
(* the tile it came from: stale or half-filled data is a wrong number.     *)
(***************************************************************************)
EXTENDS Integers, Sequences

CONSTANTS GroupA,    \* waves 0 .. NumWaves / 2 - 1
          GroupB,    \* the others; wave w + 4 shares wave w's SIMD
          MaxTiles   \* bound on a work item's KV tiles

ASSUME GroupsAssumption == GroupA \cap GroupB = {}
ASSUME TilesAssumption == MaxTiles \in Nat

Waves == GroupA \cup GroupB
Rings == {"K", "V"}
TileBufs == 3
Buffers == 0 .. TileBufs - 1
NoTile == -1                                 \* an LDS slab nothing was loaded to
Tiles == 0 .. MaxTiles + 2                   \* DMA runs up to two tiles ahead

(* Mutant: the ring's wrap tested one buffer late.                         *)
BufOfLateWrap(n) == n % (TileBufs + 1)

(* k_buf and v_buf: tile n's buffer in its ring.                           *)
BufOf(n) == n % TileBufs

VARIABLES
  kind,      \* the work item: a "whole" q block, a "part" of a split one, or "empty"
  numTiles,  \* the item's KV tiles
  numLive,   \* per wave: tiles from here on mask all its rows
  pc,        \* per wave: where it is in the kernel
  blk,       \* per wave: t, the block it is in
  dma,       \* per wave: its loads in flight, oldest first (vmcnt counts them)
  slab,      \* per wave: the tile in its rows of each ring buffer
  passed     \* barriers released so far

vars == <<kind, numTiles, numLive, pc, blk, dma, slab, passed>>
item == <<kind, numTiles, numLive>>

Reading == {"frags", "pv", "pv_k", "qk", "softmax"}
AtBarrier == {"wait_start", "wait_tile", "wait_stage"}
Places == Reading \cup AtBarrier
            \cup {"prologue", "settle", "drain", "dma", "epilogue", "stage", "end"}

Load(ring, n) == [ring |-> ring, buf |-> BufOf(n), tile |-> n]

(* Block t loads K(t + k_ahead) and V(t + v_ahead).                        *)
KAhead(w) == IF w \in GroupA THEN 1 ELSE 2
VAheadAsK(w) == KAhead(w)            \* mutant: V's rows taken as far ahead as K's
VAhead(w) == IF w \in GroupA THEN 0 ELSE 1

(* The tile block t's PV reads: V(t - 1), and V(0) in block 0, where P = 0.*)
PvTile(n) == IF n = 0 THEN 0 ELSE n - 1

(* What a wave is reading from LDS.  A reads block t + 1's first V         *)
(* fragments at the end of softmax t, B in block t's last steps; the last  *)
(* PV fragments are read after the block's DMA is issued.                  *)
Reads(w) ==
  LET t == blk[w] IN
  CASE pc[w] \in {"frags", "pv", "pv_k"} -> {<<"V", PvTile(t)>>}
    [] pc[w] = "qk" /\ w \in GroupA      -> {<<"V", PvTile(t)>>, <<"K", t>>}
    [] pc[w] = "qk" /\ w \in GroupB      -> {<<"V", PvTile(t)>>, <<"K", t>>, <<"V", t>>}
    [] pc[w] = "softmax" /\ w \in GroupA -> {<<"V", t>>}
    [] OTHER                             -> {}

-----------------------------------------------------------------------------
(* A wave's num_live is 0 .. num_tiles (wave_work); an item of no rows is  *)
(* empty for every wave.                                                   *)
Init ==
  /\ kind \in {"whole", "part", "empty"}
  /\ numTiles \in 0 .. MaxTiles
  /\ numLive \in [Waves -> 0 .. numTiles]
  /\ pc = [w \in Waves |-> "prologue"]
  /\ blk = [w \in Waves |-> 0]
  /\ dma = [w \in Waves |-> <<>>]
  /\ slab = [w \in Waves |-> [r \in Rings |-> [b \in Buffers |-> NoTile]]]
  /\ passed = 0

Goto(w, place) == pc' = [pc EXCEPT ![w] = place]

(* The oldest load in flight lands in its wave's rows of the buffer.       *)
Land(w) ==
  /\ dma[w] # <<>>
  /\ LET d == Head(dma[w]) IN
       slab' = [slab EXCEPT ![w][d.ring][d.buf] = d.tile]
  /\ dma' = [dma EXCEPT ![w] = Tail(@)]
  /\ UNCHANGED <<item, pc, blk, passed>>

(* An empty item's waves all return before any DMA.                        *)
SkipEmpty(w) ==
  /\ pc[w] = "prologue" /\ kind = "empty"
  /\ Goto(w, "end")
  /\ UNCHANGED <<item, blk, dma, slab, passed>>

(* K(0), V(0) and B's K(1).                                                *)
PrologueLoads(w) ==
  IF w \in GroupA THEN <<Load("K", 0), Load("V", 0)>>
                  ELSE <<Load("K", 0), Load("V", 0), Load("K", 1)>>

Prologue(w) ==
  /\ pc[w] = "prologue" /\ kind # "empty"
  /\ dma' = [dma EXCEPT ![w] = PrologueLoads(w)]
  /\ Goto(w, "settle")
  /\ UNCHANGED <<item, blk, slab, passed>>

(* Loads that may still be in flight when tile 0 is made visible: B's K(1).*)
StartOutstanding(w) == IF w \in GroupA THEN 0 ELSE 1

ArriveStart(w) ==
  /\ pc[w] = "settle"
  /\ Len(dma[w]) <= StartOutstanding(w)
  /\ Goto(w, "wait_start")
  /\ UNCHANGED <<item, blk, dma, slab, passed>>

(* prep_block_frags of block 0, then A's block or B's tile barrier.        *)
FirstFrags(w) ==
  /\ pc[w] = "frags"
  /\ Goto(w, IF w \in GroupA THEN "pv" ELSE "drain")
  /\ UNCHANGED <<item, blk, dma, slab, passed>>

(* dma_step: the block's K loads, then its V loads, under the PV reads.    *)
BlockDmaK(w) ==
  /\ pc[w] = "pv"
  /\ dma' = [dma EXCEPT ![w] = Append(@, Load("K", blk[w] + KAhead(w)))]
  /\ Goto(w, "pv_k")
  /\ UNCHANGED <<item, blk, slab, passed>>

BlockDmaV(w) ==
  /\ pc[w] = "pv_k"
  /\ dma' = [dma EXCEPT ![w] = Append(@, Load("V", blk[w] + VAhead(w)))]
  /\ Goto(w, "qk")
  /\ UNCHANGED <<item, blk, slab, passed>>

(* The end of A's block is its tile barrier.                               *)
BlockEndA(w) ==
  /\ pc[w] = "qk" /\ w \in GroupA
  /\ Goto(w, "drain")
  /\ UNCHANGED <<item, blk, dma, slab, passed>>

(* Mutants: a wave with masked tiles leaves without its DMA-only blocks,   *)
(* and the last block never leaves.                                        *)
BlockEndBNoTail(w) ==
  /\ pc[w] = "qk" /\ w \in GroupB
  /\ Goto(w, IF blk[w] < numLive[w] THEN "softmax" ELSE "epilogue")
  /\ UNCHANGED <<item, blk, dma, slab, passed>>

BlockEndBNoExit(w) ==
  /\ pc[w] = "qk" /\ w \in GroupB
  /\ \/ blk[w] < numLive[w] /\ Goto(w, "softmax") /\ UNCHANGED blk
     \/ /\ blk[w] >= numLive[w] /\ blk[w] < numTiles
        /\ Goto(w, "drain") /\ blk' = [blk EXCEPT ![w] = @ + 1]
  /\ UNCHANGED <<item, dma, slab, passed>>

(* B goes on to its softmax, to a DMA-only block's barrier, or out.        *)
BlockEndB(w) ==
  /\ pc[w] = "qk" /\ w \in GroupB
  /\ \/ blk[w] < numLive[w] /\ Goto(w, "softmax") /\ UNCHANGED blk
     \/ /\ blk[w] >= numLive[w] /\ blk[w] < numTiles
        /\ Goto(w, "drain") /\ blk' = [blk EXCEPT ![w] = @ + 1]
     \/ blk[w] >= numLive[w] /\ blk[w] >= numTiles /\ Goto(w, "epilogue") /\ UNCHANGED blk
  /\ UNCHANGED <<item, dma, slab, passed>>

SoftmaxEnd(w) ==
  /\ pc[w] = "softmax"
  /\ blk' = [blk EXCEPT ![w] = @ + 1]
  /\ Goto(w, IF w \in GroupA THEN "pv" ELSE "drain")
  /\ UNCHANGED <<item, dma, slab, passed>>

(* dma_only_block's loads: a tile masked for every row of this wave still  *)
(* needs this wave's rows for the others.  A's tile barrier follows, B's   *)
(* preceded.                                                               *)
DmaOnlyBlock(w) ==
  /\ pc[w] = "dma"
  /\ dma' = [dma EXCEPT ![w] = Append(Append(@, Load("K", blk[w] + KAhead(w))),
                                      Load("V", blk[w] + VAhead(w)))]
  /\ \/ w \in GroupA /\ Goto(w, "drain") /\ UNCHANGED blk
     \/ /\ w \in GroupB /\ blk[w] < numTiles
        /\ Goto(w, "drain") /\ blk' = [blk EXCEPT ![w] = @ + 1]
     \/ w \in GroupB /\ blk[w] >= numTiles /\ Goto(w, "epilogue") /\ UNCHANGED blk
  /\ UNCHANGED <<item, slab, passed>>

(* Mutant: the barrier without its s_waitcnt.                              *)
ArriveTileNoWait(w) ==
  /\ pc[w] = "drain"
  /\ Goto(w, "wait_tile")
  /\ UNCHANGED <<item, blk, dma, slab, passed>>

(* tile_barrier: s_waitcnt vmcnt(0), then s_barrier.                       *)
ArriveTile(w) ==
  /\ pc[w] = "drain"
  /\ dma[w] = <<>>
  /\ Goto(w, "wait_tile")
  /\ UNCHANGED <<item, blk, dma, slab, passed>>

(* A part's waves store their partials and return; a whole block's wait    *)
(* for their own DMA and for every wave before staging O over the rings.   *)
PartEnd(w) ==
  /\ pc[w] = "epilogue" /\ kind = "part"
  /\ Goto(w, "end")
  /\ UNCHANGED <<item, blk, dma, slab, passed>>

ArriveStage(w) ==
  /\ pc[w] = "epilogue" /\ kind = "whole"
  /\ dma[w] = <<>>
  /\ Goto(w, "wait_stage")
  /\ UNCHANGED <<item, blk, dma, slab, passed>>

StageEnd(w) ==
  /\ pc[w] = "stage"
  /\ Goto(w, "end")
  /\ UNCHANGED <<item, blk, dma, slab, passed>>

(* Where a wave goes when a tile barrier releases it, in block t.          *)
AfterTileBarrier(w) ==
  LET t == blk[w] IN
  CASE w \in GroupA /\ t < numLive[w]                    -> <<"softmax", t>>
    [] w \in GroupA /\ t >= numLive[w] /\ t < numTiles   -> <<"dma", t + 1>>
    [] w \in GroupA /\ t >= numLive[w] /\ t >= numTiles  -> <<"epilogue", t>>
    [] w \in GroupB /\ t <= numLive[w]                   -> <<"pv", t>>
    [] OTHER                                             -> <<"dma", t>>

AfterBarrier(w) ==
  CASE pc[w] = "wait_start" -> <<"frags", blk[w]>>
    [] pc[w] = "wait_stage" -> <<"stage", blk[w]>>
    [] pc[w] = "wait_tile"  -> AfterTileBarrier(w)
    [] OTHER                -> <<pc[w], blk[w]>>

(* s_barrier only counts: every wave that has not ended is at one, at      *)
(* whichever of the kernel's barriers that is.                             *)
Release ==
  /\ \A w \in Waves : pc[w] \in AtBarrier \cup {"end"}
  /\ \E w \in Waves : pc[w] \in AtBarrier
  /\ pc' = [w \in Waves |-> AfterBarrier(w)[1]]
  /\ blk' = [w \in Waves |-> AfterBarrier(w)[2]]
  /\ passed' = passed + 1
  /\ UNCHANGED <<item, dma, slab>>

Step(w) ==
  \/ SkipEmpty(w)  \/ Prologue(w)   \/ ArriveStart(w)  \/ FirstFrags(w)
  \/ BlockDmaK(w)  \/ BlockDmaV(w)  \/ BlockEndA(w)    \/ BlockEndB(w)
  \/ SoftmaxEnd(w) \/ DmaOnlyBlock(w) \/ ArriveTile(w)
  \/ PartEnd(w)    \/ ArriveStage(w)  \/ StageEnd(w)

Finished == \A w \in Waves : pc[w] = "end" /\ dma[w] = <<>>

Retired == Finished /\ UNCHANGED vars

Next ==
  \/ \E w \in Waves : Land(w)
  \/ \E w \in Waves : Step(w)
  \/ Release
  \/ Retired

(* The hardware retires every load and issues from every wave that can.    *)
Fairness ==
  /\ \A w \in Waves : WF_vars(Land(w)) /\ WF_vars(Step(w))
  /\ WF_vars(Release)

Spec == Init /\ [][Next]_vars
FairSpec == Spec /\ Fairness
-----------------------------------------------------------------------------
LoadSet == [ring : Rings, buf : Buffers, tile : Tiles]

(* Types: a load names a buffer of its ring, the block never passes the    *)
(* item's last tile and DMA at most two tiles past it.                     *)
TypeOK ==
  /\ kind \in {"whole", "part", "empty"}
  /\ numTiles \in 0 .. MaxTiles
  /\ numLive \in [Waves -> 0 .. numTiles]
  /\ pc \in [Waves -> Places]
  /\ blk \in [Waves -> 0 .. MaxTiles]
  /\ dma \in [Waves -> Seq(LoadSet)]
  /\ slab \in [Waves -> [Rings -> [Buffers -> Tiles \cup {NoTile}]]]
  /\ passed \in Nat

(* Whatever a wave reads in its PV and QK steps is the tile its block      *)
(* names, in the rows of every wave: no wave's DMA is late and none has    *)
(* already reused the buffer, whatever each wave's live tiles.             *)
Holds(u, ring, n) == slab[u][ring][BufOf(n)] = n

ReadsOwnTile ==
  \A w \in Waves : \A x \in Reads(w) : \A u \in Waves : Holds(u, x[1], x[2])

(* No load in flight targets a buffer some wave is reading, other than A's *)
(* block 0 loading the V(0) that is there already ("the buffers are unread *)
(* until the next barrier"); and O is staged over the rings only once no   *)
(* wave reads them and no load is still going to land in them.             *)
ReadAlone ==
  \A w \in Waves : \A x \in Reads(w) : \A u \in Waves : \A i \in 1 .. Len(dma[u]) :
    dma[u][i].ring = x[1] /\ dma[u][i].buf = BufOf(x[2]) => dma[u][i].tile = x[2]

StageAlone ==
  (\E w \in Waves : pc[w] = "stage") =>
    \A u \in Waves : Reads(u) = {} /\ dma[u] = <<>>

NoDmaUnderRead == ReadAlone /\ StageAlone

(* Waves that wait together wait at the same barrier of the same tile,     *)
(* though s_barrier does not look: every wave runs num_tiles + 1 tile      *)
(* barriers, whatever its own live tiles.                                  *)
SameBarrier ==
  \A u, w \in Waves :
    pc[u] \in AtBarrier /\ pc[w] \in AtBarrier =>
      pc[u] = pc[w] /\ (pc[u] = "wait_tile" => blk[u] = blk[w])

(* Every CTA ends: no wave waits at a barrier the others never reach.      *)
Terminates == <>Finished

-----------------------------------------------------------------------------
(* The promise to the softmax.  seen is what is in LDS, not what should be. *)
DataOf(ring, n) == {<<ring, slab[u][ring][BufOf(n)]>> : u \in Waves}

WalkSeen(w) ==
  IF pc[w] = "qk" THEN DataOf("V", PvTile(blk[w])) \cup DataOf("K", blk[w]) ELSE {}

(* Blocks done: A's tile barrier closes its block, B's opens the next one. *)
AfterBlockA == {"drain", "wait_tile", "softmax"}
AfterBlockB == {"softmax"}
AfterLoop == {"epilogue", "wait_stage", "stage", "end"}

WalkPos(w) ==
  IF kind # "empty" /\ pc[w] \in AfterLoop \cup (IF w \in GroupA THEN AfterBlockA ELSE AfterBlockB)
    THEN blk[w] + 1 ELSE blk[w]

TheWalk == INSTANCE TileWalk WITH
  empty <- kind = "empty",
  pos <- [w \in Waves |-> WalkPos(w)],
  seen <- [w \in Waves |-> WalkSeen(w)]

(* The pipeline implements the walk over the tiles.                        *)
ImplementsWalk == TheWalk!Walk
=============================================================================
