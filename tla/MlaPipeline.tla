---------------------------- MODULE MlaPipeline ----------------------------
(***************************************************************************)
(* The K/V pipeline of the gfx950 MLA attention kernel (csrc/gfx950/       *)
(* attention_mla.hip).  Unlike attention.hip, group A loads all of K and   *)
(* group B all of V, K's ring is two deep and V's three, and two unequal   *)
(* barriers close a tile: one that waits for the wave's own DMA before a   *)
(* block, and a bare one after it.  Between them one group runs a block    *)
(* and the other its softmax:                                              *)
(*                                                                         *)
(*   A:  block 0 | softmax 0 | block 1 | softmax 1 | ...                   *)
(*   B:          | block 0   | softmax 0 | block 1 | ...                   *)
(*                                                                         *)
(* A slab (the rows one wave loads) is the number of the tile in it.       *)
(***************************************************************************)
EXTENDS Integers, Sequences

CONSTANTS GroupA,    \* waves that load K
          GroupB,    \* waves that load V, one window behind
          MaxTiles   \* bound on a work item's KV tiles

ASSUME GroupsAssumption == GroupA \cap GroupB = {}
ASSUME BothLoad == GroupA # {} /\ GroupB # {}
ASSUME TilesAssumption == MaxTiles \in Nat

Waves == GroupA \cup GroupB
NoTile == -1
Tiles == 0 .. MaxTiles + 1                   \* a block loads one tile ahead

Ring(w) == IF w \in GroupA THEN "K" ELSE "V"
Loaders(ring) == IF ring = "K" THEN GroupA ELSE GroupB

(* k_buf and v_buf.  Mutant: V's ring as deep as K's.                      *)
RingDepthEven(ring) == 2
RingDepth(ring) == IF ring = "K" THEN 2 ELSE 3
BufOf(ring, n) == n % RingDepth(ring)

VARIABLES
  kind,      \* "whole" q block, "part" of a split one, or "empty"
  numTiles,  \* the item's KV tiles
  numLive,   \* per wave: tiles from here on mask all its rows
  pc,        \* per wave: where it is in the kernel
  blk,       \* per wave: the block it is in, or its next one
  dma,       \* per wave: tiles of its ring it has in flight, oldest first
  slab       \* per wave: the tile in its slabs of each of its ring's buffers

vars == <<kind, numTiles, numLive, pc, blk, dma, slab>>
item == <<kind, numTiles, numLive>>

Computing == {"mfma", "mfma_dma"}            \* before and after its DMA is issued
AtBarrier == {"wait_start", "wait_lead", "wait_tile", "wait_block", "wait_trail", "wait_stage"}
Places == Computing \cup AtBarrier
            \cup {"prologue", "settle", "frags", "drain", "softmax", "dma", "epilogue", "stage", "end"}

(* Blocks 0 and 1 both read V(0), block 0 with P = 0.                      *)
PvTile(n) == IF n = 0 THEN 0 ELSE n - 1

(* What a wave reads from LDS.  Block t + 1's first V fragments are read   *)
(* at the end of softmax t by A, in block t's last steps by B.             *)
Reads(w) ==
  LET t == blk[w] IN
  CASE pc[w] = "frags"                        -> {<<"V", 0>>}
    [] pc[w] \in Computing /\ w \in GroupA    -> {<<"V", PvTile(t)>>, <<"K", t>>}
    [] pc[w] \in Computing /\ w \in GroupB    -> {<<"V", PvTile(t)>>, <<"K", t>>, <<"V", t>>}
    [] pc[w] = "softmax" /\ w \in GroupA      -> {<<"V", t>>}
    [] OTHER                                  -> {}

-----------------------------------------------------------------------------
Init ==
  /\ kind \in {"whole", "part", "empty"}
  /\ numTiles \in 0 .. MaxTiles
  /\ numLive \in [Waves -> 0 .. numTiles]
  /\ pc = [w \in Waves |-> "prologue"]
  /\ blk = [w \in Waves |-> 0]
  /\ dma = [w \in Waves |-> <<>>]
  /\ slab = [w \in Waves |-> [b \in 0 .. RingDepth(Ring(w)) - 1 |-> NoTile]]

Goto(w, place) == pc' = [pc EXCEPT ![w] = place]
Issue(w, n) == dma' = [dma EXCEPT ![w] = Append(@, n)]

(* The oldest load in flight lands.                                        *)
Land(w) ==
  /\ dma[w] # <<>>
  /\ slab' = [slab EXCEPT ![w][BufOf(Ring(w), Head(dma[w]))] = Head(dma[w])]
  /\ dma' = [dma EXCEPT ![w] = Tail(@)]
  /\ UNCHANGED <<item, pc, blk>>

SkipEmpty(w) ==
  /\ pc[w] = "prologue" /\ kind = "empty"
  /\ Goto(w, "end")
  /\ UNCHANGED <<item, blk, dma, slab>>

(* K(0) by A, V(0) by B.                                                   *)
Prologue(w) ==
  /\ pc[w] = "prologue" /\ kind # "empty"
  /\ Issue(w, 0)
  /\ Goto(w, "settle")
  /\ UNCHANGED <<item, blk, slab>>

(* s_waitcnt vmcnt(0), then the barrier that makes tile 0 visible.         *)
ArriveStart(w) ==
  /\ pc[w] = "settle" /\ dma[w] = <<>>
  /\ Goto(w, "wait_start")
  /\ UNCHANGED <<item, blk, dma, slab>>

(* Mutant: B's first block is not held one window back.                    *)
FirstFragsNoLead(w) ==
  /\ pc[w] = "frags"
  /\ Goto(w, "drain")
  /\ UNCHANGED <<item, blk, dma, slab>>

(* prep_block_frags of block 0; then B's unpaired barrier.                 *)
FirstFrags(w) ==
  /\ pc[w] = "frags"
  /\ Goto(w, IF w \in GroupA THEN "drain" ELSE "wait_lead")
  /\ UNCHANGED <<item, blk, dma, slab>>

(* Mutant: the barrier without its s_waitcnt.                              *)
ArriveTileNoWait(w) ==
  /\ pc[w] = "drain"
  /\ Goto(w, "wait_tile")
  /\ UNCHANGED <<item, blk, dma, slab>>

(* tile_barrier, before a block: this wave's DMA, then every wave.         *)
ArriveTile(w) ==
  /\ pc[w] = "drain" /\ dma[w] = <<>>
  /\ Goto(w, "wait_tile")
  /\ UNCHANGED <<item, blk, dma, slab>>

(* mfma_block: dma_step issues the ring's next tile under the MFMAs.       *)
BlockDma(w) ==
  /\ pc[w] = "mfma"
  /\ Issue(w, blk[w] + 1)
  /\ Goto(w, "mfma_dma")
  /\ UNCHANGED <<item, blk, slab>>

(* block_barrier after a block.                                            *)
BlockEnd(w) ==
  /\ pc[w] = "mfma_dma"
  /\ Goto(w, "wait_block")
  /\ UNCHANGED <<item, blk, dma, slab>>

SoftmaxEnd(w) ==
  /\ pc[w] = "softmax"
  /\ blk' = [blk EXCEPT ![w] = @ + 1]
  /\ Goto(w, "drain")
  /\ UNCHANGED <<item, dma, slab>>

(* Mutant: a masked tile's loads followed by no block barrier.             *)
DmaOnlyBlockNoBarrier(w) ==
  /\ pc[w] = "dma"
  /\ Issue(w, blk[w] + 1)
  /\ blk' = [blk EXCEPT ![w] = @ + 1]
  /\ Goto(w, IF blk[w] < numTiles THEN "drain"
             ELSE IF w \in GroupA THEN "wait_trail" ELSE "epilogue")
  /\ UNCHANGED <<item, slab>>

(* dma_only_block, for a tile that masks all of this wave's rows.          *)
DmaOnlyBlock(w) ==
  /\ pc[w] = "dma"
  /\ Issue(w, blk[w] + 1)
  /\ Goto(w, "wait_block")
  /\ UNCHANGED <<item, blk, slab>>

PartEnd(w) ==
  /\ pc[w] = "epilogue" /\ kind = "part"
  /\ Goto(w, "end")
  /\ UNCHANGED <<item, blk, dma, slab>>

(* O is staged over the rings once every wave's last DMA has landed.       *)
ArriveStage(w) ==
  /\ pc[w] = "epilogue" /\ kind = "whole" /\ dma[w] = <<>>
  /\ Goto(w, "wait_stage")
  /\ UNCHANGED <<item, blk, dma, slab>>

StageEnd(w) ==
  /\ pc[w] = "stage"
  /\ Goto(w, "end")
  /\ UNCHANGED <<item, blk, dma, slab>>

(* main_loop after block t's closing barrier: softmax t of a live tile,    *)
(* the next dma-only block, or out, A by one more barrier.                 *)
AfterBlock(w) ==
  LET t == blk[w] IN
  CASE t < numLive[w]                    -> <<"softmax", t>>
    [] t >= numLive[w] /\ t < numTiles   -> <<"drain", t + 1>>
    [] t >= numTiles /\ w \in GroupA     -> <<"wait_trail", t + 1>>
    [] OTHER                             -> <<"epilogue", t + 1>>

AfterTile(w) == IF blk[w] <= numLive[w] THEN "mfma" ELSE "dma"

AfterBarrier(w) ==
  CASE pc[w] = "wait_start" -> <<"frags", blk[w]>>
    [] pc[w] = "wait_lead"  -> <<"drain", blk[w]>>
    [] pc[w] = "wait_tile"  -> <<AfterTile(w), blk[w]>>
    [] pc[w] = "wait_block" -> AfterBlock(w)
    [] pc[w] = "wait_trail" -> <<"epilogue", blk[w]>>
    [] pc[w] = "wait_stage" -> <<"stage", blk[w]>>
    [] OTHER                -> <<pc[w], blk[w]>>

(* s_barrier counts arrivals of the waves that have not ended, at whichever *)
(* barrier of the kernel each is.                                          *)
Release ==
  /\ \A w \in Waves : pc[w] \in AtBarrier \cup {"end"}
  /\ \E w \in Waves : pc[w] \in AtBarrier
  /\ pc' = [w \in Waves |-> AfterBarrier(w)[1]]
  /\ blk' = [w \in Waves |-> AfterBarrier(w)[2]]
  /\ UNCHANGED <<item, dma, slab>>

Step(w) ==
  \/ SkipEmpty(w)   \/ Prologue(w)  \/ ArriveStart(w) \/ FirstFrags(w)
  \/ ArriveTile(w)  \/ BlockDma(w)  \/ BlockEnd(w)    \/ SoftmaxEnd(w)
  \/ DmaOnlyBlock(w) \/ PartEnd(w)  \/ ArriveStage(w) \/ StageEnd(w)

Finished == \A w \in Waves : pc[w] = "end" /\ dma[w] = <<>>

Retired == Finished /\ UNCHANGED vars

Next ==
  \/ \E w \in Waves : Land(w)
  \/ \E w \in Waves : Step(w)
  \/ Release
  \/ Retired

(* The hardware retires every load and issues from every wave that can.    *)
Fairness ==
  /\ \A w \in Waves : WF_vars(Land(w)) /\ WF_vars(Step(w))
  /\ WF_vars(Release)

Spec == Init /\ [][Next]_vars
FairSpec == Spec /\ Fairness

-----------------------------------------------------------------------------
(* Every LDS read finds, in the slabs of every wave that loads its ring,   *)
(* the tile the block names: neither late nor overwritten.                 *)
ReadsOwnTile ==
  \A w \in Waves : \A x \in Reads(w) : \A u \in Loaders(x[1]) :
    slab[u][BufOf(x[1], x[2])] = x[2]

(* No load in flight targets a buffer that some wave is reading: K(t + 1)  *)
(* replaces K(t - 1) and V(t + 1) replaces V(t - 2) ("into the buffers of  *)
(* K(t - 1) and V(t - 2)").  And O is staged over the rings only once no   *)
(* wave reads them and no load is still going to land in them.             *)
NoDmaUnderRead ==
  /\ \A w \in Waves : \A x \in Reads(w) : \A u \in Loaders(x[1]) :
       \A i \in DOMAIN dma[u] : BufOf(x[1], dma[u][i]) # BufOf(x[1], x[2])
  /\ (\E w \in Waves : pc[w] = "stage") => \A u \in Waves : Reads(u) = {} /\ dma[u] = <<>>

(* "Between them one group runs a block, the other a softmax": the groups' *)
(* MFMA blocks never overlap, though the two unequal barriers and the      *)
(* unpaired one are matched by count alone.                                *)
OneGroupComputes ==
  \A a \in GroupA, b \in GroupB : ~(pc[a] \in Computing /\ pc[b] \in Computing)

-----------------------------------------------------------------------------
(* The promise to the softmax.  seen is what is in LDS, not what should be. *)
DataOf(x) == {<<x[1], slab[u][BufOf(x[1], x[2])]>> : u \in Loaders(x[1])}

WalkSeen(w) ==
  IF pc[w] \in Computing
    THEN DataOf(<<"V", PvTile(blk[w])>>) \cup DataOf(<<"K", blk[w]>>)
    ELSE {}

(* Blocks done: a block is over at its closing barrier.                    *)
WalkPos(w) ==
  blk[w] + (IF pc[w] \in {"wait_block", "softmax"} THEN 1 ELSE 0)

TheWalk == INSTANCE TileWalk WITH
  empty <- kind = "empty",
  pos <- [w \in Waves |-> WalkPos(w)],
  seen <- [w \in Waves |-> WalkSeen(w)]

(* The MLA pipeline implements the walk over the tiles.                    *)
ImplementsWalk == TheWalk!Spec
=============================================================================
