------------------------------ MODULE TileWalk ------------------------------
(* What a gfx950 attention CTA's K/V pipeline promises its softmax, however *)
(* it schedules waves, loads and barriers: each wave takes the blocks of   *)
(* its live tiles in order, each computed from exactly the K and V tiles   *)
(* the block names, then passes the tiles that are masked for it; no wave  *)
(* starts a block before every wave is at most one block behind; and every *)
(* wave gets through the item.                                             *)
EXTENDS Integers

CONSTANTS Waves, MaxTiles

NotComputing == {}

VARIABLES
  empty,     \* an item of no rows: nothing is computed
  numTiles,  \* the item's KV tiles
  numLive,   \* per wave: tiles from here on mask all its rows
  pos,       \* per wave: blocks it is through with
  seen       \* per wave: the <<ring, tile>> its MFMAs are computing from

vars == <<empty, numTiles, numLive, pos, seen>>
item == <<empty, numTiles, numLive>>

(* Block n is PV of tile n - 1 (of tile 0 with P = 0 in block 0) and QK of *)
(* tile n.                                                                 *)
BlockData(n) == {<<"V", IF n = 0 THEN 0 ELSE n - 1>>, <<"K", n>>}

Init ==
  /\ empty \in BOOLEAN
  /\ numTiles \in 0 .. MaxTiles
  /\ numLive \in [Waves -> 0 .. numTiles]
  /\ pos = [w \in Waves |-> 0]
  /\ seen = [w \in Waves |-> NotComputing]

Together(w) == \A u \in Waves : pos[u] >= pos[w] - 1

Begin(w) ==
  /\ ~empty /\ seen[w] = NotComputing
  /\ pos[w] <= numLive[w] /\ Together(w)
  /\ seen'[w] = BlockData(pos[w]) /\ pos'[w] = pos[w]

End(w) ==
  /\ seen[w] # NotComputing
  /\ seen'[w] = NotComputing /\ pos'[w] = pos[w] + 1

(* A tile that masks all the wave's rows.                                  *)
Pass(w) ==
  /\ ~empty /\ numLive[w] < pos[w] /\ pos[w] <= numTiles /\ Together(w)
  /\ seen'[w] = seen[w] /\ pos'[w] = pos[w] + 1

Stay(w) == pos'[w] = pos[w] /\ seen'[w] = seen[w]

(* One barrier may let several waves move.                                 *)
Next ==
  /\ \A w \in Waves : Begin(w) \/ End(w) \/ Pass(w) \/ Stay(w)
  /\ UNCHANGED item

Walk == Init /\ [][Next]_vars

Through == empty \/ \A w \in Waves : pos[w] = numTiles + 1

Spec == Walk /\ <>Through
=============================================================================
