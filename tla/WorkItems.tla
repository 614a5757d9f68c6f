----------------------------- MODULE WorkItems -----------------------------
(***************************************************************************)
(* How gfx950 attention divides a sequence (csrc/gfx950/attention_plan.hpp,*)
(* "rows", "the work of one wave"): a head's q rows into chunks, chunks    *)
(* into q blocks of NumWaves, both aligned to the sequence's end; a q      *)
(* block's KV tiles into parts; and, per wave, the tiles that need a mask. *)
(***************************************************************************)
EXTENDS Integers

CONSTANTS NumWaves,   \* chunks of a q block: the waves of a CTA
          KvTile      \* keys of a KV tile

ASSUME WorkItemsAssumption == NumWaves \in Nat \ {0} /\ KvTile \in Nat \ {0}

Least(x, y) == IF x < y THEN x ELSE y
Most(x, y) == IF x < y THEN y ELSE x
CeilDiv(x, y) == (x + y - 1) \div y

head_chunks(sq, rows) == CeilDiv(sq, rows)
chunk_q0(c, sq, pack, rows) == (c \div pack) * rows - (head_chunks(sq, rows) * rows - sq)
num_q_blocks(sq, pack, rows) == CeilDiv(head_chunks(sq, rows) * pack, NumWaves)
first_chunk(b, sq, pack, rows) ==
  head_chunks(sq, rows) * pack - (num_q_blocks(sq, pack, rows) - b) * NumWaves

(* The KV tiles q block b walks: under causal it stops at the last key of  *)
(* its last row.                                                           *)
block_tiles(sq, skv, b, pack, rows, causal) ==
  LET last_chunk == first_chunk(b, sq, pack, rows) + NumWaves - 1
      diagonal == chunk_q0(last_chunk, sq, pack, rows) + rows + skv - sq
  IN CeilDiv(Most(IF causal THEN Least(skv, diagonal) ELSE skv, 0), KvTile)

(* dev_plan's count, from the host numbers alone: the most q blocks of n   *)
(* sequences of at most mq rows, total_q in all.                           *)
max_blocks_floor(n, mq, total_q, pack, rows) ==           \* mutant: the last, short q blocks forgotten
  LET chunks == Least(n * head_chunks(mq, rows), CeilDiv(total_q, rows)) IN
  Least(n * num_q_blocks(mq, pack, rows), CeilDiv(pack * chunks, NumWaves))

max_blocks(n, mq, total_q, pack, rows) ==
  LET chunks == Least(n * head_chunks(mq, rows), (total_q + n * (rows - 1)) \div rows)
  IN Least(n * num_q_blocks(mq, pack, rows), (pack * chunks + (NumWaves - 1) * n) \div NumWaves)

(* Part j of n of t tiles.                                                 *)
part_lo(j, n, t) == (j * t) \div n
part_len(j, n, t) == ((j + 1) * t) \div n - (j * t) \div n

(* Chunk w of an item: its head in the pack and its first row, -rows when  *)
(* it is empty.                                                            *)
chunk_rows(it, w, pack, rows) ==
  LET c == it.chunk0 + w IN
  IF c < 0 THEN [head |-> it.head0, row0 |-> -rows]
  ELSE [head |-> it.head0 + (c % pack), row0 |-> chunk_q0(c, it.sq, pack, rows)]

(* wave_work: from num_unmasked on a tile needs a mask, from num_live on   *)
(* it masks every row; both counted from the item's first tile.  (C++'s    *)
(* truncating division of a negative number is cut off at 0 below.)        *)
num_live_first(it, row0, rows, causal) ==                 \* mutant: the first row's diagonal
  LET last_kv == row0 + it.skv - it.sq
      tiles == it.tile_hi - it.tile_lo
  IN IF ~causal THEN IF row0 + rows > 0 THEN tiles ELSE 0
     ELSE IF last_kv < 0 THEN 0 ELSE Most(0, Least(tiles, last_kv \div KvTile + 1 - it.tile_lo))

num_live(it, row0, rows, causal) ==
  LET last_kv == row0 + rows - 1 + it.skv - it.sq
      tiles == it.tile_hi - it.tile_lo
  IN IF ~causal THEN IF row0 + rows > 0 THEN tiles ELSE 0
     ELSE IF last_kv < 0 THEN 0 ELSE Most(0, Least(tiles, last_kv \div KvTile + 1 - it.tile_lo))

num_unmasked(it, row0, causal) ==
  LET full == it.skv \div KvTile
      first == (row0 + it.skv - it.sq + 1) \div KvTile
  IN Most(0, (IF causal THEN Least(full, first) ELSE full) - it.tile_lo)
=============================================================================
