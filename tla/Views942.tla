------------------------------ MODULE Views942 ------------------------------
(***************************************************************************)
(* Which rows of its tensors a gfx942 attention launch touches             *)
(* (csrc/gfx942/attention_kernel.hip: attention_forward's bases, buffers   *)
(* and q tiles, v_transpose_kernel_16x16, merge_parts), in either layout.  *)
(* Addresses count rows of head_dim elements from a tensor's start.  A     *)
(* buffer bounded to a head's span drops what lies past it.                *)
(*                                                                         *)
(* A launch c has bshd, B, heads, Sq, Skv, V's own Vkv and a plan.         *)
(***************************************************************************)
EXTENDS TailSplit, Sequences

CONSTANTS QTileRows,      \* 16
          QTilesPerWave,  \* 3
          NumWaves,       \* 8
          KvBlockRows,    \* 64
          AddrRows        \* rows of 256 bytes a 32-bit offset reaches: 2^24

ASSUME ViewsAssumption ==
  {QTileRows, QTilesPerWave, NumWaves, KvBlockRows, AddrRows} \subseteq Nat \ {0}

QTilesPerWG == NumWaves * QTilesPerWave
PartRows == QTilesPerWG * QTileRows
NumQTiles(sq) == Ceil(sq, QTileRows)
NumQBlocks(sq) == Ceil(NumQTiles(sq), QTilesPerWG)
NumKvBlocks(skv) == Ceil(skv, KvBlockRows)

Nowhere == -1

(* A head's rows of [B, H, S, D] (bhsd) or [B, S, H, D] (bshd).            *)
row_stride(c) == IF c.bshd THEN c.heads ELSE 1
head_base_offset(c, bh, seq) ==
  IF c.bshd THEN (bh \div c.heads) * seq * c.heads + (bh % c.heads) ELSE bh * seq
head_span(c, seq) == (seq * row_stride(c)) % AddrRows

Through(c, bh, seq, row) ==
  LET off == (row * row_stride(c)) % AddrRows IN
  IF off < head_span(c, seq) THEN head_base_offset(c, bh, seq) + off ELSE Nowhere

(* The element's place by the layout's definition.                         *)
TensorRow(c, bh, seq, row) ==
  LET b == bh \div c.heads
      h == bh % c.heads
  IN IF c.bshd THEN (b * seq + row) * c.heads + h ELSE (b * c.heads + h) * seq + row

(* What no code checks: heads whose rows 32-bit offsets reach, a q block's *)
(* last rows past Sq among them, and V and its transpose, each addressed   *)
(* from its tensor's start, in all.                                        *)
Addressable(c) ==
  /\ NumQBlocks(c.Sq) * PartRows * row_stride(c) < AddrRows
  /\ c.Skv * row_stride(c) < AddrRows
  /\ c.B * c.heads * NumKvBlocks(c.Skv) * KvBlockRows < AddrRows

-----------------------------------------------------------------------------
(* Q's rows: a lane's column of one of its wave's tiles.                   *)
QLanes == (0 .. NumWaves - 1) \X (0 .. QTilesPerWave - 1) \X (0 .. QTileRows - 1)
QTile(q_block, x) == QTilesPerWG * q_block + QTilesPerWave * x[1] + x[2]
valid(c, q_block, x) == QTile(q_block, x) < NumQTiles(c.Sq)
q_tile_start_row(c, q_block, x) == IF valid(c, q_block, x) THEN QTile(q_block, x) * QTileRows ELSE 0
QRow(c, q_block, x) == q_tile_start_row(c, q_block, x) + x[3]
PartRow(x) == (x[1] * QTilesPerWave + x[2]) * QTileRows + x[3]

q_block_of(c, wg) == wg % c.plan.nqb
bh_of(c, wg) == wg \div c.plan.nqb

(* The tensor rows an unsplit CTA's stores hit, and those of a merge.      *)
CtaRow(c, wg, x) ==
  IF valid(c, q_block_of(c, wg), x) THEN Through(c, bh_of(c, wg), c.Sq, QRow(c, q_block_of(c, wg), x))
  ELSE Nowhere
MergeRow(c, wg, row) == Through(c, bh_of(c, wg), c.Sq, q_block_of(c, wg) * PartRows + row)

-----------------------------------------------------------------------------
(* A block's K rows, and the keys of a score kept from the softmax.        *)
KRow(c, bh, block, r) == Through(c, bh, c.Skv, block * KvBlockRows + r)
last_kv_rows(c) == c.Skv - (NumKvBlocks(c.Skv) - 1) * KvBlockRows
Masked(c, block, r) ==
  last_kv_rows(c) < KvBlockRows /\ block = NumKvBlocks(c.Skv) - 1 /\ r >= last_kv_rows(c)

(* v_transpose: a workgroup's head and block; a row's source, past the end *)
(* a row of zeros, and its place in V_t, where each head is padded.        *)
XposeSource(c, bh, block, r) ==
  LET nkb == NumKvBlocks(c.Skv)
      base == IF c.bshd THEN head_base_offset(c, bh, c.Skv) + block * KvBlockRows * c.heads
                        ELSE bh * c.Skv + block * KvBlockRows
  IN IF block * KvBlockRows + r < c.Skv THEN (base + r * row_stride(c)) % AddrRows ELSE Nowhere
XposePlace(c, bh, block, r) ==
  ((bh * NumKvBlocks(c.Skv) + block) * KvBlockRows + r) % AddrRows

(* Where pv_phase takes a block's rows.                                    *)
VtRow(c, bh, block, r) ==
  LET off == block * KvBlockRows + r IN
  IF off < (NumKvBlocks(c.Skv) * KvBlockRows) % AddrRows
  THEN bh * NumKvBlocks(c.Skv) * KvBlockRows + off ELSE Nowhere

-----------------------------------------------------------------------------
Heads942(c) == 0 .. c.B * c.heads - 1
BlockRows(c) == (0 .. NumKvBlocks(c.Skv) - 1) \X (0 .. KvBlockRows - 1)

(* Every row of the output is stored by one lane of a CTA that runs a      *)
(* whole workgroup, or by one cell of one merge, and no other row is; the  *)
(* rows of a split workgroup's parts are its merge's.                      *)
StoredOnce(c, whole, split) ==
  LET stores == [kind : {"cta"}, wg : whole, at : QLanes]
                  \cup [kind : {"merge"}, wg : split, at : 0 .. PartRows - 1]
      row(x) == IF x.kind = "cta" THEN CtaRow(c, x.wg, x.at) ELSE MergeRow(c, x.wg, x.at)
      hits == {x \in stores : row(x) # Nowhere}
      rows == {TensorRow(c, bh, c.Sq, s) : bh \in Heads942(c), s \in 0 .. c.Sq - 1}
  IN /\ {row(x) : x \in hits} = rows /\ Cardinality(hits) = Cardinality(rows)
     /\ \A wg \in split, x \in QLanes :
          valid(c, q_block_of(c, wg), x) =>
            QRow(c, q_block_of(c, wg), x) = q_block_of(c, wg) * PartRows + PartRow(x)
     /\ {PartRow(x) : x \in QLanes} = 0 .. PartRows - 1

(* A head's counted keys are its own rows of K and V, each once: the block *)
(* pv takes from V_t is the one transposed from there, and no other's.     *)
KeysAreTheHeads(c) ==
  /\ \A bh \in Heads942(c), x \in BlockRows(c) :
       LET s == x[1] * KvBlockRows + x[2] IN
       /\ Masked(c, x[1], x[2]) <=> s >= c.Skv
       /\ s < c.Skv => /\ KRow(c, bh, x[1], x[2]) = TensorRow(c, bh, c.Skv, s)
                       /\ XposeSource(c, bh, x[1], x[2]) = TensorRow(c, bh, c.Vkv, s)
       /\ VtRow(c, bh, x[1], x[2]) = XposePlace(c, bh, x[1], x[2])
  /\ Cardinality({VtRow(c, bh, x[1], x[2]) : bh \in Heads942(c), x \in BlockRows(c)})
       = Cardinality(Heads942(c)) * Cardinality(BlockRows(c))
=============================================================================
