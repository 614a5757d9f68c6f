------------------------------ MODULE MoeLanes ------------------------------
(* The gfx942 MoE kernels' lanes at full size (csrc/gfx942/                 *)
(* mxfp4_moe_gateup.hip, mxfp4_moe_down.hip): which thread stages which     *)
(* granule (four k of a row of A) where in LDS, which weights and scales a  *)
(* lane decodes, and which output a lane stores.  An MFMA multiplies        *)
(* A[m][k] and B[k][n], lane L holding k = 4 (L / 16) + e of row or column  *)
(* L % 16; D's lane L holds rows 4 (L / 16) + j of column L % 16.           *)
(*                                                                          *)
(* A shape is a kernel that is built: its row tiles bm, its column tiles nt,*)
(* the steps of 128 k that its A tile in LDS spans, and whether it ends in  *)
(* a GLU.                                                                   *)
EXTENDS Integers, FiniteSets

Shape(kernel, bm, nt, ks, situ) == [kernel |-> kernel, bm |-> bm, nt |-> nt, ks |-> ks, situ |-> situ]
Shapes ==
  LET gateup == {x \in (1 .. 3) \X (1 .. 3) \X BOOLEAN : (x[1] = 1 => x[2] = 1) /\ (x[3] => x[2] <= 2)}
      down == {x \in {1, 2, 4} \X {1, 2} \X {3, 4, 6} : (x[1] > 1 => x[2] = 2) /\ (x[1] = 4 => x[3] = 3)}
  IN {Shape("gateup", x[1], x[2], 1, x[3]) : x \in gateup}
     \cup {Shape("down", x[1], x[2], x[3], FALSE) : x \in down}

LaneIds == 0 .. 63
TileRows(s) == 0 .. 16 * s.bm - 1
col(lane) == lane % 16
k_quarter(lane) == lane \div 16

(* Exclusive or with four bits.                                            *)
XorLow == [x \in 0 .. 15, y \in 0 .. 15 |->
  LET bit(b) == 2 ^ b * (((x \div 2 ^ b) + (y \div 2 ^ b)) % 2) IN bit(0) + bit(1) + bit(2) + bit(3)]
Xor(x, y) == 16 * (x \div 16) + XorLow[x % 16, y]

-----------------------------------------------------------------------------
(* Staging A: gateup's threads take granules in turn; down's share a row.  *)
Threads(s) == IF s.bm = 4 THEN 1024 ELSE 512
GRANS_PER_ROW(s) == 32 * s.ks
GRANS_PER_THREAD(s) == (16 * s.bm * GRANS_PER_ROW(s)) \div Threads(s)
THREADS_PER_ROW(s) == Threads(s) \div (16 * s.bm)

Staging(s) == (0 .. Threads(s) - 1) \X (0 .. GRANS_PER_THREAD(s) - 1)
stage_row(s, x) ==
  IF s.kernel = "gateup" THEN (x[1] + x[2] * Threads(s)) \div GRANS_PER_ROW(s)
                         ELSE x[1] \div THREADS_PER_ROW(s)
stage_gran(s, x) ==
  IF s.kernel = "gateup" THEN (x[1] + x[2] * Threads(s)) % GRANS_PER_ROW(s)
                         ELSE (x[1] % THREADS_PER_ROW(s)) + x[2] * THREADS_PER_ROW(s)

(* a_addr: down keeps granules in pairs.                                   *)
a_addr(s, r, g) ==
  8 * GRANS_PER_ROW(s) * r
    + (IF s.kernel = "gateup" THEN 8 * Xor(g, r % 16) ELSE 16 * Xor(g \div 2, r % 16) + 8 * (g % 2))

(* <<address, row, granule>> of what the threads put in LDS.               *)
Staged(s) ==
  {<<a_addr(s, stage_row(s, x), stage_gran(s, x)), stage_row(s, x), stage_gran(s, x)>> : x \in Staging(s)}

(* Every granule of every row has one thread and one place, within the     *)
(* tile, and every row one thread that publishes its offset and weight.    *)
A_BYTES(s) == 128 * GRANS_PER_ROW(s) * s.bm
StagesTile(s) ==
  LET staged == Staged(s) IN
  /\ {<<x[2], x[3]>> : x \in staged} = TileRows(s) \X (0 .. GRANS_PER_ROW(s) - 1)
  /\ Cardinality(staged) = Cardinality(Staging(s))
  /\ {x[1] : x \in staged} = {8 * n : n \in 0 .. A_BYTES(s) \div 8 - 1}
  /\ Cardinality({x \in Staging(s) : stage_gran(s, x) = 0}) = 16 * s.bm

-----------------------------------------------------------------------------
(* A product is that of step i of the tile's k, word w, half u of a word.  *)
Products(s) == (0 .. s.ks - 1) \X (0 .. 3) \X (0 .. 1)

(* The address a lane reads its A operand from, for row tile r: down reads *)
(* both halves' granules at once.                                          *)
a_frag(s, lane, p, r) ==
  LET row == r * 16 + col(lane)
      g == p[1] * 32 + k_quarter(lane) * 8 + p[2] * 2
  IN IF s.kernel = "gateup" THEN a_addr(s, row, g + p[3]) ELSE a_addr(s, row, g) + 8 * p[3]

(* Weights: the k of element e, and the column of column tile t from the   *)
(* wave's first; a lane's granule is one group of 32, decoded in k order.  *)
b_group(lane, p) == p[1] * 4 + k_quarter(lane)
b_k(lane, p, e) == b_group(lane, p) * 32 + p[2] * 8 + p[3] * 4 + e
b_col(s, lane, t) == IF s.kernel = "gateup" THEN t * 16 + col(lane) ELSE col(lane) * s.nt + t

(* Scales: gateup loads one a column tile, down one word from its first.   *)
scale_col(s, lane, t) ==
  IF s.kernel = "gateup" THEN col(lane) + t * 16 ELSE b_col(s, lane, 0) + t

(* The outputs a lane stores: row j of its four; down packs two columns,   *)
(* the first in the low half.                                              *)
out_row(lane, r, j) == r * 16 + 4 * k_quarter(lane) + j
out_col(s, lane, t) == IF s.kernel = "gateup" THEN t * 16 + col(lane) ELSE col(lane) * s.nt + t

(* Each output is the sum, over the tile's k, each once, of its own row's  *)
(* A and its own column's weights, scaled by their group's scale.          *)
OperandsMeet(s) ==
  LET staged == Staged(s) IN
  /\ \A lane \in LaneIds, p \in Products(s), r \in 0 .. s.bm - 1 :
       <<a_frag(s, lane, p, r), r * 16 + col(lane), b_k(lane, p, 0) \div 4>> \in staged
  /\ \A p \in Products(s) : b_k(0, p, 0) % 4 = 0
  /\ {b_k(16 * g, p, e) : g \in 0 .. 3, p \in Products(s), e \in 0 .. 3} = 0 .. 128 * s.ks - 1
  /\ Cardinality((0 .. 3) \X Products(s) \X (0 .. 3)) = 128 * s.ks
  /\ \A lane \in LaneIds, t \in 0 .. s.nt - 1 :
       /\ out_col(s, lane, t) = b_col(s, lane, t)
       /\ scale_col(s, lane, t) = b_col(s, lane, t)
  /\ \A lane \in LaneIds, j \in 0 .. 3, r \in 0 .. s.bm - 1 :   \* D's row is that of A's lane
       out_row(lane, r, j) = r * 16 + col(4 * k_quarter(lane) + j)
  /\ {<<out_row(lane, r, j), out_col(s, lane, t)>> :
        lane \in LaneIds, j \in 0 .. 3, r \in 0 .. s.bm - 1, t \in 0 .. s.nt - 1}
       = TileRows(s) \X (0 .. 16 * s.nt - 1)

-----------------------------------------------------------------------------
(* LDS: A's tile (gateup's two slabs), a row's offset and weight, and      *)
(* gateup's table of every scale; the gates lie over the slabs.            *)
TILE_BYTES(s) == IF s.kernel = "gateup" THEN 2 * A_BYTES(s) ELSE A_BYTES(s)
row_off_at(s, row) == TILE_BYTES(s) + 4 * row
row_w_at(s, row) == TILE_BYTES(s) + 64 * s.bm + 4 * row
scale_tbl_at(s, e8m0) == TILE_BYTES(s) + 128 * s.bm + 16 * e8m0
LdsBytes(s) == TILE_BYTES(s) + 128 * s.bm + (IF s.kernel = "gateup" THEN 4096 ELSE 0)

gate_at(s, col_tile, lane, t, r, j) ==
  4 * (out_row(lane, r, j) * 64 * s.nt + col_tile * s.nt * 16 + out_col(s, lane, t))
Gates(s) ==
  {gate_at(s, c, lane, t, r, j) :
     c \in 0 .. 3, lane \in LaneIds, t \in 0 .. s.nt - 1, r \in 0 .. s.bm - 1, j \in 0 .. 3}

(* Nothing kept in LDS lies over anything else that is live with it, and   *)
(* all of it is in the launch's bytes and a CU's 64 KB.                    *)
Words(s) ==
  {row_off_at(s, r) : r \in TileRows(s)} \cup {row_w_at(s, r) : r \in TileRows(s)}
    \cup (IF s.kernel = "gateup" THEN {scale_tbl_at(s, e) + 4 * i : e \in 0 .. 255, i \in 0 .. 3} ELSE {})
LdsFits(s) ==
  /\ \A x \in Words(s) : TILE_BYTES(s) <= x /\ x + 4 <= LdsBytes(s)
  /\ 4 * Cardinality(Words(s)) = LdsBytes(s) - TILE_BYTES(s)
  /\ s.situ => /\ \A x \in Gates(s) : x + 4 <= TILE_BYTES(s)
               /\ Cardinality(Gates(s)) = 16 * s.bm * 64 * s.nt
  /\ LdsBytes(s) <= 65536

(* The shapes whose lanes agree.                                           *)
SoundShapes == {s \in Shapes : StagesTile(s) /\ OperandsMeet(s) /\ LdsFits(s)}
=============================================================================
