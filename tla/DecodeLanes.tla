----------------------------- MODULE DecodeLanes -----------------------------
(***************************************************************************)
(* The gfx942 MLA decode's lanes at full size (csrc/gfx942/                *)
(* mla_decode_a16w8.hip): which token and dim of a tile each holds from    *)
(* the fill to LDS, in the operands of QK and PV, in the partials, and in  *)
(* the merge's folds.  An MFMA multiplies A[m][k] and B[k][n], lane L      *)
(* holding k = 4 (L / 16) + e of row or column L % 16, and D's rows so.    *)
(***************************************************************************)
EXTENDS Integers, FiniteSets

LaneIds == 0 .. 63
WaveIds == 0 .. 7
Elems == 0 .. 3
quad(lane) == lane \div 16
mfma_row(lane) == lane % 16
LatentDims == 0 .. 511
KSteps == 0 .. 35                  \* 16 of a row's 576 elements each
DimTilesOfWave == 4

-----------------------------------------------------------------------------
(* The fill: the waves past the query tiles' share a tile's tokens, the    *)
(* lanes of a token its bytes, in nine loads.  A word of four bytes widens *)
(* to eight in LDS.                                                        *)
fill_waves(nt) == IF 8 - nt >= 4 THEN 4 ELSE 2
fill_tokens(nt) == 16 \div fill_waves(nt)
fill_lanes(nt) == 64 \div fill_tokens(nt)
fill_bytes(nt) == 576 \div (fill_lanes(nt) * 9)

Fills(nt) ==
  [wave : 0 .. fill_waves(nt) - 1, lane : LaneIds, op : 0 .. 8, word : 0 .. fill_bytes(nt) \div 4 - 1]
fill_token(nt, f) == f.wave * fill_tokens(nt) + f.lane \div fill_lanes(nt)
fill_byte(nt, f) == (f.lane % fill_lanes(nt)) * fill_bytes(nt)
SrcStride(nt) == fill_lanes(nt) * fill_bytes(nt)
fill_src(nt, f) == fill_byte(nt, f) + f.op * SrcStride(nt) + 4 * f.word
DstStrideOfSrc(nt) == SrcStride(nt)                   \* mutant: loads as far apart in LDS as in memory
DstStride(nt) == 2 * SrcStride(nt)
fill_dst(nt, f) == 2 * fill_byte(nt, f) + f.op * DstStride(nt) + 8 * f.word

(* The nine loads bring every element of every token to its place, once.   *)
FillsTile(nt) ==
  /\ \A f \in Fills(nt) : fill_dst(nt, f) = 2 * fill_src(nt, f)
  /\ {<<fill_token(nt, f), fill_src(nt, f)>> : f \in Fills(nt)} =
       (0 .. 15) \X {4 * n : n \in 0 .. 143}
  /\ Cardinality(Fills(nt)) = 16 * 144

-----------------------------------------------------------------------------
(* Operands, as <<token or dim, element>> of LDS, Q and the accumulators.  *)
k_at(lane, step, e) == <<mfma_row(lane), quad(lane) * 4 + e + step * 16>>
q_at(lane, step, e) == <<mfma_row(lane), IF step < 32 THEN step * 16 + quad(lane) * 4 + e
                                         ELSE 512 + (step - 32) * 16 + quad(lane) * 4 + e>>
score_token(lane, i) == quad(lane) * 4 + i              \* also the token its mask asks for

(* V: a dword pair of four tokens; transposes take its low halves to the   *)
(* even accumulator, its high halves to the odd.                           *)
dim0(wave) == wave * (DimTilesOfWave * 16)
v_elem(wave, lane) == dim0(wave) + DimTilesOfWave * mfma_row(lane)
v_at(wave, lane, c, e) ==
  <<quad(lane) * 4 + e, v_elem(wave, lane) + 2 * (c \div 2) + (c % 2)>>  \* pair, half

(* What a lane stores at x of its run of the partial's row: accumulator c, *)
(* row quad * 4 + e of the product.                                        *)
Stored(x) == [c |-> x % DimTilesOfWave, e |-> x \div DimTilesOfWave]
out_dim(wave, lane, x) == dim0(wave) + DimTilesOfWave * 4 * quad(lane) + x
ProductDim(wave, row, c) ==                             \* the dim of V's A row
  v_at(wave, row, c, 0)[2]

OperandsMeet ==
  /\ \A lane \in LaneIds, step \in KSteps, e \in Elems : \* any lane of its k
       k_at(lane, step, e)[2] = q_at(quad(lane) * 16, step, e)[2]
  /\ {k_at(16 * g, step, e)[2] : g \in 0 .. 3, step \in KSteps, e \in Elems} = 0 .. 575
  /\ \A lane \in LaneIds, e \in Elems :                 \* D's row is A's: the token K was read from
       score_token(lane, e) = k_at(quad(lane) * 4 + e, 0, 0)[1]
  /\ \A wave \in WaveIds, lane \in LaneIds, c \in 0 .. 3, e \in Elems :
       v_at(wave, lane, c, e)[1] = score_token(lane, e) \* B's k is P's token
  /\ \A wave \in WaveIds, lane \in LaneIds, x \in 0 .. 15 :
       out_dim(wave, lane, x) = ProductDim(wave, quad(lane) * 4 + Stored(x).e, Stored(x).c)
  /\ {out_dim(w, 16 * g, x) : w \in WaveIds, g \in 0 .. 3, x \in 0 .. 15} = LatentDims

-----------------------------------------------------------------------------
(* The merge, in D CTAs a row: 256 threads weigh up to 304 parts, then its *)
(* lanes take parts and dims, fold by lane xor and over the waves.         *)
MaxParts == 304
WeighedBy(part) == {t \in 0 .. 255 : \E k \in 0 .. 1 : t + k * 256 = part}
lanes_per_row(d) == 64 \div d
parts_per_wave(d) == 64 \div lanes_per_row(d)
parts_per_cta(d) == 4 * parts_per_wave(d)
merge_part0(d, wave, lane) == wave * parts_per_wave(d) + lane \div lanes_per_row(d)
merge_dim0(d, block, lane) == block * (512 \div d) + (lane % lanes_per_row(d)) * 8
Folded(d, lane) ==                 \* lanes whose sums a lane's fold adds: xors by lanes_per_row, twice that, ...
  {x \in LaneIds : x % lanes_per_row(d) = lane % lanes_per_row(d)}

Starts(d, lane) == (0 .. 3) \X Folded(d, lane)

MergeTakesEach ==
  /\ \A part \in 0 .. MaxParts - 1 : Cardinality(WeighedBy(part)) = 1
  /\ \A d \in {1, 2, 4} :
       /\ {merge_dim0(d, b, lane) : b \in 0 .. d - 1, lane \in 0 .. lanes_per_row(d) - 1}
            = {8 * n : n \in 0 .. 63}
       /\ \A lane \in 0 .. lanes_per_row(d) - 1 :
            /\ {merge_part0(d, s[1], s[2]) : s \in Starts(d, lane)} = 0 .. parts_per_cta(d) - 1
            /\ Cardinality(Starts(d, lane)) = parts_per_cta(d)

(* The query tiles a CTA may have whose fill, operands and merge agree.    *)
SoundTiles == {nt \in 1 .. 6 : FillsTile(nt) /\ OperandsMeet /\ MergeTakesEach}
=============================================================================
