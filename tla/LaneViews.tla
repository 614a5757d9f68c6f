----------------------------- MODULE LaneViews -----------------------------
(***************************************************************************)
(* How the gfx950 kernels spread tiles across a wave's lanes (csrc/gfx950/ *)
(* attention_prims.hpp, "lane views"; the layouts of attention.hip and     *)
(* attention_mla.hip; opus/opus.hpp, layouts): the LDS element each DMA    *)
(* lane fills, and the one each MFMA operand is read from.  Instructions   *)
(* other than loads are what their ISA says.                               *)
(***************************************************************************)
EXTENDS Integers, FiniteSets, SequencesExt, TLC

CONSTANT Kernels      \* of {"d128", "mla", "mla paged"}

Laned == 0 .. 63
Group(lane) == lane \div 16
Col(lane) == lane % 16

(* A sub-dim spans lanes (P) or is walked by one (Y).  A tensor's dim is a *)
(* sequence of them, major first: each strides over those after it.        *)
P(n) == [lanes |-> TRUE, size |-> n]
Y(n) == [lanes |-> FALSE, size |-> n]

unfold_x_stride_flat(dims, stride) ==     \* mutant: sub-dims share their dim's stride
  FlattenSeq([d \in DOMAIN dims |-> [j \in DOMAIN dims[d] |-> stride[d]]])
unfold_x_stride(dims, stride) ==
  FlattenSeq([d \in DOMAIN dims |-> [j \in DOMAIN dims[d] |->
    stride[d] * FoldSeq(LAMBDA x, n : x.size * n, 1, SubSeq(dims[d], j + 1, Len(dims[d])))]])

(* Coordinates in order of the sub-dims; missing trailing Ys are 0.        *)
coords(dims, ps, ys) ==
  LET flat == FlattenSeq(dims)
      nth(j) == Cardinality({i \in 1 .. j : flat[i].lanes = flat[j].lanes})
  IN [j \in DOMAIN flat |-> IF flat[j].lanes THEN ps[nth(j)]
                            ELSE IF nth(j) <= Len(ys) THEN ys[nth(j)] ELSE 0]

lane_view(dims, stride, ps, ys) ==
  LET x == coords(dims, ps, ys)
      s == unfold_x_stride(dims, stride)
  IN FoldSeq(LAMBDA a, b : a + b, 0, [j \in DOMAIN x |-> x[j] * s[j]])

(* The row and column of an offset, for a row stride no column reaches.    *)
RowUnit == 1000
At(off) == <<off \div RowUnit, off % RowUnit>>

Bit(x, b) == (x \div 2 ^ b) % 2
Xor(x, y) == LET bit(b) == 2 ^ b * ((Bit(x, b) + Bit(y, b)) % 2) IN bit(0) + bit(1) + bit(2)

-----------------------------------------------------------------------------
(* The kernels' layouts.                                                   *)
SlabElems == 512
Dqk(k) == IF k = "d128" THEN 128 ELSE 192
Dv == 128
KPitch(k) == SlabElems + (IF k = "d128" THEN 32 ELSE 16)
VPitch == SlabElems + 64
QPitch(k) == Dqk(k) + 16
DKSteps(k) == Dqk(k) \div 32
KvMTiles == 4
KvKSteps == 2
DMTiles == Dv \div 16

k_chunk(k, c, kv) == Xor(c, (kv % 8) \div (IF k = "d128" THEN 4 ELSE 2))

(* Who loads a ring: a wave (of its group, in MLA) and an instruction.     *)
Loaders(k, ring) ==
  IF k = "d128" THEN (0 .. 7) \X (0 .. 1)
  ELSE (0 .. 3) \X (0 .. IF ring = "K" THEN 5 ELSE 3)

KSlab(k, w, i) ==
  CASE k = "d128" -> i * 8 * KPitch(k) + w * KPitch(k)
    [] k = "mla" -> (4 * i + w) * KPitch(k)
    [] k = "mla paged" -> (8 * (i \div 2) + 2 * w + (i % 2)) * KPitch(k)
VSlab(k, w, i) ==
  CASE k = "d128" -> (2 * w + i) * VPitch
    [] k = "mla" -> (4 * i + w) * VPitch
    [] k = "mla paged" -> (4 * w + i) * VPitch
SlabRow0(k, w) ==                                  \* the row its resource starts at
  CASE k = "d128" -> 8 * w [] k = "mla" -> 0 [] k = "mla paged" -> 16 * w

k_src(k, w, i, lane) ==
  CASE k = "d128" ->
         lane_view(<< <<P(8)>>, <<Y(2), P(4), P(2), Y(8)>> >>, <<RowUnit, 1>>,
                   <<(lane % 16) \div 2, lane \div 16, k_chunk(k, lane % 2, (lane % 16) \div 2)>>, <<i>>)
    [] k = "mla" ->
         lane_view(<< <<P(8), Y(2), P(4)>>, <<Y(3), P(8), Y(8)>> >>, <<RowUnit, 1>>,
                   <<lane \div 8, w, lane % 8>>, <<i % 2, i \div 2>>)
    [] k = "mla paged" ->
         lane_view(<< <<Y(2), P(8)>>, <<Y(3), P(8), Y(8)>> >>, <<RowUnit, 1>>,
                   <<lane \div 8, k_chunk(k, lane % 8, lane \div 8)>>, <<i % 2, i \div 2>>)

v_src(k, w, i, lane) ==
  LET row == (lane % 8) \div 2 IN
  IF k = "mla"
  THEN lane_view(<< <<Y(4), P(4), P(4)>>, <<P(8), P(2), Y(8)>> >>, <<RowUnit, 1>>,
                 <<w, row, lane \div 8, lane % 2>>, <<i>>)
  ELSE lane_view(<< <<Y(4), P(4)>>, <<P(8), P(2), Y(8)>> >>, <<RowUnit, 1>>,
                 <<row, lane \div 8, lane % 2>>, <<i>>)

(* A DMA instruction's lane L writes 16 bytes at 16 L of its slab: the      *)
(* <<row, column>> a tile holds at an LDS offset.                          *)
Chunk(off) == off \div 8
Slab(k, ring, w, i) == IF ring = "K" THEN KSlab(k, w, i) ELSE VSlab(k, w, i)
Src(k, ring, w, i, lane) == IF ring = "K" THEN k_src(k, w, i, lane) ELSE v_src(k, w, i, lane)
Held(k, ring, off) ==
  LET x == CHOOSE x \in Loaders(k, ring) : off - Slab(k, ring, x[1], x[2]) \in 0 .. SlabElems - 1
      at == At(Src(k, ring, x[1], x[2], Chunk(off - Slab(k, ring, x[1], x[2]))))
  IN <<SlabRow0(k, x[1]) + at[1], at[2] + (off % 8)>>

(* Q: a q tile's 16-byte vectors, in lane order, to the wave's slot.       *)
QVecs(k) == Dqk(k) \div 8
q_store(k, i, lane) ==
  IF k = "d128"
  THEN lane_view(<< <<Y(4), P(4)>>, <<P(8)>>, <<P(2)>>, <<Y(8)>> >>, <<QPitch(k), 16, 8, 1>>,
                 <<lane \div 16, lane % 8, (lane \div 8) % 2>>, <<i>>)
  ELSE ((i * 64 + lane) \div QVecs(k)) * QPitch(k) + 8 * ((i * 64 + lane) % QVecs(k))

-----------------------------------------------------------------------------
(* Reads: the 8 elements of lane (g, l)'s operand, from the first.          *)
k_read(k, lane, kt, ks) ==
  LET g == Group(lane)  l == Col(lane) IN
  CASE k = "d128" ->
         lane_view(<< <<P(2)>>, <<Y(2), P(2), Y(2)>>, <<Y(4)>>, <<P(8)>>, <<P(2)>>, <<Y(8)>> >>,
                   <<8 * KPitch(k), KPitch(k), 128, 16, 8, 1>>,
                   <<g % 2, l \div 8, l % 8, k_chunk(k, g \div 2, l)>>, <<kt \div 2, kt % 2, ks>>)
    [] k = "mla" ->
         lane_view(<< <<Y(3)>>, <<P(8)>>, <<Y(2), P(2), Y(2)>>, <<Y(2), P(4), Y(8)>> >>,
                   <<8 * KPitch(k), KPitch(k), 64, 1>>,
                   <<l % 8, l \div 8, g>>, <<ks \div 2, kt \div 2, kt % 2, ks % 2>>)
    [] k = "mla paged" ->
         lane_view(<< <<Y(3)>>, <<Y(2), P(2), Y(2)>>, <<P(8)>>, <<Y(2), P(4)>>, <<Y(8)>> >>,
                   <<8 * KPitch(k), KPitch(k), 64, 8, 1>>,
                   <<l \div 8, l % 8, k_chunk(k, g, l)>>, <<ks \div 2, kt \div 2, kt % 2, ks % 2>>)

q_read(k, lane, ks) ==
  LET g == Group(lane)  l == Col(lane) IN
  IF k = "d128"
  THEN lane_view(<< <<P(16)>>, <<Y(4), P(2)>>, <<P(2)>>, <<Y(8)>> >>, <<QPitch(k), 16, 8, 1>>,
                 <<l, g \div 2, g % 2>>, <<ks>>)
  ELSE lane_view(<< <<P(16)>>, <<Y(6), P(4), Y(8)>> >>, <<QPitch(k), 1>>, <<l, g>>, <<ks>>)

v_read(lane, ks, h, dt, x) ==
  LET g == Group(lane)  l == Col(lane) IN
  lane_view(<< <<Y(2), P(2), Y(2), P(2)>>, <<Y(8)>>, <<P(4)>>, <<P(4), Y(4)>> >>, <<VPitch, 64, 16, 1>>,
            <<g \div 2, g % 2, l \div 4, l % 4>>, <<ks, h, dt, x>>)

(* ds_read_b64_tr_b16: sixteen lanes' four elements, transposed: element   *)
(* i of lane l's is element l % 4 of what lane 4 i + l / 4 reads.           *)
v_frag(k, lane, ks, dt, s) ==
  LET from == 16 * Group(lane) + 4 * (s % 4) + (Col(lane) \div 4) IN
  Held(k, "V", v_read(from, ks, s \div 4, dt, Col(lane) % 4))

(* mask_scores: the key of S value (kt, i), by lane; C row 4 g + i.        *)
s_kv(lane, kt, i) ==
  lane_view(<< <<Y(2), P(2), Y(2), P(2), Y(4)>> >>, <<1>>,
            <<Group(lane) \div 2, Group(lane) % 2>>, <<kt \div 2, kt % 2, i>>)

(* convert_p: P operand element s of k-step ks is S value (2 ks + s / 4,   *)
(* s % 4).                                                                 *)
p_kv(lane, ks, s) == s_kv(lane, 2 * ks + (s \div 4), s % 4)

(* row_sums: B stacks two P fragments along k; row m of A, 2:4-sparse ones, *)
(* keeps two of each four k, of lane groups 0, 1 or 2, 3.                   *)
ones(g, l) == (l % 4 < 2) = (g < 2)
ones_idx(l) == IF l % 2 = 1 THEN {2, 3} ELSE {0, 1}
SummedBy(m) == {n \in 0 .. 63 : ones(n \div 16, m) /\ n % 4 \in ones_idx(m)}

-----------------------------------------------------------------------------
(* No two loads or stores share a place, and together they are the tile.  *)
PlacesApart(k) ==
  LET chunks(slabs) == Cardinality({Chunk(off) + n : off \in slabs, n \in Laned}) IN
  /\ chunks({KSlab(k, x[1], x[2]) : x \in Loaders(k, "K")}) = 64 * QVecs(k)
  /\ chunks({VSlab(k, x[1], x[2]) : x \in Loaders(k, "V")}) = 8 * Dv
  /\ Cardinality({q_store(k, i, lane) : i \in 0 .. QVecs(k) \div 4 - 1, lane \in Laned}) = 16 * QVecs(k)

(* QK multiplies, at each place of its operands, eight columns of a key and *)
(* the same columns of a query, and every column once; its C rows are the  *)
(* keys the mask and P take them for.                                      *)
QkMeets(k) ==
  /\ \A lane \in Laned, kt \in 0 .. KvMTiles - 1, ks \in 0 .. DKSteps(k) - 1 :
       LET m == Col(lane)                          \* the A row: C row m is lane group m / 4's, i = m % 4
           key == Held(k, "K", k_read(k, lane, kt, ks))
           query == m * QVecs(k) + Chunk(key[2])   \* the q tile's vector with the same columns
       IN /\ key[1] = s_kv(16 * (m \div 4), kt, m % 4)
          /\ q_read(k, lane, ks) = q_store(k, query \div 64, query % 64)
  /\ {Held(k, "K", k_read(k, 16 * g, 0, ks))[2] : g \in 0 .. 3, ks \in 0 .. DKSteps(k) - 1}
       = {8 * c : c \in 0 .. QVecs(k) - 1}

(* PV multiplies a key's V and the same key's P, and every key once.       *)
PvMeets(k) ==
  /\ \A lane \in Laned, ks \in 0 .. KvKSteps - 1, dt \in 0 .. DMTiles - 1, s \in 0 .. 7 :
       v_frag(k, lane, ks, dt, s) = <<p_kv(lane, ks, s), 16 * dt + Col(lane)>>
  /\ {p_kv(16 * g, ks, s) : g \in 0 .. 3, ks \in 0 .. KvKSteps - 1, s \in 0 .. 7} = 0 .. 63

(* C0 + C1 and C2 + C3 are the row sums of the two fragments.              *)
RowSumsMeet ==
  \A m \in {4 * g + 2 * h : g \in 0 .. 3, h \in 0 .. 1} :
    /\ SummedBy(m) \cap SummedBy(m + 1) = {}
    /\ SummedBy(m) \cup SummedBy(m + 1) = IF m % 4 = 0 THEN 0 .. 31 ELSE 32 .. 63

(* The kernels whose lanes read what all their waves' DMA wrote for them: no *)
(* layout, swizzle, page variant or transposed read is a row or column off. *)
SoundKernels == {k \in Kernels : RowSumsMeet /\ PlacesApart(k) /\ QkMeets(k) /\ PvMeets(k)}
=============================================================================
