----------------------------- MODULE DecodeEntry -----------------------------
(***************************************************************************)
(* The gfx942 MLA decode from its Torch entry point (csrc/gfx942/          *)
(* mla_decode_a16w8_api.cpp) to its launch (mla_decode_a16w8.hip, host     *)
(* side): what the op admits, the query tiles it picks, the workspace it   *)
(* allocates, and where in it decode stores a CTA's partials and the merge *)
(* looks for them.                                                         *)
(*                                                                         *)
(* A call's arguments are its tensors, [dtype, shape, contiguous, gpu] or, *)
(* for lists, numel in place of shape; lens is what the device's lengths   *)
(* hold.  Machine sizes that nothing here scales are numbers.              *)
(***************************************************************************)
EXTENDS MlaSplit, Sequences

LatDim == 512
RopeDim == 64
FusedDim == LatDim + RopeDim
MaxHeads == 128
MaxNTiles == 6
Absent == [dtype |-> "none"]       \* an optional tensor not given

check_i32dev(t, min_numel) ==
  t.dtype = "i32" /\ t.contiguous /\ t.numel >= min_numel /\ t.gpu

Tokens(a) == a.q_lat.shape[1]
Heads(a) == a.q_lat.shape[2]
check_q(a) ==
  /\ \A t \in {a.q_lat, a.q_pe, a.o_lat} : Len(t.shape) = 3 /\ t.dtype = "bf16" /\ t.contiguous
  /\ a.q_lat.gpu
  /\ a.q_lat.shape[3] = LatDim /\ a.q_pe.shape[3] = RopeDim /\ a.o_lat.shape[3] = LatDim
  /\ Heads(a) \in 1 .. MaxHeads
  /\ \A d \in 1 .. 2 : a.q_pe.shape[d] = a.q_lat.shape[d] /\ a.o_lat.shape[d] = a.q_lat.shape[d]

Batch(a) == a.kv_indptr.numel - 1
q_len(a) == Tokens(a) \div Batch(a)

(* The op's checks; any that fails throws.                                 *)
mla_decode_a16w8_op(a) ==
  /\ check_q(a)
  /\ a.kv_pool.dtype = "fp8" /\ a.kv_pool.contiguous /\ a.kv_pool.width = FusedDim
  /\ check_i32dev(a.kv_indptr, 2)
  /\ Tokens(a) % Batch(a) = 0
  /\ check_i32dev(a.seq_lens, Batch(a)) /\ check_i32dev(a.kv_indices, 1)
  /\ a.cp_world >= 1 /\ a.cp_rank \in 0 .. a.cp_world - 1
  /\ IF a.glen # Absent THEN check_i32dev(a.glen, Batch(a)) ELSE a.cp_world = 1
  /\ a.lse # Absent => /\ a.lse.dtype = "f32" /\ a.lse.contiguous /\ a.lse.gpu
                       /\ a.lse.shape = <<Tokens(a), Heads(a)>>

-----------------------------------------------------------------------------
(* pick_tile: of the tiles that fit, the first of the least modelled cost: *)
(* the KV steps of the CTAs' walk, each its busiest SIMD's matrix work,    *)
(* and a CTA's own overhead.  The code's cost is a float; here it is a     *)
(* whole number.                                                           *)
SimdOf == <<0, 2, 1, 3, 0, 2, 1, 3>>
busiest_simd(nt) ==
  LET qk(w) == IF w <= nt THEN 36 ELSE 0
      work(w, x) == 4 * nt + qk(w) + 4 * nt + qk(x)     \* DimTiles, QkSteps; two waves a SIMD
      pairs == {y \in (1 .. 8) \X (1 .. 8) : y[1] < y[2] /\ SimdOf[y[1]] = SimdOf[y[2]]}
  IN Max({work(y[1], y[2]) : y \in pairs})

(* The shape of a launch with nt query tiles.                              *)
Shape(b, q, h, nt) == [B |-> b, q_len |-> q, H |-> h, nt |-> nt]
FittingTiles(b, q, h) == {nt \in 1 .. MaxNTiles : Fits(Shape(b, q, h, nt))}

AssumedKvLen == 16384
Cost(s, len) ==
  ((IF len > 0 THEN len ELSE AssumedKvLen) * (16 * busiest_simd(s.nt) + 1058))
      \div (TileTokens * parts_for(s)) + 6000 * s.nt

pick_tile(q, h, b, len) ==
  LET fit == FittingTiles(b, q, h)
      cost(nt) == Cost(Shape(b, q, h, nt), len)
  IN IF fit = {} THEN 0
     ELSE CHOOSE nt \in fit : \A m \in fit : cost(nt) < cost(m) \/ (cost(nt) = cost(m) /\ nt <= m)

HintedLen(a) == a.kv_indices.numel \div Batch(a)
PickedTile(a) == pick_tile(q_len(a), Heads(a), Batch(a), HintedLen(a))

(* check_domain; the op throws on its codes.                               *)
check_domain(a) == Heads(a) \in 1 .. MaxHeads /\ q_len(a) >= 1 /\ Batch(a) >= 1 /\ PickedTile(a) # 0

Admitted(a) == mla_decode_a16w8_op(a) /\ check_domain(a)

(* The launch: without global lengths the ranks are one.                   *)
Launched(a) ==
  [B |-> Batch(a), q_len |-> q_len(a), H |-> Heads(a), nt |-> PickedTile(a),
   world |-> a.cp_world, glen |-> a.lens]

-----------------------------------------------------------------------------
(* The workspace: rows of 512 bf16 of each CTA, then per row its CTAs'     *)
(* maxima and sums.  Offsets are in bytes.                                 *)
slab_floats(s) == 4 * cdiv(n_ctas(s) * rows(s) * (LatDim \div 2), 4)
partial_row(s, cta, row) == 2 * (cta * rows(s) + row) * LatDim
partial_max(s, cta, row) == 4 * (slab_floats(s) + 2 * row * n_ctas(s) + cta)
partial_sum(s, cta, row) == partial_max(s, cta, row) + 4 * n_ctas(s)

Needed(s) == 4 * (slab_floats(s) + rows(s) * 2 * n_ctas(s))
workspace_for_pick(b, q, h) ==       \* mutant: sized for the tile an unknown length picks
  Needed(Shape(b, q, h, pick_tile(q, h, b, 0)))
workspace_for(b, q, h) == Max({Needed(Shape(b, q, h, nt)) : nt \in FittingTiles(b, q, h)})

(* The rows each CTA of a launch stores.                                   *)
StoredRows(c) ==
  {x \in (0 .. n_ctas(c) - 1) \X (0 .. rows(c) - 1) : x[2] < live_rows(c, slice_of(c, x[1]))}

(* Where the merge reads row's part j, its CTAs from the first.            *)
merge_src(c, first_cta, row, j) ==
  partial_row(c, first_cta, merge_slot(c, row)) + j * 2 * rows(c) * LatDim

(* Q's row of a CTA's packed row, and the merge's output row.              *)
q_row(c, i, slice, packed) ==
  LET global_row == slice * rows(c) + packed IN
  (i * c.q_len + global_row \div c.H) * c.H + (global_row % c.H)
out_row(c, i, row) == i * (c.q_len * c.H) + row

(* No two stores of a launch share a place, all lie in the workspace, and  *)
(* the merge reads each part from where its CTA stored it.                 *)
PartialsMeet(c, r) ==
  LET stored == StoredRows(c)
      headers == {partial_max(c, x[1], x[2]) : x \in stored} \cup {partial_sum(c, x[1], x[2]) : x \in stored}
      slab == 4 * slab_floats(c)
      room == workspace_for(c.B, c.q_len, c.H)
  IN /\ Cardinality({partial_row(c, x[1], x[2]) : x \in stored}) = Cardinality(stored)
     /\ Cardinality(headers) = 2 * Cardinality(stored)
     /\ \A x \in stored : partial_row(c, x[1], x[2]) + 2 * LatDim <= slab
     /\ \A at \in headers : at >= slab /\ at + 4 <= room
     /\ \A i \in Requests(c), row \in 0 .. c.q_len * c.H - 1 :
          LET ctas == merge_ctas(c, r, i, row)
              cta0 == Min(ctas)
          IN \A cta \in ctas :
               /\ merge_src(c, cta0, row, cta - cta0) = partial_row(c, cta, merge_slot(c, row))
               /\ q_row(c, i, slice_of(c, cta), merge_slot(c, row)) = out_row(c, i, row)
=============================================================================
