----------------------------- MODULE MCMoeKernel -----------------------------
(* Calls of both kernels over three experts' few rows, one expert not here; *)
(* every tile height and number of column tiles, K from two slabs to six,   *)
(* columns that end within a wave, and calls the entry points refuse.       *)
EXTENDS MoeKernel

(* moe_align_block_size of the rows each expert owns.                      *)
Block(first, n, height, valid) ==
  [i \in 1 .. height |-> IF i <= n THEN first + i - 1 ELSE valid]
Aligned(counts, height, valid) ==
  FlattenSeq([e \in 1 .. Len(counts) |->
    LET before == FoldSeq(LAMBDA x, y : x + y, 0, SubSeq(counts, 1, e - 1))
        blocks == Ceil(counts[e], height)
    IN FlattenSeq([b \in 1 .. blocks |->
         Block(before + (b - 1) * height, counts[e] - (b - 1) * height, height, valid)])])
ExpertIds(counts, height) ==
  FlattenSeq([e \in 1 .. Len(counts) |->
    [b \in 1 .. Ceil(counts[e], height) |-> IF e = 2 THEN -1 ELSE e]])

T(dtype, size) == [dtype |-> dtype, cuda |-> TRUE, unit |-> TRUE, size |-> size]

Call(op, counts, bm, nt, n_steps, N, K, situ, spare) ==
  LET valid == FoldSeq(LAMBDA x, y : x + y, 0, counts)
      ids == ExpertIds(counts, bm * Tile)
  IN [kernel |-> op, bm |-> bm, nt |-> nt, n_steps |-> n_steps, N |-> N, K |-> K, situ |-> situ,
      valid |-> valid, stride_cm |-> N, blocks |-> Len(ids) + spare,
      sorted |-> Aligned(counts, bm * Tile, valid), experts |-> ids,
      topk_weights |-> FALSE, mul_routed_weight |-> FALSE,
      A |-> T("bf16", <<valid, K>>), C |-> T("bf16", <<valid, N>>),
      B |-> T("u8", <<3, K \div 32, IF situ THEN 2 * N ELSE N, 16>>), Bs |-> T("u8", <<3, K \div 32, N>>),
      sorted_ids |-> T("i32", <<>>), expert_ids |-> T("i32", <<>>), padded |-> T("i32", <<>>)]

Counts == {<<3, 2, 4>>, <<5, 0, 1>>}

GateUpCalls ==
  {Call("gateup", counts, bm, 1, 0, N, K, situ, spare) :
     counts \in Counts, bm \in {1, 2, 3}, N \in {3, 4, 8, 12}, K \in {256, 512},
     situ \in BOOLEAN, spare \in {0, 2}}

(* Of the tallest tile, whose four waves run freely, one column step.      *)
DownCalls ==
  {Call("down", counts, bm, nt, n_steps, N, K, FALSE, 1) :
     counts \in Counts, bm \in {1, 2}, nt \in {1, 2}, n_steps \in {0, 1, 2},
     N \in {4, 10, 18}, K \in {384, 768}}
  \cup {Call("down", counts, 4, 2, 1, 20, 384, FALSE, 0) : counts \in Counts}
  \cup {Call("down", <<3, 2, 4>>, bm, 2, 2, 10, 512, FALSE, 0) : bm \in {1, 2}}

Good == Call("down", <<3, 2, 4>>, 1, 2, 1, 4, 384, FALSE, 0)
RefusedCalls ==
  {[Good EXCEPT !.A.dtype = "f16"], [Good EXCEPT !.padded.cuda = FALSE],
   [Good EXCEPT !.B.size = <<3, 4, 12>>], [Good EXCEPT !.N = 5], [Good EXCEPT !.K = 1024],
   [Good EXCEPT !.bm = 3], [Good EXCEPT !.C.unit = FALSE],
   [Call("gateup", <<3, 2, 4>>, 1, 1, 0, 4, 256, TRUE, 0) EXCEPT !.B.size[3] = 4],
   [Call("gateup", <<3, 2, 4>>, 1, 1, 0, 4, 256, FALSE, 0) EXCEPT !.mul_routed_weight = TRUE]}

(* Admitted, but 64 rows with K = 512 have no kernel.                      *)
TallCalls == {Call("down", <<3, 2, 4>>, 4, 2, 1, 8, 512, FALSE, 0)}

(* The lanes of every kernel that is built multiply and store the product: *)
(* what StoresFullSumHolds (MoeProofs) takes as its hypothesis.            *)
ASSUME LanesSound == SoundShapes = Shapes

MCCalls == GateUpCalls \cup DownCalls \cup RefusedCalls \cup TallCalls
MCScales == 0 .. 255
MCLoads == {1, 12, 13, 29, 36, 300, 2500} \X {0, 1, 3, 12} \X {0, 1, 7, 40} \X {2, 8, 10, 56} \X {0, 1, 4}
=============================================================================
