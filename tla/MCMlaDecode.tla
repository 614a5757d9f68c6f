---------------------------- MODULE MCMlaDecode ----------------------------
(* A batch's launches: one request of up to 13 tokens, pairs of requests   *)
(* over one to three ranks, and more requests than a wave has lanes.       *)
EXTENDS MlaDecode

MCQueryWaves == {0, 1}
MCFillWaves == {2, 3}
MCIdleWaves == {4}

Tensor(type, sizes) == [dtype |-> type, shape |-> sizes, contiguous |-> TRUE, gpu |-> TRUE]
List(n) == [dtype |-> "i32", numel |-> n, contiguous |-> TRUE, gpu |-> TRUE]

(* A call of b requests of n tokens, over w ranks, with the device's       *)
(* lengths; kv_indices of idx entries.                                     *)
Args(b, n, h, w, lens, idx) ==
  [q_lat |-> Tensor("bf16", <<b * n, h, LatDim>>), q_pe |-> Tensor("bf16", <<b * n, h, RopeDim>>),
   o_lat |-> Tensor("bf16", <<b * n, h, LatDim>>),
   kv_pool |-> [dtype |-> "fp8", contiguous |-> TRUE, width |-> FusedDim],
   kv_indptr |-> List(b + 1), seq_lens |-> List(b), kv_indices |-> List(idx),
   glen |-> IF w > 1 THEN List(b) ELSE Absent, lse |-> Absent,
   cp_world |-> w, cp_rank |-> 0, lens |-> lens]

(* Calls the entry turns away: no tokens, a row short, no global lengths.  *)
Refused(a) ==
  {[a EXCEPT !.q_lat.shape[1] = 0, !.q_pe.shape[1] = 0, !.o_lat.shape[1] = 0],
   [a EXCEPT !.q_pe.shape[1] = @ - 1], [a EXCEPT !.seq_lens.numel = @ - 1],
   [a EXCEPT !.cp_world = @ + 1, !.glen = Absent]}

EntriesOf(b, ns, hs, ws, lens) ==
  UNION {{Args(b, n, h, w, f, idx) : f \in [0 .. b - 1 -> {l \in lens : l >= n}], idx \in {b, 400}} :
           <<n, h, w>> \in ns \X hs \X ws}

MCEntries ==
  LET good == EntriesOf(1, {1, 2, 3}, {1, 2, 5}, 1 .. 3, 1 .. 13)
                \cup EntriesOf(2, {1, 2}, {1, 3}, 1 .. 2, {2, 3, 5, 9})
                \cup EntriesOf(3, {1, 2}, {1}, {1, 3}, {1, 4, 8})
  IN good \cup UNION {Refused(a) : a \in good}

(* Whichever tile the cost picks, this run's CTA is that of two.           *)
MCCalls ==
  {c \in {[Launched(a) EXCEPT !.nt = 2] : a \in {x \in MCEntries : Admitted(x)}} : Fits(c)}
=============================================================================
