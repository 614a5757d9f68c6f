------------------------------- MODULE MoeGrid -------------------------------
(* Which workgroup of a gfx942 MoE launch writes what (csrc/gfx942/         *)
(* mxfp4_moe_gateup.hip, mxfp4_moe_down.hip, mxfp4_moe_common.h): the       *)
(* planners, the launchers' grids, xcd_linear, and where a store lands in C.*)
(* Heights of blocks are counted in MFMA row tiles: 1 is block_m 16.        *)
(*                                                                          *)
(* A job is a launch: its kernel, its tile, its columns N, and the routing  *)
(* the caller aligned: sorted, a slot for each row of each live block (a    *)
(* padding row has slot valid), and experts, one for each block, negative   *)
(* where the expert lives elsewhere.                                        *)
EXTENDS Integers, Sequences, FiniteSets

CONSTANTS Tile,         \* 16: rows and columns of an MFMA tile
          NumWaves,     \* 8: waves of a workgroup
          NumXcds,      \* 8
          OffsetRange   \* 2^32: a buffer's offsets

ASSUME MoeGridAssumption ==
  {Tile, NumWaves, NumXcds, OffsetRange} \subseteq Nat \ {0} /\ NumWaves % 2 = 0

Ceil(a, b) == (a + b - 1) \div b

-----------------------------------------------------------------------------
(* The planners, from rows per expert.                                     *)
AtMost(valid, experts, n) == valid <= n * (IF experts > 0 THEN experts ELSE 1)

moe_gateup_supports_k(K) == K % 256 = 0

moe_gateup_block_m(valid, experts) ==
  IF AtMost(valid, experts, 12) THEN 1
  ELSE IF AtMost(valid + 1, experts, 29) THEN 2 ELSE 3

DownKSteps == {3, 4, 6}

(* Mutant: the tallest tile for any K.                                     *)
moe_down_block_m_any(valid, experts, K) ==
  IF K % 128 # 0 \/ K \div 128 \notin DownKSteps THEN 0
  ELSE IF AtMost(valid, experts, 12) THEN 1
  ELSE IF AtMost(valid, experts, 200) THEN 2 ELSE 4

moe_down_block_m(valid, experts, K) ==
  IF K % 128 # 0 \/ K \div 128 \notin DownKSteps THEN 0
  ELSE IF AtMost(valid, experts, 12) THEN 1
  ELSE IF AtMost(valid, experts, 200) \/ K \div 128 # 3 THEN 2 ELSE 4

moe_down_nt(valid, experts) == IF AtMost(valid, experts, 4) THEN 1 ELSE 2

nt_for(bm, nt) == IF nt = 1 /\ bm = 1 THEN 1 ELSE 2
DownWaves(bm) == IF bm >= 4 THEN 2 * NumWaves ELSE NumWaves
bn_for(bm, nt) == DownWaves(bm) * nt_for(bm, nt) * Tile

(* Column chunks a workgroup of down sweeps.                               *)
moe_down_n_steps(blocks, N, cus, bm, nt) ==
  LET total == Ceil(N, bn_for(bm, nt))
      want == 12 * (IF cus > 0 THEN cus ELSE 304)
      wide == IF blocks > 0 THEN (total * blocks) \div want ELSE total
      fit == IF wide < 1 THEN 1 ELSE IF wide > total THEN total ELSE wide
      decode == IF bm = 1 /\ fit < 4 /\ total >= 4 /\ blocks <= 2 * cus
                   /\ (total \div 4) * blocks >= 2 * cus
                THEN 4 ELSE fit
      tall == IF bm > 1 /\ total >= 2 /\ decode < total \div 2 THEN total \div 2 ELSE decode
      even == total \div Ceil(total, tall)
  IN IF even < 1 THEN 1 ELSE IF even > total THEN total ELSE even

-----------------------------------------------------------------------------
(* moe_gateup_launch's column tiles per wave: the widest that covers no    *)
(* more columns than one does.                                             *)
WavesPerProj(situ) == IF situ THEN NumWaves \div 2 ELSE NumWaves
GateUpBN(situ, nt) == WavesPerProj(situ) * nt * Tile
Covered(situ, N, nt) == Ceil(N, GateUpBN(situ, nt)) * GateUpBN(situ, nt)

GateUpNt(bm, situ, N) ==
  LET wide == {nt \in 2 .. (IF situ THEN 2 ELSE 3) : Covered(situ, N, nt) = Covered(situ, N, 1)} IN
  IF bm = 1 \/ wide = {} THEN 1 ELSE CHOOSE nt \in wide : \A x \in wide : x <= nt

(* A job's column block, its chunks of columns, and the steps in a chunk.  *)
BN(job) == IF job.kernel = "gateup" THEN GateUpBN(job.situ, job.nt) ELSE bn_for(job.bm, job.nt)

Chunk(job) ==
  LET total == Ceil(job.N, BN(job)) IN
  IF job.kernel = "gateup" THEN 1
  ELSE IF job.n_steps < 1 \/ job.n_steps > total THEN total ELSE job.n_steps

GridX(job) == Ceil(Ceil(job.N, BN(job)), Chunk(job))
Ctas(job) == 0 .. GridX(job) * job.blocks - 1

(* Mutant: the leftover blocks given no room.                              *)
xcd_linear_flat(lin, live) ==
  IF lin >= live THEN -1 ELSE (lin % NumXcds) * (live \div NumXcds) + lin \div NumXcds

(* Contiguous runs of the live blocks to each die; -1 past them.           *)
xcd_linear(lin, live) ==
  LET per == live \div NumXcds
      rem == live % NumXcds
      die == lin % NumXcds
  IN IF lin >= live THEN -1
     ELSE die * per + (IF die < rem THEN die ELSE rem) + lin \div NumXcds

Rows(job) == job.bm * Tile
live_m(job) == Ceil(Len(job.sorted), Rows(job))

(* Where a workgroup works: its block of rows and its chunk of columns.    *)
Linear(job, cta) == xcd_linear(cta, live_m(job) * GridX(job))
pid_m(job, cta) == Linear(job, cta) \div GridX(job)
pid_n(job, cta) == Linear(job, cta) % GridX(job)

Works(job, cta) == Linear(job, cta) >= 0 /\ job.experts[pid_m(job, cta) + 1] >= 0

(* The columns nb at which a workgroup's steps start, all below N.         *)
Begins(job, cta) ==
  LET first == pid_n(job, cta) * Chunk(job) * BN(job) IN
  {nb \in {first + i * BN(job) : i \in 0 .. Chunk(job) - 1} : nb < job.N}

(* Stores: wave w of the columns' waves, column tile t and lane column col.*)
ColumnWaves(job) == IF job.kernel = "gateup" THEN WavesPerProj(job.situ) ELSE DownWaves(job.bm)
LaneStores(job) ==
  (0 .. ColumnWaves(job) - 1) \X (0 .. (IF job.kernel = "gateup" THEN job.nt - 1 ELSE 0))
    \X (0 .. Tile - 1)

(* In gateup wave w owns nt tiles side by side; in down a lane's nt columns*)
(* are neighbours and go in one store.                                     *)
FirstColumn(job, nb, s) ==
  IF job.kernel = "gateup" THEN nb + s[1] * job.nt * Tile + s[2] * Tile + s[3]
  ELSE LET nt == nt_for(job.bm, job.nt) IN nb + s[1] * nt * Tile + s[3] * nt
Width(job) == IF job.kernel = "gateup" THEN 1 ELSE nt_for(job.bm, job.nt)

Stores(job, cta) ==
  {st \in Begins(job, cta) \X LaneStores(job) : FirstColumn(job, st[1], st[2]) < job.N}

(* Who writes column n of block m.                                         *)
Workers(job, m) == {c \in Ctas(job) : Works(job, c) /\ pid_m(job, c) = m}
Writers(job, m, n) ==
  {x \in UNION {{<<c, st>> : st \in Stores(job, c)} : c \in Workers(job, m)} :
     LET first == FirstColumn(job, x[2][1], x[2][2]) IN first <= n /\ n < first + Width(job)}

-----------------------------------------------------------------------------
(* Byte offsets into C.  A padding row's is C's own size, the least that   *)
(* the hardware drops; offsets wrap.                                       *)
records(bytes) == IF bytes < 0 \/ bytes >= OffsetRange THEN OffsetRange - 1 ELSE bytes

c_records(job) == records(job.valid * job.stride_cm * 2)

(* Mutant: a fixed sentinel, half the range.                               *)
row_off_fixed(job, slot) ==
  IF slot < job.valid THEN slot * job.stride_cm * 2 ELSE OffsetRange \div 2

row_off(job, slot) == IF slot < job.valid THEN slot * job.stride_cm * 2 ELSE c_records(job)

(* gateup adds the column in the lane; down's wave-uniform part is the     *)
(* store's scalar offset, which the range check adds without wrapping.     *)
Lands(job, slot, nb, s) ==
  LET col == FirstColumn(job, nb, s) * 2
      uniform == IF job.kernel = "gateup" THEN 0
                 ELSE (nb + s[1] * Width(job) * Tile) * 2
      offset == ((row_off(job, slot) + (col - uniform)) % OffsetRange) + uniform
  IN IF offset + 2 * Width(job) <= c_records(job) THEN {offset} ELSE {}
=============================================================================
