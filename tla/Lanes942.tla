------------------------------ MODULE Lanes942 ------------------------------
(***************************************************************************)
(* The gfx942 attention kernel's lanes at full size (csrc/gfx942/          *)
(* attention_kernel.hip: layouts, direct_lds_k, qk_phase, pv_phase,        *)
(* v_transpose_kernel_16x16, the output and merge_parts): where each load  *)
(* puts an element, and which one each product takes.  An MFMA multiplies  *)
(* A[m][k] and B[k][n]; lane L holds k = 4 (L / 16) + e of row or column   *)
(* L % 16, and D[4 (L / 16) + e][L % 16].                                  *)
(***************************************************************************)
EXTENDS Integers, FiniteSets, FiniteSetsExt

Lanes == 0 .. 63
WaveIds == 0 .. 7
Elems == 0 .. 3
col(lane) == lane % 16
quad(lane) == lane \div 16
HdFrag(d_tile, q) == 16 * d_tile + 4 * q      \* (d-tile, quad) -> head dim

Xor(x, y) ==
  LET bit(b) == (2 ^ b) * (((x \div (2 ^ b)) + (y \div (2 ^ b))) % 2)
  IN bit(0) + bit(1) + bit(2) + bit(3) + bit(4) + bit(5) + bit(6) + bit(7)

-----------------------------------------------------------------------------
(* K: a load brings a row of 64 dwords, lane by lane, to LDS; which dword  *)
(* a lane asks for depends on the row.  The two layouts compute it apart.  *)
swz_lane(lane, row) == 2 * Xor(lane \div 2, row % 16) + (lane % 2)
swz_off(lane, row) == Xor(4 * lane, 8 * (row % 16)) \div 4
KInLds(dword) == <<dword \div 64, swz_lane(dword % 64, dword \div 64)>>    \* HBM row, dword

(* What the read for kv_sub and d_pair gives, its halves 128 bytes apart.  *)
k_addr(lane, kv_sub, d_pair) ==
  256 * col(lane) + 8 * Xor(quad(lane), col(lane) % 4) + 32 * Xor(d_pair, col(lane) \div 4)
    + 4096 * kv_sub
k_operand(lane, kv_sub, d_pair, h, e) ==
  LET at == KInLds(((k_addr(lane, kv_sub, d_pair) + 128 * h) \div 4) + (e \div 2))
  IN <<at[1], 2 * at[2] + (e % 2)>>

KMeetsQ ==
  /\ \A lane \in Lanes, row \in 0 .. 15 : swz_lane(lane, row) = swz_off(lane, row)
  /\ \A lane \in Lanes, kv_sub \in 0 .. 3, d_pair \in 0 .. 3, h \in 0 .. 1, e \in Elems :
       k_operand(lane, kv_sub, d_pair, h, e) =
         <<16 * kv_sub + col(lane), HdFrag(d_pair + 4 * h, quad(lane)) + e>>

-----------------------------------------------------------------------------
(* Q's third group waits in LDS, by wave, d-tile and lane; a lite call     *)
(* keeps its last d-tile in registers, and its place holds the votes.      *)
Q2Lds(wave, d_tile, lane) == 1024 * wave + 128 * d_tile + 2 * lane
Q2Tiles(lite) == IF lite THEN 0 .. 6 ELSE 0 .. 7
sverdict(wave, r) == Q2Lds(wave, 7, 0) + r

Q2Apart(lite) ==
  LET parked == WaveIds \X Q2Tiles(lite) \X Lanes \X (0 .. 1)
      places == {Q2Lds(x[1], x[2], x[3]) + x[4] : x \in parked}
      votes == IF lite THEN {sverdict(w, r) : w \in WaveIds, r \in 0 .. 1} ELSE {}
  IN /\ Cardinality(places) = Cardinality(parked)
     /\ Cardinality(votes) = (IF lite THEN 16 ELSE 0)
     /\ votes \cap places = {} /\ \A at \in places \cup votes : at < 8192

-----------------------------------------------------------------------------
(* qk_phase's reads.  K comes through a ring of three, Q's third group     *)
(* through a ring of two for each half of the head dims; `at` is the read  *)
(* after whose products a load is issued, -1 before the first.             *)
Reads == 0 .. 15
KLoads == {[at |-> IF i < 3 THEN -1 ELSE i - 3, slot |-> i % 3, read |-> i] : i \in Reads}
Q2Loads(lite) ==
  {[at |-> IF x[1] < 2 THEN -1 ELSE 4 * (x[1] - 2) + 3, slot |-> x[1] % 2, h |-> x[2],
    tile |-> x[1] + 4 * x[2]] : x \in {y \in (0 .. 3) \X (0 .. 1) : ~(lite /\ y = <<3, 1>>)}}
Newest(loads) == CHOOSE x \in loads : \A y \in loads : y.at <= x.at

KTaken(i) == Newest({x \in KLoads : x.slot = i % 3 /\ x.at < i})
Q2Taken(lite, i, h) == Newest({x \in Q2Loads(lite) : x.h = h /\ x.slot = (i \div 4) % 2 /\ x.at < i})
FromQ2(lite, i, h) == ~(lite /\ h = 1 /\ i \div 4 = 3)

(* LDS returns in order.  A K load is the asm's: the code counts those     *)
(* still in flight by hand.  A Q load is the compiler's, which waits before*)
(* its use for all but the loads of its own that it has issued since.      *)
KIssued(i) == Cardinality({x \in KLoads : x.at < i})
Q2Issued(lite, i) == Cardinality({x \in Q2Loads(lite) : x.at < i})
IssuedBefore(lite, i) == KIssued(i) + Q2Issued(lite, i)
KPlace(lite, i) == IF i < 3 THEN i + 1 ELSE IssuedBefore(lite, i - 3) + 1
wait_lgkm(i) == IF i = 15 THEN 0 ELSE 2
CompilersWait(lite, i, h) ==
  LET x == Q2Taken(lite, i, h) IN
  Cardinality({y \in Q2Loads(lite) : y.at < i /\ (y.at > x.at \/ (y.at = x.at /\ y.tile % 4 > x.tile % 4)
                                       \/ (y.at = x.at /\ y.tile % 4 = x.tile % 4 /\ y.h > x.h))})

(* How many of the loads issued have surely landed at read i's first       *)
(* product: by its own wait, or by one before the first use of a Q operand.*)
LandedAt(lite, i) ==
  Max({IssuedBefore(lite, i) - wait_lgkm(i)}
        \cup {IssuedBefore(lite, x[1]) - CompilersWait(lite, x[1], x[2]) :
                x \in {y \in (0 .. i - 1) \X (0 .. 1) : y[1] % 4 = 0 /\ FromQ2(lite, y[1], y[2])}})

OperandsLand(lite) ==
  \A i \in Reads :
    /\ KTaken(i).read = i /\ KPlace(lite, i) <= LandedAt(lite, i)
    /\ \A h \in 0 .. 1 : FromQ2(lite, i, h) => Q2Taken(lite, i, h).tile = (i \div 4) + 4 * h

-----------------------------------------------------------------------------
(* V_t: a lane's eight elements of a chunk, from the staged block; pv_phase*)
(* takes half h of them for kv_sub0 + h.                                   *)
packed(chunk, lane, j) ==
  <<16 * (2 * (chunk % 2) + (j \div 4)) + 4 * quad(lane) + (j % 4), 16 * (chunk \div 2) + col(lane)>>
VOperand(chunk, lane, h, e) == packed(chunk, lane, 4 * h + e)
d_tile_of(chunk) == chunk \div 2
kv_sub0(chunk) == 2 * (chunk % 2)

(* A score's key, also the one a partial last block masks; it is P's key.  *)
score_row(lane, kv_sub, i) == 16 * kv_sub + 4 * quad(lane) + i

VMeetsP ==
  /\ \A lane \in Lanes, kv_sub \in 0 .. 3, i \in Elems :
       score_row(lane, kv_sub, i) = k_operand(4 * quad(lane) + i, kv_sub, 0, 0, 0)[1]
  /\ \A chunk \in 0 .. 15, lane \in Lanes, h \in 0 .. 1, e \in Elems :
       /\ VOperand(chunk, lane, h, e)[1] = score_row(lane, kv_sub0(chunk) + h, e)
       /\ VOperand(chunk, 4 * quad(lane) + e, h, 0)[2] = HdFrag(d_tile_of(chunk), quad(lane)) + e

-----------------------------------------------------------------------------
(* A part's output, four dims a store, and the cells the merge's threads   *)
(* read; a row's maximum and sum are stored by its first quad.             *)
PartLaneRow(wave, g, lane) == 16 * (3 * wave + g) + col(lane)
PartStores == [wave : WaveIds, g : 0 .. 2, lane : Lanes, t : 0 .. 7]
PartO(x) == 128 * PartLaneRow(x.wave, x.g, x.lane) + HdFrag(x.t, quad(x.lane))
MergeCell(block, thread) == 4 * (256 * block + thread)
MlStores == {x \in PartStores : x.t = 0 /\ quad(x.lane) = 0}

PartsMeet ==
  LET cells == {MergeCell(b, t) : b \in 0 .. 47, t \in 0 .. 255} IN
  /\ {PartO(x) : x \in PartStores} = cells /\ Cardinality(PartStores) = Cardinality(cells)
  /\ {PartLaneRow(x.wave, x.g, x.lane) : x \in MlStores} = {at \div 128 : at \in cells}
  /\ Cardinality(MlStores) = 384

LanesMeet(lite) == KMeetsQ /\ VMeetsP /\ PartsMeet /\ Q2Apart(lite) /\ OperandsLand(lite)

SoundBuilds == {build \in {"dense", "lite"} : LanesMeet(build = "lite")}
=============================================================================
