------------------------------ MODULE MlaSplit ------------------------------
(***************************************************************************)
(* How the gfx942 MLA decode (csrc/gfx942/mla_decode_a16w8.hip) divides a  *)
(* batch: each request's q rows into slices, its KV into parts in units of *)
(* the grid, parts into tiles; under context parallelism positions over    *)
(* ranks; and which of a tile's tokens a row's softmax counts.  Decode     *)
(* maps a CTA to its request and part, the merge maps a request to its     *)
(* CTAs: both recompute the split, from the lengths alone.                 *)
(*                                                                         *)
(* A call is [B, q_len, H, nt, world, glen]: glen[i] is request i's global *)
(* length, nt the query tiles of a CTA.                                    *)
(***************************************************************************)
EXTENDS Integers, FiniteSets, FiniteSetsExt

CONSTANTS TileTokens,     \* KV tokens of a tile
          MfmaTile,       \* rows of a query tile
          WaveSize,       \* lanes of a wave
          NumCU,          \* CUs: the most CTAs a launch may need
          MaxSplitTiles   \* tiles of a request the split tells apart

ASSUME SplitAssumption ==
  {TileTokens, MfmaTile, WaveSize, NumCU, MaxSplitTiles} \subseteq Nat \ {0}

Lanes == 0 .. WaveSize - 1
Least(x, y) == IF x < y THEN x ELSE y
cdiv(x, y) == (x + y - 1) \div y

(* f[0] + ... + f[n - 1], as the lanes of a wave reduce or scan it.        *)
SumTo(f, n) ==
  LET sum[m \in Nat] == IF m = 0 THEN 0 ELSE sum[m - 1] + f[m - 1] IN sum[n]

-----------------------------------------------------------------------------
(* The grid: rows of a slice, slices of a request, and the parts that are  *)
(* left for each when every (request, slice) has taken a CU.               *)
rows(c) == c.nt * MfmaTile
slices_of(c) == cdiv(c.q_len * c.H, rows(c))
parts_for(c) == IF NumCU \div (c.B * slices_of(c)) < 1 THEN 1
                ELSE NumCU \div (c.B * slices_of(c))

units_total(c) == c.B * parts_for(c)
n_ctas(c) == c.B * slices_of(c) * parts_for(c)

(* pick_tile takes some nt whose slices fit the machine; which of them is  *)
(* a question of time only.                                                *)
Fits(c) == c.B * slices_of(c) <= NumCU

Requests(c) == 0 .. c.B - 1

IsCall(c) ==
  /\ {c.B, c.q_len, c.H, c.nt, c.world} \subseteq Nat \ {0}
  /\ c.glen \in [Requests(c) -> Nat]
  /\ Fits(c)

(* Rank r's share of request i: the positions that are r modulo the world. *)
kv_len(c, r, i) == IF c.glen[i] <= r THEN 0 ELSE cdiv(c.glen[i] - r, c.world)

-----------------------------------------------------------------------------
(* KvSplit: a request's units of a slice follow its tiles.                 *)
split_tiles(len) ==
  LET t == cdiv(len, TileTokens) IN IF t < 1 THEN 1 ELSE Least(t, MaxSplitTiles)

tiles_of(c, r, i) == split_tiles(kv_len(c, r, i))
spare_tiles(c, r) == SumTo([i \in Requests(c) |-> tiles_of(c, r, i) - 1], c.B)

Share(t, total, batch, spare) ==
  Least(IF spare > 0 THEN 1 + ((t - 1) * (total - batch)) \div spare ELSE 1, t)

units_all(c, r, i) ==                      \* mutant: the unit each request has is not set aside
  Share(tiles_of(c, r, i), units_total(c), 0, spare_tiles(c, r))

units(c, r, i) == Share(tiles_of(c, r, i), units_total(c), c.B, spare_tiles(c, r))

first_unit(c, r, i) == SumTo([j \in Requests(c) |-> units(c, r, j)], i)

(* owner: a wave looks at WaveSize requests at a time, block after block.  *)
(* upto is the sum over the lanes 0 .. l of a block, first(b) that of the  *)
(* blocks before b.                                                        *)
mine(c, r, i) == IF i < c.B THEN units(c, r, i) ELSE 0
upto(c, r, b, l) == SumTo([m \in Lanes |-> mine(c, r, b * WaveSize + m)], l + 1)
first(c, r, b) == SumTo([k \in Nat |-> upto(c, r, k, WaveSize - 1)], b)
past(c, r, unit, b) == {l \in Lanes : upto(c, r, b, l) > unit - first(c, r, b)}

owner(c, r, unit) ==
  LET blocks == 0 .. cdiv(c.B, WaveSize) - 1
      hits == {b \in blocks : past(c, r, unit, b) # {}}
  IN IF hits = {} THEN [req |-> c.B, first |-> first(c, r, Cardinality(blocks)), count |-> 0]
     ELSE LET b == Min(hits)
              l == Min(past(c, r, unit, b))
              count == mine(c, r, b * WaveSize + l)
          IN [req |-> b * WaveSize + l, count |-> count,
              first |-> first(c, r, b) + upto(c, r, b, l) - count]

-----------------------------------------------------------------------------
(* A CTA's place: its slice is the slowest index of the grid.              *)
slice_of(c, cta) == cta \div units_total(c)
unit_of(c, cta) == cta % units_total(c)
live_rows(c, slice) == Least(c.q_len * c.H - slice * rows(c), rows(c))
live_tiles(c, slice) == cdiv(live_rows(c, slice), MfmaTile)

(* Part j of n of a request of len tokens: whole tiles, the last ones may  *)
(* be empty.                                                               *)
per_part(len, n) == cdiv(len, n * TileTokens) * TileTokens
win_lo(len, j, n) == j * per_part(len, n)
win_hi(len, j, n) == Least(len, win_lo(len, j, n) + per_part(len, n))
kv_tiles(len, j, n) ==
  IF win_hi(len, j, n) > win_lo(len, j, n)
  THEN cdiv(win_hi(len, j, n) - win_lo(len, j, n), TileTokens) ELSE 0

(* Position qpos of a draft attends [0, global_len - (q_len - 1 - qpos)),  *)
(* of which a rank holds those below this.                                 *)
local_end(global_end, rank, world) ==
  IF global_end <= rank THEN 0 ELSE cdiv(global_end - rank, world)

local_causal_end(c, r, i, qpos) ==
  local_end(c.glen[i] - (c.q_len - 1 - qpos), r, c.world)

(* Where a lane's row stops: a row past the slice's last stops nowhere.    *)
kv_end(c, r, i, j, n, slice, packed) ==
  LET len == kv_len(c, r, i)
      qpos == (slice * rows(c) + packed) \div c.H
  IN Least(win_hi(len, j, n),
           IF packed < live_rows(c, slice) THEN Least(len, local_causal_end(c, r, i, qpos)) ELSE len)

(* A tile is whole to a query tile's wave, and its scores are not masked,  *)
(* when it ends before the rows of all its lanes do (kv_end_min).          *)
Lane_ends(c, r, i, j, n, slice, packed) ==
  LET tile == packed \div MfmaTile IN
  {kv_end(c, r, i, j, n, slice, p) : p \in tile * MfmaTile .. tile * MfmaTile + MfmaTile - 1}

whole_for_some(c, r, i, j, n, slice, packed, tok0) ==       \* mutant: the largest of the ends
  \E e \in Lane_ends(c, r, i, j, n, slice, packed) : tok0 + TileTokens <= e
whole(c, r, i, j, n, slice, packed, tok0) ==
  \A e \in Lane_ends(c, r, i, j, n, slice, packed) : tok0 + TileTokens <= e

(* The tokens a row's softmax counts in its part.                          *)
tile_of(lo, tok) == lo + ((tok - lo) \div TileTokens) * TileTokens
Counted(c, r, i, j, n, slice, packed) ==
  LET len == kv_len(c, r, i)
      lo == win_lo(len, j, n)
  IN {tok \in lo .. lo + kv_tiles(len, j, n) * TileTokens - 1 :
        \/ whole(c, r, i, j, n, slice, packed, tile_of(lo, tok))
        \/ tok < kv_end(c, r, i, j, n, slice, packed)}

-----------------------------------------------------------------------------
(* The merge of one row of a request: the CTAs whose partials it reads.    *)
merge_slice(c, row) == row \div rows(c)
merge_slot(c, row) == row % rows(c)
merge_ctas(c, r, i, row) ==
  LET cta0 == merge_slice(c, row) * units_total(c) + first_unit(c, r, i) IN
  cta0 .. cta0 + units(c, r, i) - 1

(* The merge's CTAs are those of the grid that decoded its row of its      *)
(* request, part by part, no more than its weights have room for; and no   *)
(* CTA with rows and a request is left out.                                *)
MergeReads(c, r) ==
  LET o(cta) == owner(c, r, unit_of(c, cta)) IN
  /\ \A i \in Requests(c), row \in 0 .. c.q_len * c.H - 1 : \A cta \in merge_ctas(c, r, i, row) :
       /\ cta < n_ctas(c) /\ slice_of(c, cta) = merge_slice(c, row)
       /\ merge_slot(c, row) < live_rows(c, slice_of(c, cta))
       /\ o(cta).req = i /\ o(cta).count = units(c, r, i)
       /\ unit_of(c, cta) - o(cta).first = cta - Min(merge_ctas(c, r, i, row))
  /\ \A i \in Requests(c) : units(c, r, i) <= NumCU
  /\ \A cta \in 0 .. n_ctas(c) - 1 :
       o(cta).req < c.B /\ live_rows(c, slice_of(c, cta)) > 0 =>
         cta \in merge_ctas(c, r, o(cta).req, slice_of(c, cta) * rows(c))

(* What the row reads, n[r] being the parts of rank r: <<rank, part, token>>*)
Reads(c, i, row, n) ==
  UNION {UNION {{<<r, j, tok>> :
                   tok \in Counted(c, r, i, j, n[r], merge_slice(c, row), merge_slot(c, row))} :
                j \in 0 .. n[r] - 1} : r \in 0 .. c.world - 1}

position(c, x) == x[3] * c.world + x[1]
attended(c, i, row) == 0 .. c.glen[i] - (c.q_len - 1 - row \div c.H) - 1

CountsOnce(c, i, row, n) ==
  /\ {position(c, x) : x \in Reads(c, i, row, n)} = attended(c, i, row)
  /\ \A x, y \in Reads(c, i, row, n) : position(c, x) = position(c, y) => x = y
=============================================================================
