----------------------------- MODULE WaveLoads -----------------------------
(***************************************************************************)
(* Which K/V rows one wave of the gfx950 kernels loads (csrc/gfx950/       *)
(* attention.hip and attention_mla.hip, "K/V DMA"): the buffer resources   *)
(* it loads through, the 32-bit offsets into them, and, when K and V are   *)
(* paged, the page it takes for the next block and the table entry it has  *)
(* in flight.  A row's place is its byte offset from its head's first row; *)
(* a load past a resource's range brings zeros.                            *)
(***************************************************************************)
EXTENDS WorkItems

CONSTANTS Max32,     \* UINT32_MAX
          RowsCap,   \* the rows a paged resource spans at most (256)
          DBytes     \* bytes of a row

ASSUME LoadsAssumption ==
  /\ Max32 \in Nat /\ DBytes \in Nat \ {0}
  /\ RowsCap \in Nat /\ KvTile <= RowsCap
  /\ NumWaves % 2 = 0 /\ KvTile % NumWaves = 0

Zeros == -1                         \* what a load past its range brings
NeverMoves == 1000000               \* INT_MAX / 2

(* A call's wave: A's waves come first.  The D128 kernel's waves load K    *)
(* and V, each its own rows; MLA's A loads K and its B loads V.            *)
GroupA(c) == c.wave < NumWaves \div 2
Rings(c) == IF ~c.mla THEN {"K", "V"} ELSE IF GroupA(c) THEN {"K"} ELSE {"V"}
PageRing(c) == IF "K" \in Rings(c) THEN "K" ELSE "V"
GroupWaves == NumWaves \div 2

RowCount(c) == IF ~c.mla THEN KvTile \div NumWaves
               ELSE IF c.paged THEN KvTile \div GroupWaves ELSE KvTile
DmaRow0(c) == IF ~c.mla THEN c.wave * RowCount(c)
              ELSE IF c.paged THEN (c.wave % GroupWaves) * RowCount(c) ELSE 0
DmaRows(c) == 0 .. RowCount(c) - 1

RowBytes(c, ring) == IF ring = "K" THEN c.k_row ELSE c.v_row
TileBytes(c, ring) == KvTile * RowBytes(c, ring)
Ahead(c, ring) == IF c.mla THEN 1
                  ELSE (IF ring = "K" THEN 1 ELSE 0) + (IF GroupA(c) THEN 0 ELSE 1)

(* A part's first token and its keys from there on.                        *)
kv_row0(c, lo) == c.kv0 + lo * KvTile
num_rows(c, lo) == c.skv - lo * KvTile

-----------------------------------------------------------------------------
(* Unpaged: a resource spans its rows of tile t through the last key.      *)
kv_rsrc(c, lo, ring, t) ==
  LET row == t * KvTile + DmaRow0(c)
      rb == RowBytes(c, ring)
      left == Most(num_rows(c, lo) - row, 0)
  IN [base |-> (kv_row0(c, lo) + row) * rb,
      range |-> IF left = 0 THEN 0 ELSE Least((left - 1) * rb + DBytes, Max32)]

rsrc_tiles(c) ==
  IF c.paged THEN NeverMoves
  ELSE Max32 \div Most(TileBytes(c, "K"), TileBytes(c, "V")) - (IF c.mla THEN 1 ELSE 2)

move_rsrc(c, lo, r, t) ==
  IF t - r.rsrc_t0 < rsrc_tiles(c) THEN r
  ELSE [r EXCEPT !.rsrc_t0 = t, !.rsrc = [ring \in Rings(c) |-> kv_rsrc(c, lo, ring, t)]]

set_dma(c, r, t) ==
  IF c.paged THEN r
  ELSE [r EXCEPT !.off = [ring \in Rings(c) |->
          ((t - r.rsrc_t0 + Ahead(c, ring)) * TileBytes(c, ring)) % (Max32 + 1)]]

-----------------------------------------------------------------------------
(* Paged: a resource starts in a page, at the rows the wave loads; V's is  *)
(* K's of the block before (shared strides).                               *)
PageRows(c) == 2 ^ c.page_shift
kv_last(c) == IF c.skv > 0 THEN c.kv0 + c.skv - 1 ELSE 0
page_entry_unclamped(c, vk) == vk \div PageRows(c)     \* mutant: past the table's end
page_entry(c, vk) == Least(vk, kv_last(c)) \div PageRows(c)

page_rsrc(c, r) ==
  LET vk == r.vk + KvTile
      left == Least(Most(c.kv0 + c.skv - vk, 0), RowsCap)
      rb == RowBytes(c, PageRing(c))
  IN [r EXCEPT !.vk = vk,
        !.rsrc[PageRing(c)] = [base |-> r.page * c.page_bytes + (vk % PageRows(c)) * rb,
                               range |-> left * rb],
        !.entry = page_entry(c, vk + 2 * KvTile)]

rsrc_at(c, r, page) == page_rsrc(c, [r EXCEPT !.page = page])
v_rsrc_at_k(c, r) == IF c.mla THEN r ELSE [r EXCEPT !.rsrc["V"] = r.rsrc["K"]]

(* After a block's loads: the next block's resources.                      *)
next_rsrc_k_first(c, r) ==                             \* mutant: K's pieces before V's
  IF c.paged THEN v_rsrc_at_k(c, page_rsrc(c, r)) ELSE r
next_rsrc(c, r) == IF c.paged THEN page_rsrc(c, v_rsrc_at_k(c, r)) ELSE r

(* The next block's page, and the load of the one after it.                *)
next_page(c, r) == IF c.paged THEN [r EXCEPT !.page = r.next_page, !.next_page = c.table[r.entry]]
                   ELSE r

-----------------------------------------------------------------------------
(* Tile n's rows, as the DMA finds them at an offset into a resource.      *)
Load(c, r, ring, n, off) ==
  LET at(i) == off + i * RowBytes(c, ring) IN
  [ring |-> ring, tile |-> n,
   rows |-> [i \in DmaRows(c) |->
               IF at(i) + DBytes <= r.rsrc[ring].range THEN r.rsrc[ring].base + at(i) ELSE Zeros]]

BlockLoads(c, r, t) == {Load(c, r, ring, t + Ahead(c, ring), r.off[ring]) : ring \in Rings(c)}

(* The prologue: tile 0, and B's K(1); paged, the first pages are taken    *)
(* together and block 0's resources are built last.                        *)
Registers(c, lo) ==
  [rsrc |-> [ring \in Rings(c) |-> kv_rsrc(c, lo, ring, 0)], rsrc_t0 |-> 0,
   off |-> [ring \in Rings(c) |-> 0],
   vk |-> kv_row0(c, lo) + DmaRow0(c) - KvTile, page |-> 0, next_page |-> 0, entry |-> 0]

UnpagedPrologue(c, lo) ==
  LET r == Registers(c, lo) IN
  [regs |-> r,
   loads |-> {Load(c, r, ring, 0, 0) : ring \in Rings(c)}
               \cup IF c.mla \/ GroupA(c) THEN {} ELSE {Load(c, r, "K", 1, TileBytes(c, "K"))}]

PagedPrologue(c, lo) ==
  LET r == Registers(c, lo)
      pg(t) == c.table[page_entry(c, r.vk + (t + 1) * KvTile)]
      tile0 == v_rsrc_at_k(c, rsrc_at(c, r, pg(0)))
      tile1 == IF GroupA(c) THEN tile0 ELSE rsrc_at(c, tile0, pg(1))
      ahead == Ahead(c, "K")
      block0 == rsrc_at(c, [v_rsrc_at_k(c, tile1) EXCEPT !.vk = r.vk + ahead * KvTile], pg(ahead))
  IN [regs |-> [block0 EXCEPT !.page = pg(ahead + 1), !.next_page = pg(ahead + 2)],
      loads |-> {Load(c, tile0, ring, 0, 0) : ring \in Rings(c)}
                  \cup IF GroupA(c) THEN {} ELSE {Load(c, tile1, "K", 1, 0)}]

MlaPagedPrologue(c, lo) ==
  LET r == Registers(c, lo)
      pg(vk) == c.table[page_entry(c, vk)]
      tile0 == rsrc_at(c, r, pg(r.vk + KvTile))
      block0 == rsrc_at(c, [tile0 EXCEPT !.next_page = pg(tile0.vk + 2 * KvTile)], pg(r.vk + 2 * KvTile))
  IN [regs |-> next_page(c, block0), loads |-> {Load(c, tile0, PageRing(c), 0, 0)}]

prologue(c, lo) == IF ~c.paged THEN UnpagedPrologue(c, lo)
                   ELSE IF c.mla THEN MlaPagedPrologue(c, lo) ELSE PagedPrologue(c, lo)

-----------------------------------------------------------------------------
(* Where key k's row of a ring is, for a reader of the call alone.         *)
RowOf(c, ring, k) ==
  LET vk == c.kv0 + k IN
  IF ~c.paged THEN vk * RowBytes(c, ring)
  ELSE c.table[vk \div PageRows(c)] * c.page_bytes + (vk % PageRows(c)) * RowBytes(c, ring)

(* The rows a load of tile n should bring: its keys', and zeros past them. *)
OwnRows(c, lo, load) ==
  \A i \in DmaRows(c) :
    LET k == (lo + load.tile) * KvTile + DmaRow0(c) + i IN
    load.rows[i] = IF k < c.skv THEN RowOf(c, load.ring, k) ELSE Zeros
=============================================================================
