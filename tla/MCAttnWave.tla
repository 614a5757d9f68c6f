----------------------------- MODULE MCAttnWave -----------------------------
(* Two waves, one of each group, two rows each.  Max32 is 8 tiles of the    *)
(* widest rows, as 2^32 is of 8 MB ones.  Some calls walk many tiles of any *)
(* stride or page with plain scores; others few tiles with any scores.      *)
EXTENDS AttnWave

MCRows == 0 .. 1
MCKeys == 0 .. 3
MCLanes == 0 .. 1
MCKernels == {"d128", "mla", "mla paged"}

Pattern(a, b, c, d) == [i \in MCKeys |-> <<a, b, c, d>>[i + 1]]
Plain == [r \in MCRows |-> {Pattern(0, 0, 0, 0)}]

Entries(kv0, skv, rows) == {x \div rows : x \in kv0 .. kv0 + skv - 1}
NoPage == 50
Call(mla, paged, wave, causal, kv0, skv, sq, row0, parts, k_row, v_row, shift, pats) ==
  LET own == IF paged THEN Entries(kv0, skv, 2 ^ shift) ELSE {}
      table == [e \in 0 .. 40 |-> IF e \in own THEN (7 * e + 3) % 11 ELSE NoPage]
  IN [mla |-> mla, paged |-> paged, wave |-> wave, causal |-> causal, kv0 |-> kv0, skv |-> skv,
      sq |-> sq, row0 |-> row0, parts |-> parts, k_row |-> k_row, v_row |-> v_row,
      page_shift |-> shift, page_bytes |-> 100, table |-> table,
      pages |-> {table[e] : e \in own}, scores |-> pats]

(* A q block's tiles end at its last row's last key: up to 20 rows, 5 tiles  *)
(* here, after the wave's own, as 7 more waves of 48 rows are 5 tiles.      *)
Tiles(skv, causal, row0, sq) ==
  CeilDiv(Most(IF causal THEN Least(skv, Least(row0 + 22, sq) + skv - sq) ELSE skv, 0), KvTile)
Halves(n) == IF n < 2 THEN {<< <<0, n>> >>} ELSE {<< <<0, n>> >>, << <<0, n \div 2>>, <<n \div 2, n>> >>}

Unpaged ==
  UNION {UNION {{Call(mla, FALSE, wave, causal, kv0, skv, sq, row0, parts, k, v, 0, Plain) :
     parts \in Halves(Tiles(skv, causal, row0, sq))} : sq \in {6, 30},
     mla \in BOOLEAN, wave \in {0, 1}, causal \in BOOLEAN, kv0 \in {5},
     skv \in {0, 3, 17, 56}, row0 \in {-2, -1, 4}} : k \in {1, 7, 8}, v \in {2, 7}}

PagedCalls ==
  UNION {UNION {{Call(mla, TRUE, wave, causal, 2 ^ shift * first, skv, 30, row0, parts, 3, IF mla THEN 2 ELSE 3, shift, Plain) :
     parts \in Halves(Tiles(skv, causal, row0, 30))} :
     mla \in IF shift = 1 THEN {FALSE} ELSE BOOLEAN, wave \in {0, 1}, causal \in BOOLEAN, first \in {0, 2},
     skv \in {0, 3, 17, 30}, row0 \in {-1, 4}} : shift \in {1, 2, 3}}

Low == Pattern(-40, -20, -60, -90)
High == Pattern(0, 30, 0, 30)
Higher == Pattern(150, 20, -70, 0)
OneNaN == Pattern(NaN, 1, -30, 2)
OneInf == Pattern(3, PlusInf, -30, 5)
Level == Pattern(0, -5, 2, -3)
Slightly == Pattern(0, 11, 2, -3)
Scored ==
  {Call(mla, FALSE, wave, c[1], 0, c[2], c[3], c[4], c[5], 1, 1, 0,
        0 :> {Low, High, Higher, OneNaN, OneInf, Level, Slightly} @@ 1 :> {Low, Higher, OneInf, Level}) :
     mla \in BOOLEAN, wave \in {0, 1},
     c \in {<<FALSE, 7, 2, 0, << <<0, 2>> >> >>, <<FALSE, 7, 2, 0, << <<0, 1>>, <<1, 2>> >> >>,
            <<TRUE, 8, 4, 0, << <<0, 1>>, <<1, 2>> >> >>, <<TRUE, 9, 2, 0, << <<0, 3>> >> >>,
            <<TRUE, 3, 5, 1, << <<0, 1>> >> >>}}

MCCalls == Unpaged \cup PagedCalls \cup Scored
=============================================================================
