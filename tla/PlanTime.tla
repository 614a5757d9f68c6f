------------------------------ MODULE PlanTime ------------------------------
(***************************************************************************)
(* What the host knows of a grid before it runs                            *)
(* (csrc/gfx950/attention_plan.hpp, namespace host): the KV tiles of every *)
(* q block (all_tiles), the time a division of them takes (modelled_time), *)
(* and dev mode's choice of wave rows and parts by that time (dev_plan).   *)
(* Times are whole units: 100 to a KV tile of the most wave rows.          *)
(***************************************************************************)
EXTENDS WorkItems, FiniteSets, FiniteSetsExt, SequencesExt

CONSTANTS MaxWaveRows, FewRows,      \* a wave's q rows: 48, or 32
          MaxParts, SplitMaxRounds, DevSplitRounds,
          CtaTiles, PartTiles, MergeTiles,
          SplitMinGain,              \* percent, 105 in the code
          IntMax, ItemBytes          \* 2^31 - 1 and sizeof(WorkItem)

ASSUME PlanTimeAssumption ==
  /\ {MaxWaveRows, FewRows, MaxParts, IntMax, ItemBytes} \subseteq Nat \ {0}
  /\ {SplitMaxRounds, DevSplitRounds, CtaTiles, PartTiles, MergeTiles} \subseteq Nat

(* A problem pr: [seqs, H, pack, causal, lse, cus, kv_bytes, few_cost,     *)
(* split_cost]; seqs of [b, q0, sq, kv0, skv].  PerBlock values: per       *)
(* sequence and q block (from 1), its tiles or its parts.                  *)
packs(pr) == pr.H \div pr.pack
Blocks(per) == UNION {{<<s, b>> : b \in DOMAIN per[s]} : s \in DOMAIN per}
CtaCount(pr, np) == packs(pr) * MapThenSumSet(LAMBDA x : np[x[1]][x[2]], Blocks(np))

all_tiles(pr, rows) ==
  [s \in DOMAIN pr.seqs |->
     LET x == pr.seqs[s] IN
     [b \in 1 .. num_q_blocks(x.sq, pr.pack, rows) |->
        block_tiles(x.sq, x.skv, b - 1, pr.pack, rows, pr.causal)]]

(* Per sequence and q block, one part, or P but no more than it has tiles. *)
InParts(P, tiles) ==
  [s \in DOMAIN tiles |-> [b \in DOMAIN tiles[s] |-> Most(1, Least(P, tiles[s][b]))]]

(* modelled_time: CTAs longest first, each on the first free CU; then the  *)
(* merge.  (The code's limit stops it early only for a losing candidate.)  *)
CtaCosts(pr, tiles, np, tile) ==
  FlattenSeq([s \in DOMAIN tiles |-> FlattenSeq([b \in DOMAIN tiles[s] |->
    LET m == np[s][b]
        longer == packs(pr) * (tiles[s][b] % m)          \* CTAs with a tile more
    IN [j \in 1 .. packs(pr) * m |->
          (tiles[s][b] \div m + IF j <= longer THEN 1 ELSE 0) * tile
            + 100 * (IF m > 1 THEN PartTiles ELSE CtaTiles)]])])

Dispatched(costs, cus) ==
  FoldLeft(LAMBDA free, c :
             LET u == CHOOSE u \in 1 .. cus : \A v \in 1 .. cus : free[u] <= free[v]
             IN [free EXCEPT ![u] = @ + c],
           [u \in 1 .. cus |-> 0], SortSeq(costs, LAMBDA x, y : x > y))

modelled_time(pr, tiles, np, rows) ==
  LET splits == {x \in Blocks(np) : np[x[1]][x[2]] > 1}
      base == IF rows = MaxWaveRows THEN 100 ELSE pr.few_cost
      slower == IF rows = MaxWaveRows THEN pr.split_cost ELSE pr.few_split_cost
      tile == IF splits # {} \/ pr.lse THEN (base * slower) \div 100 ELSE base
      merge == (MergeTiles * packs(pr) * MapThenSumSet(LAMBDA x : np[x[1]][x[2]], splits)) \div pr.cus
  IN 100 * merge + Max({0} \cup ToSet(Dispatched(CtaCosts(pr, tiles, np, tile), pr.cus)))

Beats(time, best) == best = -1 \/ SplitMinGain * time <= 100 * best

-----------------------------------------------------------------------------
(* dev_plan: the stand-in call of n sequences (the longest, the rest even),*)
(* and the first of the candidates no later one beats.                     *)
StandIn(pr, n, mq, mk, tq, tk) ==
  LET rest == IF n > 1 THEN [sq |-> (tq - mq) \div (n - 1), skv |-> (tk - mk) \div (n - 1)]
              ELSE [sq |-> 0, skv |-> 0]
  IN [pr EXCEPT !.seqs =
        [i \in 1 .. n |-> [b |-> 0, q0 |-> 0, kv0 |-> 0,
                           sq |-> IF i = 1 THEN mq ELSE rest.sq, skv |-> IF i = 1 THEN mk ELSE rest.skv]]]

Candidates(pr, n, mq, tq) ==
  LET Items(rows, P) == max_blocks(n, mq, tq, pr.pack, rows) * packs(pr) * P
      most == IF Items(MaxWaveRows, 1) <= SplitMaxRounds * pr.cus THEN MaxParts ELSE 1
  IN SelectSeq(FlattenSeq([P \in 1 .. most |->
                 <<[rows |-> MaxWaveRows, parts |-> P], [rows |-> FewRows, parts |-> P]>>]),
               LAMBDA x : x.parts = 1 \/ Items(x.rows, x.parts) <= DevSplitRounds * pr.cus)

Faster(x, time, best) == IF Beats(time, best.time) THEN [time |-> time, of |-> x] ELSE best

(* The list of the won rows and parts; none if it cannot be counted.       *)
DevList(pr, n, mq, tq, won) ==
  LET items == max_blocks(n, mq, tq, pr.pack, won.rows) * packs(pr)
      fits == /\ items * (won.parts + 1) <= IntMax \div ItemBytes
              /\ n * num_q_blocks(mq, pr.pack, won.rows) <= IntMax
  IN [rows |-> won.rows, parts |-> won.parts, ctas |-> IF fits THEN items * won.parts ELSE 0,
      merges |-> IF fits /\ won.parts > 1 THEN items ELSE 0]

dev_plan(pr, n, mq, mk, tq, tk) ==
  LET call == StandIn(pr, n, mq, mk, tq, tk)
      Time(x) == LET tiles == all_tiles(call, x.rows)
                 IN modelled_time(call, tiles, InParts(x.parts, tiles), x.rows)
      won == FoldLeft(LAMBDA best, x : Faster(x, Time(x), best),
                      [time |-> -1, of |-> [rows |-> MaxWaveRows, parts |-> 1]],
                      Candidates(pr, n, mq, tq))
  IN DevList(pr, n, mq, tq, won.of)
=============================================================================
