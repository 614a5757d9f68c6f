------------------------------ MODULE HostPlan ------------------------------
(***************************************************************************)
(* The host planner (csrc/gfx950/attention_plan.hpp, namespace host, 1 to  *)
(* 3): wave rows and a KV split chosen by modelled time (plan_split), the  *)
(* CTAs listed (list_ctas) and put in launch order over the XCDs           *)
(* (launch_order), and the work items and merge items of the plan (plan).  *)
(* Times are whole units: 100 to a KV tile of the most wave rows.          *)
(***************************************************************************)
EXTENDS PlanTime

CONSTANTS NumXcd, AlignRounds, LptBytes, MaxLptUnits

VARIABLES
  p,       \* the problem, its empty sequences removed; allow_split
  round,   \* k, the rounds to fill
  wide,    \* whether the candidate has MaxWaveRows
  parts,   \* per wave rows, sequence and q block: its parts
  gained,  \* some q block gained a part for this candidate
  best,    \* the best candidate yet: [time, rows, parts]
  phase,   \* "idle", "fill", "list", "order", "done"
  ctas     \* the CTAs, listed and then in launch order

vars == <<p, round, wide, parts, gained, best, phase, ctas>>

RowChoices == {MaxWaveRows, FewRows}
RowsOf(w) == IF w THEN MaxWaveRows ELSE FewRows
NoPlan == [time |-> -1, rows |-> MaxWaveRows, parts |-> <<>>]
NoProblem == [seqs |-> <<>>]

Init ==
  /\ p = NoProblem /\ round = 0 /\ wide = TRUE /\ parts = <<>> /\ gained = FALSE
  /\ best = NoPlan /\ phase = "idle" /\ ctas = <<>>

(* plan of problem pr: every q block starts whole.  A device whose CUs     *)
(* cannot be counted takes that division as it is.                         *)
Plan(pr, allow_split) ==
  LET q == [allow_split |-> allow_split] @@ [pr EXCEPT !.seqs = SelectSeq(@, LAMBDA x : x.sq # 0)]
      whole == [rows \in RowChoices |-> InParts(1, all_tiles(q, rows))]
  IN /\ p' = q
     /\ round' = 0 /\ wide' = TRUE /\ gained' = FALSE
     /\ parts' = whole
     /\ best' = IF q.cus <= 0 THEN [NoPlan EXCEPT !.parts = whole[MaxWaveRows]] ELSE NoPlan
     /\ phase' = (IF q.cus <= 0 THEN "list" ELSE "fill")
     /\ ctas' = <<>>

-----------------------------------------------------------------------------
(* plan_split's fill: the q block with the longest parts, the last of them *)
(* on a tie, gains a part, unless it has its most or the rounds are full.  *)
Longest(tiles, np) ==
  CHOOSE x \in Blocks(tiles) : \A y \in Blocks(tiles) \ {x} :
    LET long == tiles[x[1]][x[2]] * np[y[1]][y[2]]
        short == tiles[y[1]][y[2]] * np[x[1]][x[2]]
    IN long > short \/ (long = short /\ (x[1] > y[1] \/ (x[1] = y[1] /\ x[2] > y[2])))

MostParts(t) == Least(MaxParts, t)

trial == RowsOf(wide)
Fillable ==
  LET x == Longest(all_tiles(p, trial), parts[trial]) IN
  /\ Blocks(parts[trial]) # {}
  /\ CtaCount(p, parts[trial]) + packs(p) <= round * p.cus
  /\ parts[trial][x[1]][x[2]] # MostParts(all_tiles(p, trial)[x[1]][x[2]])

Gain ==
  LET x == Longest(all_tiles(p, trial), parts[trial]) IN
  /\ phase = "fill" /\ Fillable
  /\ parts' = [parts EXCEPT ![trial][x[1]][x[2]] = @ + 1]
  /\ gained' = TRUE
  /\ UNCHANGED <<p, round, wide, best, phase, ctas>>

(* A filled candidate is timed and kept if it wins by SplitMinGain; then   *)
(* the next one, or the list.                                              *)
Consider ==
  LET time == modelled_time(p, all_tiles(p, trial), parts[trial], trial) IN
  /\ phase = "fill" /\ ~Fillable
  /\ best' = IF (round = 0 \/ gained) /\ Beats(time, best.time)
             THEN [time |-> time, rows |-> trial, parts |-> parts[trial]] ELSE best
  /\ gained' = FALSE
  /\ wide' = ~wide
  /\ round' = IF wide THEN round ELSE round + 1
  /\ phase' = IF ~wide /\ round = (IF p.allow_split THEN SplitMaxRounds ELSE 0) THEN "list" ELSE "fill"
  /\ UNCHANGED <<p, parts, ctas>>

-----------------------------------------------------------------------------
(* list_ctas: a part's first tile, at a multiple of the longest part when  *)
(* every last part of that count keeps half of it (align).                 *)
Width(m, tiles) ==
  Max({0} \cup {CeilDiv(tiles[x[1]][x[2]], m) : x \in {x \in Blocks(tiles) : best.parts[x[1]][x[2]] = m}})
Fewest(m, tiles) ==
  Min({tiles[x[1]][x[2]] : x \in {x \in Blocks(tiles) : best.parts[x[1]][x[2]] = m}})

Aligned(m, tiles) ==
  /\ CtaCount(p, best.parts) >= AlignRounds * p.cus
  /\ 2 * Fewest(m, tiles) >= (2 * m - 1) * Width(m, tiles)

PartLo(j, m, t, tiles) ==
  IF Aligned(m, tiles) THEN Least(j * Width(m, tiles), t) ELSE part_lo(j, m, t)

SlotsBeforeInUnit(s, h, b) ==                    \* mutant: the other head packs not counted
  LET P(x) == IF best.parts[x[1]][x[2]] > 1 THEN best.parts[x[1]][x[2]] ELSE 0 IN
  packs(p) * MapThenSumSet(P, {x \in Blocks(best.parts) : x[1] < s})
    + MapThenSumSet(P, {x \in Blocks(best.parts) : x[1] = s /\ x[2] > b})

SlotsBefore(s, h, b) ==         \* slots of the q blocks listed before, last q block first
  LET P(x) == IF best.parts[x[1]][x[2]] > 1 THEN best.parts[x[1]][x[2]] ELSE 0 IN
  packs(p) * MapThenSumSet(P, {x \in Blocks(best.parts) : x[1] < s})
    + h * MapThenSumSet(P, {x \in Blocks(best.parts) : x[1] = s})
    + MapThenSumSet(P, {x \in Blocks(best.parts) : x[1] = s /\ x[2] > b})

list_ctas(tiles) ==
  FlattenSeq([s \in DOMAIN tiles |-> FlattenSeq([h \in 1 .. packs(p) |->
    FlattenSeq([d \in 1 .. Len(tiles[s]) |->
      LET b == Len(tiles[s]) + 1 - d
          m == best.parts[s][b]
          t == tiles[s][b]
      IN [j \in 1 .. m |->
            [unit |-> (s - 1) * packs(p) + h - 1, seq |-> s, head0 |-> (h - 1) * p.pack, block |-> b - 1,
             lo |-> PartLo(j - 1, m, t, tiles),
             len |-> PartLo(j, m, t, tiles) - PartLo(j - 1, m, t, tiles),
             part |-> j - 1, parts |-> m,
             slot |-> IF m > 1 THEN SlotsBefore(s, h - 1, b) + j - 1 ELSE -1]]])])])

List ==
  /\ phase = "list"
  /\ ctas' = list_ctas(all_tiles(p, best.rows))
  /\ phase' = "order"
  /\ UNCHANGED <<p, round, wide, parts, gained, best>>

-----------------------------------------------------------------------------
(* longest_first: a stable counting sort, filled from the back.            *)
longest_first(in) ==
  LET lens == 0 .. Max({0} \cup {in[i].len : i \in DOMAIN in})
      end == [l \in lens |-> Cardinality({i \in DOMAIN in : in[i].len >= l})]
  IN FoldLeft(LAMBDA acc, c : [end |-> [acc.end EXCEPT ![c.len] = @ - 1],
                               out |-> [acc.out EXCEPT ![acc.end[c.len]] = c]],
              [end |-> end, out |-> in], Reverse(in)).out

Eighth(x) == SubSeq(ctas, (x * Len(ctas)) \div NumXcd + 1, ((x + 1) * Len(ctas)) \div NumXcd)
Tiles(cs) == FoldLeft(LAMBDA sum, c : sum + c.len, 0, cs)

(* Whether the list's eighths carry equal work, within a tile per CTA, 1%. *)
Ranges ==
  LET work == {Tiles(Eighth(x)) : x \in 0 .. NumXcd - 1} IN
  /\ ctas # <<>> /\ Len(ctas) % NumXcd = 0
  /\ Max(work) - Min(work) <= Len(ctas) \div NumXcd + Max(work) \div 100

(* The units whose K and V the L2s hold together.                          *)
fit == Most(1, Least(LptBytes \div (Max({1} \cup {x.skv : x \in ToSet(p.seqs)}) * p.kv_bytes), MaxLptUnits))

(* An eighth in groups of units, each longest first.                       *)
Grouped(cs) ==
  LET u0 == cs[1].unit
      units == cs[Len(cs)].unit - u0 + 1
      groups == IF \E i \in DOMAIN ctas : ctas[i].parts > 1 THEN 1 ELSE Most(1, units \div fit)
  IN FlattenSeq([g \in 1 .. groups |->
       longest_first(SelectSeq(cs, LAMBDA c : ((c.unit - u0) * groups) \div units = g - 1))])

TakeTurns(cs) ==
  [i \in 1 .. Len(cs) |-> cs[((i - 1) % NumXcd) * (Len(cs) \div NumXcd) + ((i - 1) \div NumXcd) + 1]]

launch_order ==
  IF ctas = <<>> THEN <<>>
  ELSE IF ~Ranges THEN longest_first(ctas)
  ELSE TakeTurns(FlattenSeq([x \in 1 .. NumXcd |-> Grouped(Eighth(x - 1))]))

Order ==
  /\ phase = "order"
  /\ ctas' = launch_order
  /\ phase' = "done"
  /\ UNCHANGED <<p, round, wide, parts, gained, best>>

Next == Gain \/ Consider \/ List \/ Order

(* plan's items, for CTAs and merges alike.                                *)
Item(c) ==
  LET s == p.seqs[c.seq] IN
  [b |-> s.b, q0 |-> s.q0, sq |-> s.sq, kv0 |-> s.kv0, skv |-> s.skv,
   chunk0 |-> first_chunk(c.block, s.sq, p.pack, best.rows), tile_lo |-> c.lo, tile_hi |-> c.lo + c.len,
   head0 |-> c.head0, slot |-> c.slot, num_parts |-> c.parts]

Work == [i \in DOMAIN ctas |-> Item(ctas[i])]
Merges == LET firsts == SelectSeq(ctas, LAMBDA c : c.parts > 1 /\ c.part = 0)
          IN [i \in DOMAIN firsts |-> Item(firsts[i])]
Slots == Cardinality({i \in DOMAIN ctas : ctas[i].slot >= 0})
-----------------------------------------------------------------------------
(* On one XCD a unit's CTAs start longest first; and unless the whole list *)
(* is longest first, each XCD has a run of units of its own (its L2).      *)
OrderKeepsLocality ==
  phase = "done" =>
    LET Xcd(i) == i % NumXcd IN
    /\ \A i, j \in DOMAIN ctas :
         i < j /\ Xcd(i) = Xcd(j) /\ ctas[i].unit = ctas[j].unit => ctas[i].len >= ctas[j].len
    /\ \/ \A i, j \in DOMAIN ctas : i < j => ctas[i].len >= ctas[j].len
       \/ \A i, j \in DOMAIN ctas : Xcd(i - 1) < Xcd(j - 1) => ctas[i].unit <= ctas[j].unit
=============================================================================
