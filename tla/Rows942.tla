------------------------------ MODULE Rows942 ------------------------------
(***************************************************************************)
(* What a wave of the gfx942 attention kernel does to its rows' scores     *)
(* (csrc/gfx942/attention_kernel.hip: softmax, softmax_update, the         *)
(* epilogue, merge_parts).  A wave has groups of rows; each row's keys of a*)
(* block are spread over lanes, one a quad.  A lane sums its own keys; all *)
(* lanes of a row share its running maximum, m.  Scores are whole numbers  *)
(* of log2 units, and a sum is its terms' exponents by key, <<block,       *)
(* quad>>, so that rescaling it is adding to each.                         *)
(***************************************************************************)
EXTENDS Integers, Sequences, FiniteSets, FiniteSetsExt, SequencesExt, Functions, TLC

CONSTANTS RescaleThreshold,  \* 0, or what the build is given
          Thr,               \* the lite call's threshold, below 0
          Scores,            \* a score's values
          RowShapes          \* bounded inputs: [groups, rows, quads, blocks]

ASSUME RowsAssumption == RescaleThreshold \in Nat /\ Thr < 0 /\ Scores \subseteq Int

NoMax == -1000                                \* -FLT_MAX, of a row with no block yet
ASSUME ScoresAboveNoMax == \A s \in Scores : s > NoMax + 100

Shifted(sum, by) == [key \in DOMAIN sum |-> sum[key] + by]

(* A group's rows before the first block.  s[r][q] is a lane's score.      *)
FirstRows(shape) ==
  [m |-> [r \in 1 .. shape.rows |-> NoMax],
   l |-> [r \in 1 .. shape.rows |-> <<>>], o |-> [r \in 1 .. shape.rows |-> <<>>]]

Highest(s, r) == Max(Range(s[r]))

(* softmax_update of one group: in the usual case no lane has outgrown its *)
(* row's maximum, and nothing moves; else every row's does.                *)
AllOk(st, s) ==
  \A r \in DOMAIN s : st.m[r] # NoMax /\ \A q \in DOMAIN s[r] : s[r][q] - st.m[r] < RescaleThreshold

MovedMax(st, s) == [r \in DOMAIN s |-> Max({st.m[r], Highest(s, r)})]
NewMax(st, s) == IF AllOk(st, s) THEN st.m ELSE MovedMax(st, s)

softmax_update(st, s, block) ==
  LET m == NewMax(st, s)
      by(r) == IF st.m[r] = NoMax THEN 0 ELSE st.m[r] - m[r]
      added(sum, r) == Shifted(sum, by(r)) @@ [key \in {block} \X DOMAIN s[r] |-> s[r][key[2]] - m[r]]
  IN [m |-> m, l |-> [r \in DOMAIN s |-> added(st.l[r], r)], o |-> [r \in DOMAIN s |-> added(st.o[r], r)]]

(* softmax's vote in a lite call: keep while a lane of a valid group is    *)
(* within Thr of its row's maximum; the first block always.                *)
skip_wave(wave, s, valid, step) ==
  step # 0 /\ \A g \in valid : \A r \in DOMAIN s[g] : \A q \in DOMAIN s[g][r] :
                s[g][r][q] - wave[g].m[r] <= Thr

(* softmax of step's block, and the PV that follows.                       *)
Softmax942(wave, s, lite, valid, step, block) ==
  IF lite /\ skip_wave(wave, s, valid, step) THEN wave
  ELSE [g \in DOMAIN wave |-> softmax_update(wave[g], s[g], block)]

(* A wave over a walk; s is [block -> group -> row -> quad -> score].      *)
Attended(shape, walk, s, lite, valid) ==
  LET done[n \in 0 .. Len(walk)] ==
        IF n = 0 THEN [g \in 1 .. shape.groups |-> FirstRows(shape)]
        ELSE Softmax942(done[n - 1], s[walk[n]], lite, valid, n - 1, walk[n])
  IN done[Len(walk)]

(* merge_parts of a row: the parts' sums, moved to the highest maximum.    *)
MergedRow(parts, g, r) ==
  LET top == Max({parts[p][g].m[r] : p \in DOMAIN parts})
      joined(field) == FoldLeft(LAMBDA acc, x : acc @@ Shifted(x[g][field][r], x[g].m[r] - top), <<>>, parts)
  IN [m |-> top, l |-> joined("l"), o |-> joined("o")]

-----------------------------------------------------------------------------
(* The bounded inputs, and what a row must end as.                         *)
ScoresOf(shape) ==
  [1 .. shape.blocks -> [1 .. shape.groups -> [1 .. shape.rows -> [1 .. shape.quads -> Scores]]]]
KeysOf(shape) == (1 .. shape.blocks) \X (1 .. shape.quads)
ScoreOf(s, g, r, key) == s[key[1]][g][r][key[2]]
InOrder(n) == [i \in 1 .. n |-> i]
Strided(n, first, ways) == SelectSeq(InOrder(n), LAMBDA b : (b - 1) % ways = first)

(* Each of these keys once, O and sum alike, at its weight in one frame no *)
(* score exceeds by more than the rescale threshold.                       *)
RowIs(shape, row, s, g, r, keys) ==
  /\ row.l = row.o /\ DOMAIN row.l = keys
  /\ \A key \in keys : /\ row.l[key] = ScoreOf(s, g, r, key) - row.m
                       /\ row.l[key] <= RescaleThreshold

RowOf(wave, g, r) == [m |-> wave[g].m[r], l |-> wave[g].l[r], o |-> wave[g].o[r]]

DenseExact(shape) ==
  \A s \in ScoresOf(shape) :
    LET wave == Attended(shape, InOrder(shape.blocks), s, FALSE, {}) IN
    \A g \in 1 .. shape.groups, r \in 1 .. shape.rows :
      RowIs(shape, RowOf(wave, g, r), s, g, r, KeysOf(shape))

SplitExact(shape) ==
  \A s \in ScoresOf(shape), ways \in 2 .. shape.blocks :
    LET parts == [p \in 1 .. ways |->
                    Attended(shape, Strided(shape.blocks, p - 1, ways), s, FALSE, {})]
    IN \A g \in 1 .. shape.groups, r \in 1 .. shape.rows :
         RowIs(shape, MergedRow(parts, g, r), s, g, r, KeysOf(shape))

(* A lite call leaves out whole blocks, of scores at least -Thr below the  *)
(* row's maximum, in every row of a valid group.                           *)
LiteExact(shape) ==
  \A s \in ScoresOf(shape), valid \in SUBSET (1 .. shape.groups) :
    LET wave == Attended(shape, InOrder(shape.blocks), s, TRUE, valid)
        kept == {key[1] : key \in DOMAIN wave[1].l[1]}
    IN \A g \in 1 .. shape.groups, r \in 1 .. shape.rows :
         /\ g \in valid => RowIs(shape, RowOf(wave, g, r), s, g, r,
                                 kept \X (1 .. shape.quads))
         /\ g \in valid => \A key \in KeysOf(shape) :
              key[1] \notin kept => ScoreOf(s, g, r, key) - wave[g].m[r] <= Thr

ExactModes ==
  {mode \in {"dense", "split", "lite"} : \A shape \in RowShapes :
     CASE mode = "dense" -> DenseExact(shape)
       [] mode = "split" -> SplitExact(shape)
       [] mode = "lite" -> LiteExact(shape)}
=============================================================================
