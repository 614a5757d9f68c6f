------------------------------ MODULE MlaDecode -----------------------------
(***************************************************************************)
(* One CTA of the gfx942 MLA decode kernel (csrc/gfx942/                   *)
(* mla_decode_a16w8.hip, wave_body): five KV tiles in flight, each thing   *)
(* between two stages in a buffer of two picked by the step's parity.  In  *)
(* step n the fill waves load tile n + 3 and store n + 1 to LDS, the query *)
(* tiles' waves contract tile n and fold n - 1 in their softmax, and every *)
(* wave accumulates P V of tile n - 2 for all query tiles.                 *)
(*                                                                         *)
(* A buffer's content is the number of the tile it came from.  Waves run   *)
(* freely between the barriers that end the steps.                         *)
(***************************************************************************)
EXTENDS DecodeEntry, DecodeLanes

CONSTANTS QueryWaves,   \* waves 0 .. NT - 1, one per query tile
          FillWaves,    \* those that stage KV
          IdleWaves,    \* any others: they only accumulate
          RescaleStride,  \* query tiles a row of s_rescale has room for
          Calls,        \* the launches followed
          NoCall        \* none: the launch is read

Waves == QueryWaves \cup FillWaves \cup IdleWaves

ASSUME WavesAssumption ==
  /\ QueryWaves \cap FillWaves = {} /\ QueryWaves \cap IdleWaves = {}
  /\ FillWaves \cap IdleWaves = {} /\ FillWaves # {}
  /\ IsFiniteSet(Waves) /\ Waves = 0 .. Cardinality(Waves) - 1

(* The CTA has a thread for each rescale of both planes.                   *)
ASSUME RescaleAssumption ==
  /\ RescaleStride \in Nat /\ \A t \in QueryWaves : t < RescaleStride
  /\ 2 * (MfmaTile * RescaleStride) <= Cardinality(Waves) * WaveSize

ASSUME CallsAssumption ==
  \A c \in Calls : IsCall(c) /\ c.nt = Cardinality(QueryWaves)

VARIABLES
  call,       \* the launch, before its CTA has read its work
  work,       \* the CTA's: [tiles, live], its KV tiles and query tiles with rows
  pc, step,   \* per wave: its place in its step, and the step
  s_kv,       \* LDS: per slot and fill wave, the tile in its rows
  s_prob,     \* LDS: per plane and query tile, the tile of the probabilities
  s_rescale,  \* LDS: per plane and query tile, the tile of the rescale
  pool_row,   \* per fill wave and buffer: the tile whose pool rows it has resolved
  fill_reg,   \* per fill wave and buffer: the tile loaded
  v,          \* per wave and buffer: the V fragment's tile
  k0,         \* per query wave: the tile of its first K fragments
  scores,     \* per query wave: the tile contracted
  folded,     \* per query wave: the last tile its softmax has folded in
  rescale,    \* per wave and query tile: the rescale read in this step
  pv          \* per wave and query tile: the last tile accumulated

vars == <<call, work, pc, step, s_kv, s_prob, s_rescale, pool_row, fill_reg,
          v, k0, scores, folded, rescale, pv>>
lds == <<s_kv, s_prob, s_rescale>>
filling == <<pool_row, fill_reg>>
contracting == <<k0, scores, folded>>

Buffers == 0 .. 1
LookAhead == 2
Before == -1         \* the step a wave is in before step 0
Zero == -1           \* what is cleared at the start: a probability or V of 0, a rescale of 1
Garbage == -2        \* never written, or rows of more than one tile

Places == {"launch", "prologue", "wait", "begin", "softmax", "pv", "fetch", "fill", "contract",
           "drain", "end"}

tiles == work.tiles
Slot(n) ==
  LET in == {s_kv[n][f] : f \in FillWaves} IN
  IF Cardinality(in) = 1 THEN CHOOSE x \in in : TRUE ELSE Garbage

(* A query tile's wave contracts when the tile has rows; the kernel built  *)
(* for launches without a partial tail does not ask.                       *)
partial_tail(c) == slices_of(c) = 1 /\ (c.q_len * c.H) % rows(c) # 0
tile_live(t) == work.all \/ t < work.live

-----------------------------------------------------------------------------
Init ==
  /\ call \in UNION {{[of |-> c, rank |-> r] : r \in 0 .. c.world - 1} : c \in Calls}
  /\ work = [tiles |-> 0, live |-> 0, all |-> FALSE]
  /\ pc = [w \in Waves |-> "launch"] /\ step = [w \in Waves |-> Before]
  /\ s_kv = [n \in Buffers |-> [f \in FillWaves |-> Garbage]]
  /\ s_prob = [n \in Buffers |-> [t \in QueryWaves |-> Garbage]]
  /\ s_rescale = s_prob
  /\ pool_row = [f \in FillWaves |-> [b \in Buffers |-> Zero]] /\ fill_reg = pool_row
  /\ v = [w \in Waves |-> [b \in Buffers |-> Zero]]
  /\ k0 = [t \in QueryWaves |-> Garbage] /\ scores = k0
  /\ folded = [t \in QueryWaves |-> Zero]
  /\ rescale = [w \in Waves |-> [t \in QueryWaves |-> Zero]] /\ pv = rescale

(* Some CTA of the grid: one without rows, or of a unit no request has,    *)
(* returns at once; another's request, part and slice give its walk.       *)
Start(cta) ==
  /\ call # NoCall
  /\ LET c == call.of
         o == owner(c, call.rank, unit_of(c, cta))
         idle == live_rows(c, slice_of(c, cta)) <= 0 \/ o.req >= c.B
     IN /\ pc' = [w \in Waves |-> IF idle THEN "end" ELSE "prologue"]
        /\ work' = IF idle THEN work
                   ELSE [tiles |-> kv_tiles(kv_len(c, call.rank, o.req),
                                            unit_of(c, cta) - o.first, o.count),
                         live |-> live_tiles(c, slice_of(c, cta)),
                         all |-> ~partial_tail(c)]
  /\ call' = NoCall
  /\ UNCHANGED <<step, lds, filling, contracting, v, rescale, pv>>

Goto(w, place) == pc' = [pc EXCEPT ![w] = place]

(* The fill's registers f = [row, reg].  Past the last tile nothing moves. *)
FillOf(w) == [row |-> pool_row[w], reg |-> fill_reg[w]]
resolve_row(f, it, buf) == IF it >= tiles THEN f ELSE [f EXCEPT !.row[buf] = it]
fill_load(f, it, buf, row) == IF it >= tiles THEN f ELSE [f EXCEPT !.reg[buf] = f.row[row]]
fill_store(w, f, it, buf, slot) ==
  IF it >= tiles THEN s_kv ELSE [s_kv EXCEPT ![slot][w] = f.reg[buf]]

Keep(w, f) ==
  /\ pool_row' = [pool_row EXCEPT ![w] = f.row]
  /\ fill_reg' = [fill_reg EXCEPT ![w] = f.reg]

(* Tile 0 straight to LDS, which frees buffer 1; tiles 1 and 2 in flight,  *)
(* tile 3's rows resolved.                                                 *)
FillPrologue(w) ==
  LET f0 == fill_load(resolve_row(FillOf(w), 0, 0), 0, 1, 0)
      f1 == fill_load(resolve_row(f0, 1, 0), 1, 0, 0)
      f2 == fill_load(resolve_row(f1, 2, 0), 2, 1, 0)
  IN /\ s_kv' = fill_store(w, f0, 0, 1, 0)
     /\ Keep(w, resolve_row(f2, 3, 1))

(* A wave clears the elements its threads' numbers fall on: of s_prob all  *)
(* lanes' of a query tile, of s_rescale some rows, whose other rows may be *)
(* other waves'.  A tile's rescales are 1 once all its rows are.           *)
Clears(w, n, t) == (n * Cardinality(QueryWaves) + t) % Cardinality(Waves) = w
Cleared(w) ==
  [n \in Buffers |-> [t \in QueryWaves |-> IF Clears(w, n, t) THEN Zero ELSE s_prob[n][t]]]

ClearsRescale(w, n, t) ==
  \E row \in 0 .. MfmaTile - 1 :
    ((n * MfmaTile + row) * RescaleStride + t) \div WaveSize = w
ClearsLast(w, n, t) ==
  /\ ClearsRescale(w, n, t)
  /\ \A u \in Waves \ {w} : ClearsRescale(u, n, t) => pc[u] # "prologue"
RescaleCleared(w) ==
  [n \in Buffers |-> [t \in QueryWaves |->
     IF ClearsLast(w, n, t) THEN Zero ELSE s_rescale[n][t]]]

Prologue(w) ==
  /\ pc[w] = "prologue"
  /\ IF w \in FillWaves THEN FillPrologue(w) ELSE UNCHANGED <<filling, s_kv>>
  /\ s_prob' = Cleared(w) /\ s_rescale' = RescaleCleared(w)
  /\ Goto(w, "wait")
  /\ UNCHANGED <<call, work, step, contracting, v, rescale, pv>>

-----------------------------------------------------------------------------
parity(w) == step[w] % 2

(* read_rescales, resolve_row, and the first K fragments.                  *)
Begin(w) ==
  /\ pc[w] = "begin"
  /\ rescale' = [rescale EXCEPT ![w] = s_rescale[parity(w)]]
  /\ IF w \in FillWaves
     THEN Keep(w, resolve_row(FillOf(w), step[w] + 2 + LookAhead, parity(w)))
     ELSE UNCHANGED filling
  /\ k0' = IF w \in QueryWaves /\ tile_live(w) THEN [k0 EXCEPT ![w] = Slot(parity(w))] ELSE k0
  /\ Goto(w, IF w \in QueryWaves /\ tile_live(w) /\ step[w] > 0 THEN "softmax" ELSE "pv")
  /\ UNCHANGED <<call, work, step, lds, scores, folded, v, pv>>

(* The plane the next step's PV consumes.                                  *)
NextPlane(w) == 1 - parity(w)

run_softmax(w) ==
  /\ pc[w] = "softmax"
  /\ folded' = [folded EXCEPT ![w] = scores[w]]
  /\ s_prob' = [s_prob EXCEPT ![NextPlane(w)][w] = scores[w]]
  /\ s_rescale' = [s_rescale EXCEPT ![NextPlane(w)][w] = scores[w]]
  /\ Goto(w, "pv")
  /\ UNCHANGED <<call, work, step, s_kv, filling, k0, scores, v, rescale, pv>>

(* Every wave accumulates its output dims of all query tiles.              *)
Accumulated(w, plane) ==
  [pv EXCEPT ![w] = [t \in QueryWaves |->
                       IF s_prob[plane][t] = Zero THEN @[t] ELSE s_prob[plane][t]]]

accumulate_pv(w) ==
  /\ pc[w] = "pv"
  /\ pv' = Accumulated(w, parity(w))
  /\ Goto(w, "fetch")
  /\ UNCHANGED <<call, work, step, lds, filling, contracting, v, rescale>>

fetch_v(w) ==
  /\ pc[w] = "fetch"
  /\ v' = [v EXCEPT ![w][parity(w)] = Slot(parity(w))]
  /\ Goto(w, IF w \in FillWaves THEN "fill"
             ELSE IF w \in QueryWaves /\ tile_live(w) THEN "contract" ELSE "wait")
  /\ UNCHANGED <<call, work, step, lds, filling, contracting, rescale, pv>>

(* The store frees the buffer the load then fills.                         *)
FillLoadsFirst(w) ==                                \* mutant: loaded over what is to be stored
  LET f == fill_load(FillOf(w), step[w] + 1 + LookAhead, parity(w), 1 - parity(w)) IN
  /\ pc[w] = "fill"
  /\ s_kv' = fill_store(w, f, step[w] + 1, parity(w), 1 - parity(w))
  /\ Keep(w, f)
  /\ Goto(w, "wait")
  /\ UNCHANGED <<call, work, step, s_prob, s_rescale, contracting, v, rescale, pv>>

Fill(w) ==
  LET f == FillOf(w) IN
  /\ pc[w] = "fill"
  /\ s_kv' = fill_store(w, f, step[w] + 1, parity(w), 1 - parity(w))
  /\ Keep(w, fill_load(f, step[w] + 1 + LookAhead, parity(w), 1 - parity(w)))
  /\ Goto(w, "wait")
  /\ UNCHANGED <<call, work, step, s_prob, s_rescale, contracting, v, rescale, pv>>

contract_qk(w) ==
  /\ pc[w] = "contract"
  /\ scores' = [scores EXCEPT ![w] = IF Slot(parity(w)) = k0[w] THEN k0[w] ELSE Garbage]
  /\ Goto(w, "wait")
  /\ UNCHANGED <<call, work, step, lds, filling, k0, folded, v, rescale, pv>>

(* The walk: step 0, then pairs of steps (odd, even) while the odd one is  *)
(* below the tiles, then an odd one alone if one is left.                  *)
InPair(n) == n < tiles
StepAfter(n) ==
  IF n = Before THEN 0
  ELSE IF n % 2 = 1 THEN (IF InPair(n) THEN n + 1 ELSE Before)
  ELSE IF InPair(n + 1) \/ n + 1 <= tiles THEN n + 1 ELSE Before

(* lgkmcnt(0) and s_barrier: what a wave wrote and read in LDS is done.    *)
tile_barrier ==
  /\ \A w \in Waves : pc[w] = "wait"
  /\ step' = [w \in Waves |-> StepAfter(step[w])]
  /\ pc' = [w \in Waves |-> IF step'[w] = Before THEN "drain" ELSE "begin"]
  /\ UNCHANGED <<call, work, lds, filling, contracting, v, rescale, pv>>

(* The last PV the walk owes, from the buffers the last step filled; then  *)
(* the partials are stored.                                                *)
DrainParity == IF tiles % 2 = 1 THEN 0 ELSE 1
Drain(w) ==
  /\ pc[w] = "drain"
  /\ IF tiles > 0
     THEN pv' = Accumulated(w, DrainParity) /\ rescale' = [rescale EXCEPT ![w] = s_rescale[DrainParity]]
     ELSE UNCHANGED <<pv, rescale>>
  /\ Goto(w, "end")
  /\ UNCHANGED <<call, work, step, lds, filling, contracting, v>>

Step(w) ==
  \/ Prologue(w) \/ Begin(w) \/ accumulate_pv(w) \/ fetch_v(w) \/ Drain(w)
  \/ w \in FillWaves /\ Fill(w)
  \/ w \in QueryWaves /\ (run_softmax(w) \/ contract_qk(w))

Done == (\A w \in Waves : pc[w] = "end") /\ UNCHANGED vars

Next ==
  \/ call # NoCall /\ \E cta \in 0 .. n_ctas(call.of) - 1 : Start(cta)
  \/ \E w \in Waves : Step(w)
  \/ tile_barrier
  \/ Done

Spec == Init /\ [][Next]_vars
-----------------------------------------------------------------------------
(* Each row's softmax folds tiles 0, 1, 2, ... of the CTA's part in order, *)
(* and each accumulator of each wave takes them in the same order, with    *)
(* the probabilities, the rescale and V of one tile: nothing is read a     *)
(* step early or late, and where the probabilities are still 0 so is V     *)
(* (not LDS nobody has written).  At its end the walk has done them all.   *)
DueAt(n) == IF n - 2 < 0 THEN Zero ELSE n - 2
Pairs(w, plane, read, due) ==
  /\ v[w][plane] = due
  /\ \A t \in QueryWaves :
       LET p == IF tile_live(t) THEN due ELSE Zero IN
       /\ s_prob[plane][t] = p /\ read[t] = p
       /\ p # Zero => pv[w][t] = p - 1

AccumulatesInOrder ==
  \A w \in Waves :
    /\ pc[w] = "softmax" => scores[w] = step[w] - 1 /\ folded[w] = step[w] - 2
    /\ pc[w] = "pv" => Pairs(w, parity(w), rescale[w], DueAt(step[w]))
    /\ pc[w] = "drain" /\ tiles > 0 =>
         Pairs(w, DrainParity, s_rescale[DrainParity], tiles - 1)
    /\ pc[w] = "end" => \A t \in QueryWaves : tile_live(t) =>
         pv[w][t] = tiles - 1 /\ folded[t] = tiles - 1

(* Over all ranks and parts, the merged row of a draft position has counted*)
(* each position it may attend once, and none past it: the split by rank,  *)
(* part and tile, the tail tile and the causal masks lose and repeat none. *)
EveryPositionOnce ==
  call # NoCall =>
    LET c == call.of IN
    \A i \in Requests(c), row \in 0 .. c.q_len * c.H - 1 :
      CountsOnce(c, i, row, [r \in 0 .. c.world - 1 |-> units(c, r, i)])

(* The merge reads the partials of exactly the CTAs that computed its      *)
(* request's parts: the unit decode took from owner is the one the merge   *)
(* counts to, no unit is past the grid or the merge's weights, and no CTA  *)
(* with work is left out.                                                  *)
MergeReadsItsParts == call # NoCall => MergeReads(call.of, call.rank)

(* What a lane stores is where the next stage's lane reads it: a token's   *)
(* bytes in LDS whatever the number of fill waves, the operands' tokens and*)
(* dims, and each row's partials, which the workspace has room for however *)
(* the call's length hint made the tile come out.  The lanes' places do not*)
(* depend on the call: they are compared for one.                          *)
OneToken(c) == c.B = 1 /\ c.world = 1 /\ c.glen[0] = 1

StoredWhereRead ==
  call # NoCall =>
    /\ PartialsMeet(call.of, call.rank)
    /\ OneToken(call.of) => SoundTiles = 1 .. MaxNTiles
=============================================================================
