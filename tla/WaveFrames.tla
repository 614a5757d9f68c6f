----------------------------- MODULE WaveFrames -----------------------------
(***************************************************************************)
(* The softmax of one wave of the gfx950 kernels (csrc/gfx950/             *)
(* attention.hip and attention_mla.hip, "frames" and "softmax"): scores    *)
(* relative to a frame per row, frames moved lazily and for all rows at    *)
(* once, O and the row sums that follow them, and rows with NaN scores.    *)
(*                                                                         *)
(* Scores are integers in S units, a frame integers in log2 units.  A sum  *)
(* of powers of two is kept as the exponents of its terms, by key, so that *)
(* a term added in one frame and left behind by another is seen.           *)
(***************************************************************************)
EXTENDS Integers, FiniteSetsExt, Functions

CONSTANTS Rows,        \* the wave's q rows, which share a lane's column
          KeysOfTile,  \* keys of a tile, from 0
          Lanes,       \* the lanes that share a row's scores
          Scale        \* scale_log2e

ASSUME FramesAssumption ==
  /\ Scale \in Nat \ {0}
  /\ IsFiniteSet(Rows) /\ IsFiniteSet(KeysOfTile) /\ KeysOfTile \subseteq Nat
  /\ Lanes = 0 .. Cardinality(Lanes) - 1 /\ Lanes # {} /\ IsFiniteSet(Lanes)

Frame0 == 10
RescaleThreshold == 8
RescaleHeadroom == 16

(* Floats: NaN compares above everything, as in an unordered test.         *)
NaN == 4000000
PlusInf == 2000000
MaxFinite == 1000000
NegInf == -100000
MaskScore == -300000
MinExp == -126            \* an exp2 below it is 0
MaxExp == 127             \* one above it is +inf

IsFinite(x) == x <= MaxFinite /\ -x <= MaxFinite
Neg(x) == IF x = NaN THEN NaN ELSE -x
Plus(x, y) ==
  IF NaN \in {x, y} \/ {x, y} = {PlusInf, -PlusInf} THEN NaN
  ELSE IF \E z \in {x, y} : ~IsFinite(z) THEN CHOOSE z \in {x, y} : ~IsFinite(z)
  ELSE x + y
Minus(x, y) == Plus(x, Neg(y))
Scaled(x) == IF IsFinite(x) THEN x * Scale ELSE x

(* max3, and maximum3 with keep_nan; MaskScore is always among the leaves. *)
DropMax(xs) == Max((xs \ {NaN}) \cup {MaskScore})
KeepMax(xs) == Max(xs \cup {MaskScore})

LaneOf(i) == i % Cardinality(Lanes)
InLane(s, g) == {s[i] : i \in {i \in KeysOfTile : LaneOf(i) = g}}

(* Sums of 2^e over keys; nan is NaN or +inf, twice the keys counted more  *)
(* than once.                                                              *)
NoKeys == [k \in {} |-> 0]
ZeroSum == [nan |-> FALSE, e |-> NoKeys, twice |-> {}]
NaNSum == [ZeroSum EXCEPT !.nan = TRUE]
Keep(f, P(_)) == Restrict(f, {k \in DOMAIN f : P(f[k])})
TimesExp2(x, d) ==
  IF d \in {NaN, PlusInf} THEN NaNSum
  ELSE IF d = -PlusInf THEN [x EXCEPT !.e = NoKeys]
  ELSE LET moved == [k \in DOMAIN x.e |-> x.e[k] + d] IN
       [nan |-> x.nan \/ \E k \in DOMAIN moved : moved[k] > MaxExp,
        e |-> Keep(moved, LAMBDA e : e >= MinExp), twice |-> x.twice]
Added(x, y) == [nan |-> x.nan \/ y.nan,
                e |-> [k \in DOMAIN x.e \cup DOMAIN y.e |->
                         IF k \in DOMAIN x.e THEN x.e[k] ELSE y.e[k]],
                twice |-> x.twice \cup y.twice \cup (DOMAIN x.e \cap DOMAIN y.e)]
Exp2(s, key0) ==          \* P of a tile's scores, by key
  LET p == [k \in {key0 + i : i \in KeysOfTile} |-> s[k - key0]] IN
  [nan |-> \E k \in DOMAIN p : p[k] > MaxExp,
   e |-> Keep(p, LAMBDA e : e >= MinExp /\ e <= MaxExp), twice |-> {}]

-----------------------------------------------------------------------------
(* A wave's registers: seed is -frame / scale, in S units; m the shifts of *)
(* the latest softmax, in log2 units.                                      *)
FirstFrames ==
  [seed |-> [r \in Rows |-> -(Frame0 \div Scale)],
   s |-> [r \in Rows |-> [i \in KeysOfTile |-> 0]],
   p |-> [r \in Rows |-> ZeroSum], o |-> [r \in Rows |-> ZeroSum], l |-> [r \in Rows |-> ZeroSum],
   moved |-> FALSE, m |-> [r \in Rows |-> 0]]

AnyNaN(p) == \E r \in Rows : p[r].nan

(* Row sums by sparse MFMA: the rows of a column share one, and 0 x NaN    *)
(* is NaN.                                                                 *)
row_sums(f) ==
  [f EXCEPT !.l = [r \in Rows |-> IF AnyNaN(f.p) THEN NaNSum ELSE Added(f.l[r], f.p[r])]]

pv(f) == [f EXCEPT !.o = [r \in Rows |-> Added(f.o[r], f.p[r])]]
qk(f, scores) ==
  [f EXCEPT !.s = [r \in Rows |-> [i \in KeysOfTile |-> Plus(scores[r][i], f.seed[r])]]]

(* Keys past their row's last: kv_limit counts from the tile's first key.  *)
mask_scores(f, kv_limit) ==
  [f EXCEPT !.s = [r \in Rows |-> [i \in KeysOfTile |->
                     IF i > kv_limit[r] THEN MaskScore ELSE f.s[r][i]]]]

(* First tile: once a lane has a score below 0 by itself, every row's      *)
(* frame moves to Frame0 above its own maximum.                            *)
shift_frames(f, shift) ==
  [f EXCEPT !.seed = [r \in Rows |-> Minus(f.seed[r], shift[r])],
            !.s = [r \in Rows |-> [i \in KeysOfTile |-> Minus(f.s[r][i], shift[r])]]]

set_row_frames(f) ==
  LET max(r) == DropMax(Range(f.s[r]))
      low == \E r \in Rows, g \in Lanes :
               LET m == DropMax(InLane(f.s[r], g)) IN m > NegInf /\ Scaled(m) < -Frame0
  IN IF ~low THEN f
     ELSE shift_frames(f, [r \in Rows |-> IF max(r) > NegInf THEN Minus(max(r), f.seed[r]) ELSE 0])

(* Later tiles: a score above its frame by the threshold, or NaN, in any   *)
(* lane.                                                                   *)
frames_outgrown_raw(f) ==                 \* mutant: a threshold not in S units
  \E r \in Rows, g \in Lanes : KeepMax(InLane(f.s[r], g)) > RescaleThreshold
frames_outgrown(f) ==
  \E r \in Rows, g \in Lanes : KeepMax(InLane(f.s[r], g)) > RescaleThreshold \div Scale

scale_scores(f) ==
  [f EXCEPT !.s = [r \in Rows |-> [i \in KeysOfTile |-> Scaled(f.s[r][i])]]]

(* Rows with a NaN or +inf score: no score, no shift, and a NaN row sum.   *)
mask_nonfinite_scores(f, bad) ==          \* mutant: the row sum is left for the row's P
  [f EXCEPT !.s = [r \in Rows |-> IF r \in bad THEN [i \in KeysOfTile |-> MaskScore] ELSE f.s[r]],
            !.m = [r \in Rows |-> IF r \in bad THEN 0 ELSE f.m[r]]]
mask_nonfinite(f, bad) ==
  [f EXCEPT !.s = [r \in Rows |-> IF r \in bad THEN [i \in KeysOfTile |-> MaskScore] ELSE f.s[r]],
            !.m = [r \in Rows |-> IF r \in bad THEN 0 ELSE f.m[r]],
            !.l = [r \in Rows |-> IF r \in bad THEN NaNSum ELSE f.l[r]]]

(* Scores follow at once, and A's row sums, which end before P(t).         *)
move_frames(f, scaled, sums_now) ==
  LET lane(r, g) == KeepMax(InLane(f.s[r], g))        \* in S units, from the test
      bad == {r \in Rows : \E g \in Lanes : lane(r, g) > MaxFinite}
      m == [r \in Rows |-> DropMax({Plus(Scaled(DropMax({lane(r, g) : g \in Lanes})), RescaleHeadroom), 0})]
      moved == [scaled EXCEPT
                  !.m = m,
                  !.s = [r \in Rows |-> [i \in KeysOfTile |-> Minus(scaled.s[r][i], m[r])]],
                  !.l = [r \in Rows |-> IF sums_now THEN TimesExp2(f.l[r], Neg(m[r])) ELSE f.l[r]]]
  IN IF bad = {} THEN moved ELSE mask_nonfinite(moved, bad)

(* The rest follows at the next block: seeds, O and B's row sums.          *)
follow_frames(f, sums_now) ==
  IF ~f.moved THEN f
  ELSE [f EXCEPT !.seed = [r \in Rows |-> Minus(f.seed[r], f.m[r] \div Scale)],
                 !.o = [r \in Rows |-> TimesExp2(f.o[r], Neg(f.m[r]))],
                 !.l = [r \in Rows |-> IF sums_now THEN f.l[r] ELSE TimesExp2(f.l[r], Neg(f.m[r]))]]

exp_scores(f, key0) == [f EXCEPT !.p = [r \in Rows |-> Exp2(f.s[r], key0)]]

(* The softmax of a tile, after its extras.                                *)
softmax_rows(f, key0, sums_now) ==
  LET moved == frames_outgrown(f)
      scaled == [scale_scores(f) EXCEPT !.moved = moved]
  IN exp_scores(IF moved THEN move_frames(f, scaled, sums_now) ELSE scaled, key0)

Frame(f, r) == Scaled(Neg(f.seed[r]))
=============================================================================
