------------------------------ MODULE AttnWave ------------------------------
(***************************************************************************)
(* One wave of the gfx950 attention kernels over a q block's KV tiles      *)
(* (csrc/gfx950/attention.hip and attention_mla.hip, fwd), part by part,   *)
(* and the merge of its parts (attention_plan.hpp, merge_parts): what it   *)
(* loads through which resource, and what becomes of a row's scores.       *)
(*                                                                         *)
(*   block t | softmax t | block t + 1 | ... | dma_only_block ...          *)
(*                                                                         *)
(* Blocks and softmaxes meet in tile_extras: first tile, masks and         *)
(* resources share one test (next_rare_tile), so a tile missed for one is  *)
(* missed for all.  The other waves' part in this is AttnPipeline's.       *)
(***************************************************************************)
EXTENDS WaveLoads, WaveFrames, LaneViews

CONSTANT Calls   \* what a wave may be asked: its call, its rows, its parts

(* A wave's work: parts of tiles, rows that do not overlap, a few tiles of  *)
(* which an offset reaches over, and page tables with an entry for every   *)
(* page of keys, in pages that hold whole runs of a wave's rows.           *)
ASSUME CallsAssumption ==
  \A c \in Calls :
    /\ {c.mla, c.paged, c.causal} \subseteq BOOLEAN /\ c.wave \in 0 .. NumWaves - 1
    /\ {c.kv0, c.skv} \subseteq Nat /\ {c.sq, c.row0} \subseteq Int
    /\ c.parts \in Seq(Nat \X Nat) /\ c.parts # <<>>
    /\ \A ring \in {"K", "V"} : /\ RowBytes(c, ring) \in Nat /\ DBytes <= RowBytes(c, ring)
                               /\ 3 * TileBytes(c, ring) <= Max32
    /\ c.paged =>
         /\ ~c.mla => c.k_row = c.v_row
         /\ PageRows(c) \in Nat \ {0} /\ PageRows(c) % RowCount(c) = 0 /\ c.kv0 % RowCount(c) = 0
         /\ c.pages = {c.table[(c.kv0 + k) \div PageRows(c)] : k \in 0 .. c.skv - 1}
         /\ c.pages \subseteq Nat /\ c.page_bytes \in Nat
         /\ \A p \in DOMAIN c.parts : c.parts[p][2] - c.parts[p][1] < NeverMoves

(* Scores are NaN, infinite, or such that the sum of two is finite in log2 *)
(* units, with the headroom.                                               *)
MaxScore == (MaxFinite - RescaleHeadroom) \div (2 * Scale)
ASSUME ScoresAssumption ==
  \A c \in Calls : \A r \in Rows : \A s \in c.scores[r] :
    /\ DOMAIN s = KeysOfTile
    /\ \A i \in KeysOfTile : s[i] \in {NaN, PlusInf, -PlusInf} \/ s[i] \in -MaxScore .. MaxScore

VARIABLES
  call,     \* the call and the wave
  part,     \* the part it computes, of call.parts
  pc,       \* where it is in the kernel
  t,        \* its block or softmax
  regs,     \* what it loads through
  issued,   \* the loads last issued
  rare,     \* next_rare_tile
  frames,   \* its rows' scores, frames and sums
  scores,   \* every score so far: row, then key
  partials, \* per part: each row's frame, row sum and O
  out       \* each row's O and LSE

vars == <<call, part, pc, t, regs, issued, rare, frames, scores, partials, out>>

(* wave_work of the part.                                                  *)
Lo == call.parts[part][1]
NumTiles == call.parts[part][2] - Lo
Item == [skv |-> call.skv, sq |-> call.sq, tile_lo |-> Lo, tile_hi |-> Lo + NumTiles]
NumLive == num_live(Item, call.row0, Cardinality(Rows), call.causal)
NumUnmasked == num_unmasked(Item, call.row0, call.causal)
KvShift == call.skv - call.sq
(* Row sums of P(t): D128's A adds them at softmax t's end, the others at  *)
(* the next block's start.                                                 *)
SumsAtEnd == ~call.mla /\ GroupA(call)

Key0(tile) == (Lo + tile) * KvTile
LastKey(r) ==
  Least(call.skv - 1, IF call.causal THEN call.row0 + r + call.skv - call.sq ELSE call.skv - 1)

Init ==
  /\ call \in Calls
  /\ part = 1 /\ pc = "prologue" /\ t = 0
  /\ regs = Registers(call, call.parts[1][1]) /\ issued = {} /\ rare = 0
  /\ frames = FirstFrames
  /\ scores = [r \in Rows |-> NoKeys]
  /\ partials = <<>> /\ out = <<>>

(* A part's first loads; block 0's offsets.                                *)
Prologue ==
  /\ pc = "prologue"
  /\ LET p == prologue(call, Lo) IN
       regs' = set_dma(call, p.regs, 0) /\ issued' = p.loads
  /\ frames' = FirstFrames /\ rare' = 0 /\ t' = 0 /\ pc' = "block"
  /\ UNCHANGED <<call, part, scores, partials, out>>

(* Block t: what lagged follows the frames, PV(t - 1) and the loads.       *)
BlockLoading ==
  /\ issued' = BlockLoads(call, regs, t)
  /\ regs' = next_rsrc(call, regs)
Pv(f) == pv(IF SumsAtEnd THEN f ELSE row_sums(f))
Followed == Pv(follow_frames(frames, GroupA(call)))

(* QK(t): any scores of the call's.                                        *)
MfmaBlock ==
  /\ pc = "block" /\ t < NumLive
  /\ BlockLoading
  /\ \E s \in {s \in [Rows -> UNION {call.scores[r] : r \in Rows}] : \A r \in Rows : s[r] \in call.scores[r]} :
       /\ frames' = qk(Followed, s)
       /\ scores' = [r \in Rows |->
            scores[r] @@ [k \in {Key0(t) + i : i \in KeysOfTile} |-> s[r][k - Key0(t)]]]
  /\ pc' = "softmax"
  /\ UNCHANGED <<call, part, t, rare, partials, out>>

(* The final PV; its QK goes unused.                                       *)
LastBlock ==
  /\ pc = "block" /\ t = NumLive
  /\ BlockLoading
  /\ frames' = Followed
  /\ pc' = "tail" /\ t' = t + 1
  /\ UNCHANGED <<call, part, rare, scores, partials, out>>

Extras(f) ==
  LET masked == IF t < NumUnmasked THEN f
                ELSE mask_scores(f, [r \in Rows |-> LastKey(r) - Key0(t)])
  IN IF t = 0 THEN set_row_frames(masked) ELSE masked

RareFrom_late(r, n) ==         \* mutant: the resources' last tile passes by
  Most(n + 1, Least(NumUnmasked, r.rsrc_t0 + rsrc_tiles(call)))
RareFrom(r, n) == Most(n + 1, Least(NumUnmasked, r.rsrc_t0 + rsrc_tiles(call) - 1))

Softmax ==
  /\ pc = "softmax"
  /\ LET is_rare == t >= rare
         f == softmax_rows(IF is_rare THEN Extras(frames) ELSE frames, Key0(t), GroupA(call))
         paged == next_page(call, regs)
         r == IF is_rare THEN move_rsrc(call, Lo, paged, t + 1) ELSE paged
     IN /\ frames' = IF SumsAtEnd THEN row_sums(f) ELSE f
        /\ regs' = set_dma(call, r, t + 1)
        /\ rare' = IF is_rare THEN RareFrom(r, t) ELSE rare
  /\ t' = t + 1 /\ pc' = "block"
  /\ UNCHANGED <<call, part, issued, scores, partials, out>>

(* The block of a tile masked for every row: its loads only.               *)
DmaOnlyBlock ==
  /\ pc = "tail" /\ t <= NumTiles
  /\ LET r == set_dma(call, next_page(call, move_rsrc(call, Lo, regs, t)), t) IN
       issued' = BlockLoads(call, r, t) /\ regs' = next_rsrc(call, r)
  /\ t' = t + 1
  /\ UNCHANGED <<call, part, pc, rare, frames, scores, partials, out>>

(* A part leaves its frames, row sums and O, unnormalised.                 *)
Partial == [r \in Rows |-> [m |-> Frame(frames, r), l |-> frames.l[r], o |-> frames.o[r]]]
PartEnd ==
  /\ pc = "tail" /\ t > NumTiles /\ Len(call.parts) > 1
  /\ partials' = Append(partials, Partial)
  /\ IF part < Len(call.parts) THEN part' = part + 1 /\ pc' = "prologue"
                               ELSE part' = part /\ pc' = "merge"
  /\ issued' = {}
  /\ UNCHANGED <<call, t, regs, rare, frames, scores, out>>

(* A row's O is o / l and its LSE m + log2 l: NaN with a NaN row sum, 0 and*)
(* -inf with no keys.                                                      *)
Output(m, l, o, nan_row) ==
  IF nan_row \/ l.nan \/ o.nan THEN [kind |-> "nan"] ELSE IF l.e = NoKeys THEN [kind |-> "no keys"]
  ELSE [kind |-> "sum", m |-> m, l |-> l.e, o |-> o.e, twice |-> l.twice \cup o.twice]

WholeEnd ==
  /\ pc = "tail" /\ t > NumTiles /\ Len(call.parts) = 1
  /\ out' = [r \in Rows |-> Output(Partial[r].m, Partial[r].l, Partial[r].o, Partial[r].l.nan)]
  /\ pc' = "done"
  /\ UNCHANGED <<call, part, t, regs, issued, rare, frames, scores, partials>>

(* merge_parts: the parts with keys, moved to the highest of their frames. *)
HasKeys(x) == ~x.l.nan /\ x.l.e # NoKeys
m_max_first(r) == partials[1][r].m           \* mutant: the first part's frame
m_max(r) == Max({NegInf} \cup {partials[p][r].m : p \in {p \in DOMAIN partials : HasKeys(partials[p][r])}})
Weighted(r, field) ==
  LET w(p) == partials[p][r].m - m_max(r) IN
  FoldFunction(Added, ZeroSum, [p \in DOMAIN partials |->
    IF HasKeys(partials[p][r]) THEN TimesExp2(partials[p][r][field], w(p)) ELSE ZeroSum])

MergeParts ==
  /\ pc = "merge"
  /\ out' = [r \in Rows |->
       Output(m_max(r), Weighted(r, "l"), Weighted(r, "o"), \E p \in DOMAIN partials : partials[p][r].l.nan)]
  /\ pc' = "done"
  /\ UNCHANGED <<call, part, t, regs, issued, rare, frames, scores, partials>>

Done == pc = "done" /\ UNCHANGED vars

Next == Prologue \/ MfmaBlock \/ LastBlock \/ Softmax \/ DmaOnlyBlock
          \/ PartEnd \/ WholeEnd \/ MergeParts \/ Done

Spec == Init /\ [][Next]_vars

-----------------------------------------------------------------------------
(* Every load brings its own tile's rows, and zeros past the last key:     *)
(* whatever the strides, pages, moved resources and parts, in loads issued *)
(* before, under and without the softmax that sets them up.  No page is    *)
(* taken from past the sequence's part of the table.                       *)
LoadsOwnRows ==
  /\ \A x \in issued : OwnRows(call, Lo, x)
  /\ call.paged /\ call.skv > 0 /\ pc # "prologue" => {regs.page, regs.next_page} \subseteq call.pages

(* The call's kernel multiplies each key's K with the query, its V with its *)
(* own P, and sums each P once: DMA, LDS, fragment and mask layouts agree. *)
Kernel == IF ~call.mla THEN "d128" ELSE IF call.paged THEN "mla paged" ELSE "mla"
FragmentsMeet == Kernel \in SoundKernels

(* Every P at most 2^RescaleThreshold in its row's frame, and none NaN,    *)
(* whatever NaN and infinite scores the tile brought: the frame moved with *)
(* the tile that outgrew it, and for all rows when one's is outgrown, so   *)
(* no sum overflows that no score made infinite.                           *)
SumsInRange ==
  pc = "block" =>
    \A r \in Rows :
      /\ ~frames.p[r].nan
      /\ \A k \in DOMAIN frames.p[r].e : frames.p[r].e[k] <= RescaleThreshold

(* The reference: a row's keys, whether one's score is NaN or +inf, and    *)
(* their weights relative to its largest score.                            *)
Visible(r) == {k \in 0 .. call.skv - 1 : k <= LastKey(r)}
BadRow(r) == \E k \in Visible(r) : scores[r][k] > MaxFinite
Largest(r) == Max({scores[r][k] : k \in Visible(r)})

(* The end of a row: NaN exactly for a NaN or +inf score of its own keys,  *)
(* and no other row's; else every key of it counts once, in O and in the   *)
(* row sum alike, with its score's weight in the row's final frame, or not *)
(* at all when it is 2^90 below the largest, and no key is added twice, in *)
(* a tile or in the merge; 0 and -inf with no keys.                        *)
ExactRows ==
  pc = "done" =>
    \A r \in Rows : call.row0 + r \in 0 .. call.sq - 1 =>
      IF BadRow(r) THEN out[r].kind = "nan"
      ELSE IF Visible(r) = {} THEN out[r].kind = "no keys"
      ELSE /\ out[r].kind = "sum"
           /\ out[r].l = out[r].o /\ out[r].twice = {}
           /\ DOMAIN out[r].l \subseteq Visible(r)
           /\ \A k \in Visible(r) :
                IF k \in DOMAIN out[r].l THEN out[r].l[k] = Scale * scores[r][k] - out[r].m
                ELSE Scale * (Largest(r) - scores[r][k]) >= 90
=============================================================================
