----------------------------- MODULE ListVarlen -----------------------------
(***************************************************************************)
(* list_varlen (csrc/gfx950/attention_plan.hpp, "device varlen"): one CTA  *)
(* builds the work list from cu_seqlens on the GPU, by a counting sort on  *)
(* part length.  Threads count the q blocks' items per bucket, scan the    *)
(* counts, and then lanes claim slots by atomics that come in any order;   *)
(* the list's capacity is the one dev_plan sized on the host, from the     *)
(* maxima and totals alone.                                                *)
(***************************************************************************)
EXTENDS WorkItems, FiniteSets, FiniteSetsExt, Sequences

CONSTANTS Threads,    \* of the CTA, and buckets
          WaveSize    \* lanes of a wave

VARIABLES
  call,    \* the call: [cu_q, cu_k, max_q, max_k, total_q, total_k, rows, pack, packs, causal, parts]
  first,   \* per bucket: its item count, then its first free slot
  own,     \* per bucket: its count, kept over the scan
  total,   \* items in all
  merges,  \* merge items so far
  step,    \* the scan's distance d
  pc,      \* per wave: "idle", "count", "scan", "claim", "store", "merge", "fill", "done"
  v0,      \* per wave: the q block of its lane 0
  to,      \* per wave and lane: the slot claimed, Unclaimed before
  merged,  \* per wave: the lanes whose merge items are stored
  list,    \* the list's entries, Unwritten before their first store
  stray    \* what was wrong with a store: "twice", "outside"

vars == <<call, first, own, total, merges, step, pc, v0, to, merged, list, stray>>

NumListWaves == Threads \div WaveSize
Waves == 0 .. NumListWaves - 1
Lanes == 0 .. WaveSize - 1
Buckets == 0 .. Threads - 1
Unclaimed == -1
Unwritten == [sq |-> -1]
EmptyItem == [sq |-> 0]

-----------------------------------------------------------------------------
(* The list as dev_plan sized it: the most q blocks, times the parts; then *)
(* a merge item each.                                                      *)
n(c) == Len(c.cu_q) - 1
Blocks(c) == max_blocks(n(c), Least(c.max_q, c.total_q), c.total_q, c.pack, c.rows)
Cap(c) == Blocks(c) * c.packs * c.parts
CapMerges(c) == IF c.parts > 1 THEN Blocks(c) * c.packs ELSE 0

(* plan_varlen's shift: part lengths spread over the buckets.              *)
Shift(c) ==
  LET tiles == CeilDiv(Least(c.max_k, c.total_k), KvTile) IN
  CHOOSE s \in 0 .. tiles : tiles \div 2 ^ s < Threads /\ \A r \in 0 .. s - 1 : tiles \div 2 ^ r >= Threads

-----------------------------------------------------------------------------
seq_blocks == num_q_blocks(Least(call.max_q, call.total_q), call.pack, call.rows)
num_blocks == n(call) * seq_blocks

(* Block v: q block v % seq_blocks, from the end, of sequence              *)
(* v / seq_blocks, its tokens clamped to the tensors; or an empty item.    *)
block(v) ==
  LET s == v \div seq_blocks + 1
      q0 == Least(Most(call.cu_q[s], 0), call.total_q)
      kv0 == Least(Most(call.cu_k[s], 0), call.total_k)
      sq == Least(call.cu_q[s + 1], call.total_q) - q0
      skv == Most(Least(call.cu_k[s + 1], call.total_k) - kv0, 0)
      b == (IF sq > 0 THEN num_q_blocks(sq, call.pack, call.rows) ELSE 0) - 1 - (v % seq_blocks)
      tiles == block_tiles(sq, skv, b, call.pack, call.rows, call.causal)
  IN IF v >= num_blocks THEN EmptyItem
     ELSE IF b < 0 THEN EmptyItem
     ELSE [b |-> 0, q0 |-> q0, sq |-> sq, kv0 |-> kv0, skv |-> skv,
           chunk0 |-> first_chunk(b, sq, call.pack, call.rows), tile_lo |-> 0, tile_hi |-> tiles,
           head0 |-> 0, slot |-> -1, num_parts |-> Most(1, Least(call.parts, tiles))]

(* Longest parts in the first buckets.                                     *)
bucket(it) ==
  Threads - 1 - Least(CeilDiv(it.tile_hi, it.num_parts) \div 2 ^ Shift(call), Threads - 1)

Items(it) == it.num_parts * call.packs
EntriesOf(c) == 0 .. Cap(c) + CapMerges(c) - 1
Entries == EntriesOf(call)

(* Stores, as a set of [at, item].                                         *)
Store(stores) ==
  LET at == {x.at : x \in stores} IN
  /\ list' = [i \in Entries |-> IF i \in at THEN (CHOOSE x \in stores : x.at = i).item ELSE list[i]]
  /\ stray' = stray \cup (IF at \subseteq Entries THEN {} ELSE {"outside"})
       \cup (IF Cardinality(at) < Cardinality(stores) \/ \E i \in at \cap Entries : list[i] # Unwritten
             THEN {"twice"} ELSE {})

NoCall == [cu_q |-> <<0>>, cu_k |-> <<0>>, total_q |-> 0, total_k |-> 0, parts |-> 1]

Init ==
  /\ call = NoCall /\ list = <<>> /\ stray = {}
  /\ first = [k \in Buckets |-> 0] /\ own = first
  /\ total = 0 /\ merges = 0 /\ step = 1
  /\ pc = [w \in Waves |-> "idle"]
  /\ v0 = [w \in Waves |-> w]
  /\ to = [w \in Waves |-> [l \in Lanes |-> Unclaimed]]
  /\ merged = [w \in Waves |-> {}]

(* The launch for call c, over a list of any old contents.                 *)
Launch(c) ==
  /\ call' = c
  /\ list' = [i \in EntriesOf(c) |-> Unwritten]
  /\ pc' = [w \in Waves |-> "count"]
  /\ UNCHANGED <<first, own, total, merges, step, v0, to, merged, stray>>

At(place) == \A w \in Waves : pc[w] = place          \* a __syncthreads reached by all

-----------------------------------------------------------------------------
(* 1. A wave's threads add their q blocks' items to the buckets.           *)
Count(w) ==
  LET mine == {v \in 0 .. num_blocks - 1 : (v % Threads) \div WaveSize = w /\ block(v).sq > 0} IN
  /\ pc[w] = "count"
  /\ first' = [k \in Buckets |->
       first[k] + MapThenSumSet(LAMBDA v : Items(block(v)), {v \in mine : bucket(block(v)) = k})]
  /\ pc' = [pc EXCEPT ![w] = "scan"]
  /\ UNCHANGED <<call, own, total, merges, step, v0, to, merged, list, stray>>

(* A round of the scan: every thread reads, a barrier, every thread writes.*)
ScanRound ==
  /\ At("scan") /\ step < Threads
  /\ own' = IF step = 1 THEN first ELSE own
  /\ first' = [k \in Buckets |-> first[k] + IF k >= step THEN first[k - step] ELSE 0]
  /\ step' = 2 * step
  /\ UNCHANGED <<call, total, merges, pc, v0, to, merged, list, stray>>

ScanEnd ==
  /\ At("scan") /\ step >= Threads
  /\ total' = first[Threads - 1]
  /\ first' = [k \in Buckets |-> first[k] - own[k]]
  /\ pc' = [w \in Waves |-> "claim"]
  /\ UNCHANGED <<call, own, merges, step, v0, to, merged, list, stray>>

-----------------------------------------------------------------------------
(* 2. Lane l's q block in the wave's pass, and the lanes that have one.    *)
Mine(w, l) == block(v0[w] + l * NumListWaves)
Live(w) == {l \in Lanes : Mine(w, l).sq > 0}

(* A lane's atomicAdd claims its items' slots: lanes and waves in any order.*)
ClaimOnePack(w, l) ==                            \* mutant: room for one head pack claimed
  /\ pc[w] = "claim" /\ v0[w] < num_blocks
  /\ l \in Live(w) /\ to[w][l] = Unclaimed
  /\ to' = [to EXCEPT ![w][l] = first[bucket(Mine(w, l))]]
  /\ first' = [first EXCEPT ![bucket(Mine(w, l))] = @ + Mine(w, l).num_parts]
  /\ UNCHANGED <<call, own, total, merges, step, pc, v0, merged, list, stray>>

Claim(w, l) ==
  /\ pc[w] = "claim" /\ v0[w] < num_blocks
  /\ l \in Live(w) /\ to[w][l] = Unclaimed
  /\ to' = [to EXCEPT ![w][l] = first[bucket(Mine(w, l))]]
  /\ first' = [first EXCEPT ![bucket(Mine(w, l))] = @ + Items(Mine(w, l))]
  /\ UNCHANGED <<call, own, total, merges, step, pc, v0, merged, list, stray>>

(* Part `part` of head pack h of lane l's q block, for slot `at`.          *)
PartItem(w, l, h, part, at) ==
  LET it == Mine(w, l)
      lo == part_lo(part, it.num_parts, it.tile_hi)
  IN [it EXCEPT !.head0 = h * call.pack,
                !.tile_lo = IF call.parts > 1 THEN lo ELSE 0,
                !.tile_hi = IF call.parts > 1 THEN lo + part_len(part, it.num_parts, it.tile_hi) ELSE @,
                !.slot = IF it.num_parts > 1 THEN at ELSE -1]

(* The wave stores its lanes' items; those of a q block that does not fit  *)
(* whole are empty, or beyond the list.                                    *)
StoreItems(w) ==
  /\ pc[w] = "claim" /\ v0[w] < num_blocks
  /\ \A l \in Live(w) : to[w][l] # Unclaimed
  /\ Store({x \in
       UNION {LET np == Mine(w, l).num_parts IN
              {LET at == to[w][l] + h * np + part IN
               [at |-> at, item |-> IF to[w][l] + np * call.packs <= Cap(call)
                                    THEN PartItem(w, l, h, part, at) ELSE EmptyItem] :
                 h \in 0 .. call.packs - 1, part \in 0 .. np - 1} : l \in Live(w)} :
       x.at < Cap(call)})
  /\ pc' = [pc EXCEPT ![w] = "merge"]
  /\ UNCHANGED <<call, first, own, total, merges, step, v0, to, merged>>

(* The lanes with a split q block in the list.                             *)
Splits(w) == {l \in Live(w) : Mine(w, l).num_parts > 1 /\ to[w][l] + Items(Mine(w, l)) <= Cap(call)}

(* A lane stores its q block's merge items, one per head pack.             *)
MergeSlot(w, l, h) == to[w][l] + h * Mine(w, l).num_parts

Merge(w, l) ==
  /\ pc[w] = "merge" /\ l \in Splits(w) \ merged[w]
  /\ merges' = merges + call.packs
  /\ Store({[at |-> Cap(call) + merges + h,
             item |-> [Mine(w, l) EXCEPT !.head0 = h * call.pack, !.slot = MergeSlot(w, l, h)]] :
              h \in 0 .. call.packs - 1})
  /\ merged' = [merged EXCEPT ![w] = @ \cup {l}]
  /\ UNCHANGED <<call, first, own, total, step, pc, v0, to>>

(* The wave's next pass, or the barrier after its last.                    *)
NextPass(w) ==
  /\ pc[w] = "merge" /\ merged[w] = Splits(w)
  /\ v0' = [v0 EXCEPT ![w] = @ + Threads]
  /\ to' = [to EXCEPT ![w] = [l \in Lanes |-> Unclaimed]]
  /\ merged' = [merged EXCEPT ![w] = {}]
  /\ pc' = [pc EXCEPT ![w] = "claim"]
  /\ UNCHANGED <<call, first, own, total, merges, step, list, stray>>

LastPass(w) ==
  /\ pc[w] = "claim" /\ v0[w] >= num_blocks
  /\ pc' = [pc EXCEPT ![w] = "fill"]
  /\ UNCHANGED <<call, first, own, total, merges, step, v0, to, merged, list, stray>>

(* 3. The unused entries are emptied.                                      *)
Fill(w) ==
  /\ pc[w] = "fill" /\ \A x \in Waves : pc[x] \in {"fill", "done"}
  /\ Store({[at |-> i, item |-> EmptyItem] :
              i \in {i \in Least(total, Cap(call)) .. Cap(call) - 1 :
                       ((i - Least(total, Cap(call))) % Threads) \div WaveSize = w}
                \cup {i \in Cap(call) + merges .. Cap(call) + CapMerges(call) - 1 :
                       ((i - Cap(call) - merges) % Threads) \div WaveSize = w}})
  /\ pc' = [pc EXCEPT ![w] = "done"]
  /\ UNCHANGED <<call, first, own, total, merges, step, v0, to, merged>>

Next ==
  \/ \E w \in Waves : Count(w)
  \/ ScanRound
  \/ ScanEnd
  \/ \E w \in Waves, l \in Lanes : Claim(w, l)
  \/ \E w \in Waves : StoreItems(w)
  \/ \E w \in Waves, l \in Lanes : Merge(w, l)
  \/ \E w \in Waves : NextPass(w)
  \/ \E w \in Waves : LastPass(w)
  \/ \E w \in Waves : Fill(w)
-----------------------------------------------------------------------------
(* cu_seqlens as the API asks for them: ascending, within the tensors.     *)
Ascending(cu, top) ==
  /\ cu[1] >= 0 /\ cu[Len(cu)] <= top
  /\ \A i \in 1 .. Len(cu) - 1 : cu[i] <= cu[i + 1]
Valid == Ascending(call.cu_q, call.total_q) /\ Ascending(call.cu_k, call.total_k)

(* No entry is stored twice nor any beyond the list, whatever the order of *)
(* the lanes' atomics, and in the end every entry is stored: also for      *)
(* cu_seqlens that are not valid, when q blocks are not split.             *)
EntriesOnce ==
  Valid \/ call.parts = 1 => stray = {} /\ (At("done") => \A i \in Entries : list[i] # Unwritten)

(* "Heaviest first": along the list a q block's longest part never grows   *)
(* by more than a bucket's width, and empty items come last.               *)
HeaviestFirst ==
  At("done") /\ Valid =>
    \A i \in 0 .. Cap(call) - 2 : list[i + 1].sq > 0 =>
      /\ list[i].sq > 0
      /\ list[i + 1].tile_hi - list[i + 1].tile_lo
           < list[i].tile_hi - list[i].tile_lo + 1 + 2 ^ Shift(call)

(* "Any cu_seqlens stays in bounds".                                       *)
AnyCuInBounds == "outside" \notin stray
=============================================================================
