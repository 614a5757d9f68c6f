------------------------------ MODULE LiteLists ------------------------------
(* LiteAttention's keep lists (csrc/gfx942/attention_kernel.hip: the read   *)
(* cursor and the write emitter of attention_forward).  A row is its        *)
(* markers in the order they were written, two a range: the first block     *)
(* kept, and the block after the last in the writer's direction.  The next  *)
(* call walks them backwards in the other direction, each marker one step   *)
(* over.  Row[1] is read_list[lbase + 1]; slot 0, the length, is Len(row).  *)
EXTENDS Integers, Sequences, SequencesExt, FiniteSets, FiniteSetsExt

CONSTANTS kWorkBuckets,   \* 256
          MaxOrdered      \* bound on the workgroups of an order checked

ASSUME LiteAssumption == kWorkBuckets \in Nat \ {0} /\ MaxOrdered \in Nat

Asc == 1
Desc == -1

(* lstep.                                                                  *)
Dir(phase) == IF phase = 1 THEN Asc ELSE Desc

(* The kept range opened at marker i: never empty.  Mutant: an end taken   *)
(* in the writer's terms.                                                  *)
RangeWriterEnd(row, i, d) ==
  LET first == row[i] + d
      last == row[i - 1]
      n == IF (last - first) * d > 1 THEN (last - first) * d ELSE 1
  IN [j \in 1 .. n |-> first + (j - 1) * d]

Range942(row, i, d) ==
  LET first == row[i] + d
      end == row[i - 1] + d
      n == IF (end - first) * d > 1 THEN (end - first) * d ELSE 1
  IN [j \in 1 .. n |-> first + (j - 1) * d]

(* open_range, next_kept: the ranges a row's walk visits.  A row of length *)
(* 0 opens none, and the walk is block 0 alone, where first_blk starts.    *)
Ranges(row, d) ==
  IF row = <<>> THEN <<<<0>>>>
  ELSE [r \in 1 .. Len(row) \div 2 |-> Range942(row, Len(row) - 2 * (r - 1), d)]

Walk(row, d) == FlattenSeq(Ranges(row, d))

(* block_closed_range: whether the walk's s-th block is its range's last.  *)
Closes(row, d) ==
  FlattenSeq([r \in 1 .. Len(Ranges(row, d)) |->
    [j \in 1 .. Len(Ranges(row, d)[r]) |-> j = Len(Ranges(row, d)[r])]])

(* record: a marker on each flip, and one past a kept range's last block.  *)
Record(st, block, skip, closes, d) ==
  LET flipped == IF skip # st.skip THEN Append(st.out, block) ELSE st.out IN
  [out |-> IF closes /\ ~skip THEN Append(flipped, block + d) ELSE flipped,
   skip |-> closes \/ skip]

NoRecord == [out |-> <<>>, skip |-> TRUE]

(* md_force's cursor: MustDo ranges <<start, end>> left behind are dropped *)
(* for good, walking up from the first or down from the last.              *)
MustDoStart(ranges, d) == IF d = Asc THEN 1 ELSE Len(ranges)

MustDoCursor(ranges, at, block, d) ==
  LET ahead == IF d = Asc THEN {r \in at .. Len(ranges) : block < ranges[r][2]}
                          ELSE {r \in 1 .. at : block >= ranges[r][1]}
  IN IF ahead = {} THEN (IF d = Asc THEN Len(ranges) + 1 ELSE 0)
     ELSE CHOOSE r \in ahead : \A x \in ahead : (x - r) * d >= 0

Forced(ranges, at, block) ==
  at \in 1 .. Len(ranges) /\ ranges[at][1] <= block /\ block < ranges[at][2]

(* LiteAttention._ensure's seed: [2, ktiles - 1, -1], every block.         *)
SeedRow(nkb) == <<nkb - 1, -1>>

-----------------------------------------------------------------------------
(* plan_lite_order: a workgroup's kept blocks, counted from its row, put it*)
(* in a bucket; the fullest buckets get the first slots, and a bucket's    *)
(* workgroups take theirs in the order of their atomics, claims.           *)
kept(row, d) ==
  LET sum[i \in 0 .. Len(row) \div 2] ==
        IF i = 0 THEN 0 ELSE sum[i - 1] + (row[2 * i - 1] - row[2 * i]) * d
  IN sum[Len(row) \div 2]
work_bucket(n, nkb) ==
  LET bucket == (n * kWorkBuckets) \div (nkb + 1) IN
  IF bucket < kWorkBuckets THEN bucket ELSE kWorkBuckets - 1

bucket_slot(bucket, b) == Cardinality({wg \in DOMAIN bucket : bucket[wg] > b})
SlotOf(bucket, claims, wg) ==
  bucket_slot(bucket, bucket[wg])
    + Cardinality({x \in DOMAIN bucket : bucket[x] = bucket[wg] /\ claims[x] < claims[wg]})

(* Every slot gets one workgroup, none a heavier one than the slot before, *)
(* as near as buckets tell, whatever is kept of MaxOrdered blocks.         *)
Claims(n) == {f \in [0 .. n - 1 -> 0 .. n - 1] : \A i, j \in 0 .. n - 1 : i # j => f[i] # f[j]}
SoundOrders ==
  {n \in 1 .. MaxOrdered :
     \A keeps \in [0 .. n - 1 -> 0 .. MaxOrdered], claims \in Claims(n) :
       LET bucket == [wg \in 0 .. n - 1 |-> work_bucket(keeps[wg], MaxOrdered)]
           slot == [wg \in 0 .. n - 1 |-> SlotOf(bucket, claims, wg)]
       IN /\ {slot[wg] : wg \in 0 .. n - 1} = 0 .. n - 1
          /\ \A v, w \in 0 .. n - 1 :
               slot[v] < slot[w] => keeps[v] >= keeps[w] \/ bucket[v] = bucket[w]}
=============================================================================
