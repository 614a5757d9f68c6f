------------------------------ MODULE TailSplit ------------------------------
(* Which CTA of the gfx942 dense attention launch does what                 *)
(* (csrc/gfx942/attention_kernel.hip: plan_tail_split, launch_tail_split,   *)
(* chiplet_swizzle and the kernel's block selection).  Whole rounds of      *)
(* NumCUs q blocks run one CTA each; the q blocks stranded in the last      *)
(* round may be split into parts that walk every G-th kv block and are      *)
(* merged afterwards.                                                       *)
EXTENDS Integers, FiniteSets, FiniteSetsExt

CONSTANTS NumCUs,              \* 304
          NumXcds,             \* 8
          MinKvBlocksToSplit,  \* 48
          MinBlocksPerPart,    \* 4
          MergeCostBlocks      \* 3

ASSUME TailSplitAssumption ==
  {NumCUs, NumXcds, MinKvBlocksToSplit, MinBlocksPerPart, MergeCostBlocks} \subseteq Nat \ {0}

MaxParts == 2 * NumCUs

Ceil(a, b) == (a + b - 1) \div b

(* Neighbouring workgroups go to different XCDs; give each XCD whole heads.*)
chiplet_swizzle(wg, num_wgs, chunk) ==
  LET block == NumXcds * chunk
      limit == (num_wgs \div block) * block
      local == wg \div NumXcds
  IN IF wg >= limit THEN wg
     ELSE (local \div chunk) * block + (wg % NumXcds) * chunk + (local % chunk)

(* The split factors tried, and the modelled time of each.                 *)
Splits(tail, nkb) ==
  {g \in 2 .. MaxParts \div tail : nkb \div g >= MinBlocksPerPart}

Span(tail, nkb, g) ==
  IF g = 1 THEN nkb + MergeCostBlocks
  ELSE Ceil(tail * g, NumCUs) * Ceil(nkb, g) + MergeCostBlocks

(* The least span, and the fewest parts among equals.                      *)
Best(tail, nkb) ==
  LET gs == Splits(tail, nkb) \cup {1} IN
  CHOOSE g \in gs : \A h \in gs :
    Span(tail, nkb, g) < Span(tail, nkb, h) \/ (Span(tail, nkb, g) = Span(tail, nkb, h) /\ g <= h)

(* plan_tail_split, for a call given a workspace or none.                  *)
TailOf(wgs, nkb, enable) ==
  LET tail == IF enable THEN wgs % NumCUs ELSE 0 IN
  IF tail = 0 \/ tail > (NumCUs * 19) \div 20 \/ nkb < MinKvBlocksToSplit THEN 0
  ELSE IF Best(tail, nkb) = 1 THEN 0 ELSE tail

Plan(nqb, bh, nkb, enable) ==
  LET wgs == nqb * bh
      tail == TailOf(wgs, nkb, enable)
      g == IF tail = 0 THEN 1 ELSE Best(tail, nkb)
  IN [nqb |-> nqb, bh |-> bh, nkb |-> nkb, prefix |-> wgs - tail, tail |-> tail, ways |-> g,
      parts |-> IF tail = 0 THEN 0 ELSE tail * g]

(* The workgroup a CTA of the ordinary launch runs: swizzled over the full *)
(* grid, in order when a tail is split off.                                *)
PrefixWg(p, cta) ==
  IF p.tail = 0 THEN chiplet_swizzle(cta, p.prefix, p.nqb) ELSE cta

(* Mutants: parts in contiguous runs; the tail taken from the grid's start.*)
PartFirstRun(p, part) == part \div p.ways
PartFirst(p, part) == part % p.ways

PartWg(p, part) == p.prefix + part \div p.ways

(* A CTA's item: its workgroup (q block of a head) and its walk over the   *)
(* head's kv blocks.                                                       *)
Stride(first, step, nkb) ==
  LET n == Ceil(nkb - first, step) IN [i \in 1 .. n |-> first + (i - 1) * step]

PrefixItem(p, cta) == [wg |-> PrefixWg(p, cta), walk |-> Stride(0, 1, p.nkb)]
PartItem(p, part) == [wg |-> PartWg(p, part), walk |-> Stride(PartFirst(p, part), p.ways, p.nkb)]

Items(p) ==
  {<<"prefix", c, PrefixItem(p, c)>> : c \in 0 .. p.prefix - 1}
    \cup {<<"part", c, PartItem(p, c)>> : c \in 0 .. p.parts - 1}

(* merge_parts of the tail's t-th workgroup reads these parts.             *)
Merged(p, t) == {t * p.ways + i : i \in 0 .. p.ways - 1}
=============================================================================
