------------------------------ MODULE AttnCall ------------------------------
(***************************************************************************)
(* One call of the gfx950 extension, from its tensors to the rows its CTAs *)
(* compute and store: the entry point (Entry950), then the host planner    *)
(* (HostPlan) or the list built on the GPU (ListVarlen), then every work   *)
(* item's addresses (csrc/gfx950/attention_plan.hpp, "tensors", "rows",    *)
(* "paged K/V", merge_parts).  What the properties compare them with is    *)
(* the call as its tensors' indices define it.                             *)
(***************************************************************************)
EXTENDS Entry950

CONSTANTS NumXcd, AlignRounds, LptBytes, MaxLptUnits,   \* HostPlan's
          Threads, WaveSize,                            \* ListVarlen's
          Calls                                         \* the calls (MCAttnCall)

ASSUME PlannersAssumption ==
  /\ {NumXcd, LptBytes, MaxLptUnits, Threads, WaveSize} \subseteq Nat \ {0}
  /\ AlignRounds \in Nat /\ Threads % WaveSize = 0

VARIABLES
  c, entered,                                      \* the call, and what its entry makes of it
  p, round, wide, parts, gained, best, phase, ctas,
  call, first, own, total, merges, step, pc, v0, to, merged, list, stray

Host == INSTANCE HostPlan
Dev == INSTANCE ListVarlen

hostVars == <<p, round, wide, parts, gained, best, phase, ctas>>
devVars == <<call, first, own, total, merges, step, pc, v0, to, merged, list, stray>>
vars == <<c, entered, hostVars, devVars>>

Init == c \in Calls /\ entered = None /\ Host!Init /\ Dev!Init

Enter ==
  /\ entered = None
  /\ LET e == Entered(c) IN
     /\ entered' = e
     /\ IF e.status = "host" THEN Host!Plan(e.problem, TRUE) ELSE UNCHANGED hostVars
     /\ IF e.status = "dev" THEN Dev!Launch(e.call) ELSE UNCHANGED devVars
  /\ UNCHANGED c

(* launch: without memory for the workspace, the call is planned unsplit.  *)
NoWorkspace ==
  /\ phase = "done" /\ Host!Slots > 0
  /\ Host!Plan(entered.problem, FALSE)
  /\ UNCHANGED <<c, entered, devVars>>

HostStep == Host!Next /\ UNCHANGED <<c, entered, devVars>>
DevStep == Dev!Next /\ UNCHANGED <<c, entered, hostVars>>

Launched == phase = "done" \/ Dev!At("done")
Finished ==
  /\ Launched \/ (entered # None /\ entered.status \notin {"host", "dev"})
  /\ UNCHANGED vars

Next == Enter \/ NoWorkspace \/ HostStep \/ DevStep \/ Finished
Spec == Init /\ [][Next]_vars
-----------------------------------------------------------------------------
(* What the GPU does with the list.                                        *)
HostMode == entered.status = "host"
rows == IF HostMode THEN best.rows ELSE call.rows
causal == entered.problem.causal
pack == entered.problem.pack

(* The items that CTAs run, and the ones merge_parts joins.                *)
Work ==
  IF HostMode THEN ToSet(Host!Work)
  ELSE {list[i] : i \in {i \in 0 .. Dev!Cap(call) - 1 : list[i].sq > 0}}
WorkCount ==
  IF HostMode THEN Len(Host!Work)
  ELSE Cardinality({i \in 0 .. Dev!Cap(call) - 1 : list[i].sq > 0})
Merges ==
  IF HostMode THEN ToSet(Host!Merges)
  ELSE {list[i] : i \in {i \in Dev!Entries : i >= Dev!Cap(call) /\ list[i].sq > 0}}
Slots == IF HostMode THEN Host!Slots ELSE IF call.parts > 1 THEN Dev!Cap(call) ELSE 0

offset(s, b, token, head) == b * s.batch + token * s.token + head * s.head

(* Chunk w's rows of an item, each as it is addressed (qo_rows, row_at).   *)
RowsOfItem(it) ==
  UNION {LET ch == chunk_rows(it, w, pack, rows) IN
         {[b |-> it.b, head |-> ch.head, token |-> it.q0 + r, r |-> r] :
            r \in {r \in ch.row0 .. ch.row0 + rows - 1 : 0 <= r /\ r < it.sq}} : w \in 0 .. NumWaves - 1}
At(str, x) == offset(str, x.b, x.token, x.head)

(* Key vk of an item (kv_rows; paged: row vk % page size of its page).     *)
page_row(page, str, vk) ==
  page.table[vk \div page.size + 1] * str.batch + (vk % page.size) * str.token
KeyAt(str, it, kv_head, key) ==
  LET vk == it.kv0 + key IN
  IF entered.page = NoPages THEN offset(str, it.b, vk, kv_head)
  ELSE page_row(entered.page, str, vk) + kv_head * str.head

(* The keys row x of an item attends to in the item's tiles.               *)
KeysOf(it, x) ==
  LET last == IF causal THEN Least(it.skv - 1, x.r + it.skv - it.sq) ELSE it.skv - 1 IN
  {key \in it.tile_lo * KvTile .. it.tile_hi * KvTile - 1 : key <= last}

(* What a work item computes for a row: the row's Q and the keys' K and V. *)
head0_kv(it) == it.head0 \div entered.grp
Attends(it, x) ==
  {<<At(entered.str.q, x), KeyAt(entered.str.k, it, head0_kv(it), key),
     KeyAt(entered.str.v, it, head0_kv(it), key)>> : key \in KeysOf(it, x)}

(* Where a whole q block's CTA or a merge stores a row: O, and its LSE.    *)
Stores(it) ==
  {<<At(entered.str.o, x), IF entered.str.lse = None THEN -1 ELSE At(entered.str.lse, x), x>> :
     x \in RowsOfItem(it)}
Whole == {it \in Work : it.slot = -1}
Parts(m) == {it \in Work : it.slot \in m.slot .. m.slot + m.num_parts - 1}

-----------------------------------------------------------------------------
(* The call as its tensors define it.                                      *)
out == IF c.out = None THEN Contiguous(IF c.entry = "forward" THEN [c.q.size EXCEPT ![4] = c.v.size[4]]
                                       ELSE <<c.q.size[1], c.q.size[2], Last(c.v.size)>>, c.q.dev)
       ELSE c.out
Elem(t, idx) == FoldLeft(LAMBDA a, i : a + idx[i] * t.stride[i], 0, [i \in DOMAIN idx |-> i])
LseElem(sizes, idx) == Elem(Contiguous(sizes, "cpu"), idx)

(* Row s of head h of the n-th sequence, and its keys, as tensor elements. *)
Batch(bshd, b, s, h) == IF bshd THEN <<b, s, h>> ELSE <<b, h, s>>
InBatch ==
  LET bshd == c.layout = "bshd"
      Size(t) == [s |-> t.size[IF bshd THEN 2 ELSE 3], h |-> t.size[IF bshd THEN 3 ELSE 2]]
      H == Size(c.q).h
      S == Size(c.q).s
      T == Size(c.k).s
  IN {[q |-> Elem(c.q, Batch(bshd, b, s, h)), o |-> Elem(out, Batch(bshd, b, s, h)),
       lse |-> IF c.lse THEN LseElem(<<c.q.size[1], H, S>>, <<b, h, s>>) ELSE -1,
       keys |-> LET hk == (h * Size(c.k).h) \div H IN
                {<<Elem(c.k, Batch(bshd, b, key, hk)), Elem(c.v, Batch(bshd, b, key, hk))>> :
                   key \in {key \in 0 .. T - 1 : causal => key <= s + T - S}}] :
        b \in 0 .. c.q.size[1] - 1, s \in 0 .. S - 1, h \in 0 .. H - 1}

cu_q == IF c.cu_q.dev # "cpu" /\ c.host_q # None /\ ~c.capturing THEN c.host_q.val ELSE c.cu_q.val
cu_k == IF c.cu_q.dev # "cpu" /\ c.host_q # None /\ ~c.capturing THEN c.host_k.val ELSE c.cu_k.val
Keys(n) == IF c.entry = "paged" THEN c.seqlens_k.val[n] ELSE cu_k[n + 1] - cu_k[n]
KeyElem(t, n, key, hk) ==
  IF c.entry = "paged"
  THEN LET page == c.page_table.val[c.page_starts.val[n] + key \div t.size[2] + 1]
       IN Elem(t, <<page, key % t.size[2], hk>>)
  ELSE Elem(t, <<cu_k[n] + key, hk>>)

InVarlen ==
  LET H == c.q.size[2]
      HKv == IF c.entry = "paged" THEN c.k.size[3] ELSE c.k.size[2]
      Sq(n) == cu_q[n + 1] - cu_q[n]
  IN UNION {
       {[q |-> Elem(c.q, <<cu_q[n] + s, h>>), o |-> Elem(out, <<cu_q[n] + s, h>>),
         lse |-> IF c.lse THEN LseElem(<<H, c.q.size[1]>>, <<h, cu_q[n] + s>>) ELSE -1,
         keys |-> {<<KeyElem(c.k, n, key, (h * HKv) \div H), KeyElem(c.v, n, key, (h * HKv) \div H)>> :
                     key \in {key \in 0 .. Keys(n) - 1 : causal => key <= s + Keys(n) - Sq(n)}}] :
          s \in (IF HostMode THEN 0 ELSE Most(0, Sq(n) - c.max_q)) .. Sq(n) - 1, h \in 0 .. H - 1} :
       n \in 1 .. Len(cu_q) - 1}

Asked == IF c.entry = "forward" THEN InBatch ELSE InVarlen
ValidCu == HostMode \/ Dev!Valid

(* Every output row the call asks for is stored exactly once, at its place *)
(* in out (and in the LSEs), from the row's own Q and from exactly the K   *)
(* and V it attends to, each once, in one CTA or in parts one merge joins: *)
(* for either layout, any strides, cu_seqlens on host or GPU, pages, GQA   *)
(* packs, plans, and however the call is split.  (Dev mode: of a sequence  *)
(* longer than max_q, the last max_q rows.)                                *)
EveryRowFromItsKeys ==
  Launched /\ ValidCu =>
    LET stores == UNION {{<<x[1], x[2], x[3], {it}>> : x \in Stores(it)} : it \in Whole}
                    \cup UNION {{<<x[1], x[2], x[3], Parts(m)>> : x \in Stores(m)} : m \in Merges}
    IN /\ Cardinality(Work) = WorkCount
       /\ {<<x[1], x[2]>> : x \in stores} = {<<r.o, r.lse>> : r \in Asked}
       /\ Cardinality(stores) = Cardinality(Asked)
       /\ \A r \in Asked : \A x \in {x \in stores : x[1] = r.o} :
            /\ UNION {Attends(it, x[3]) : it \in x[4]} = {<<r.q, k[1], k[2]>> : k \in r.keys}
            /\ MapThenSumSet(LAMBDA it : Cardinality(Attends(it, x[3])), x[4]) = Cardinality(r.keys)
            /\ \A it \in x[4] : x[3] \in RowsOfItem(it)

(* The parts of split q blocks have slots of their own, within what the    *)
(* workspace is sized by, and each is joined by one merge item, of the     *)
(* same rows.                                                              *)
PartialsInWorkspace ==
  Launched /\ ValidCu =>
    LET split == {it \in Work : it.slot # -1} IN
    /\ \A it \in split : it.slot \in 0 .. Slots - 1
    /\ \A it, other \in split : it.slot = other.slot => it = other
    /\ \A it \in split : Cardinality({m \in Merges : it \in Parts(m)}) = 1
    /\ \A m \in Merges : Cardinality(Parts(m)) = m.num_parts /\ m.num_parts \in 2 .. MaxParts

(* "Any cu_seqlens stays in bounds": whatever values the entries let pass, *)
(* or cannot see on the GPU, no CTA touches an element outside the call's  *)
(* tensors.                                                                *)
Places(t) ==
  LET dims == Front(t.size) IN
  {Elem(t, idx) : idx \in {idx \in [DOMAIN dims -> 0 .. Max(ToSet(dims))] :
                             \A i \in DOMAIN dims : idx[i] < dims[i]}}
StaysInTensors ==
  Launched =>
    /\ UNION {{x[1] : x \in Stores(it)} : it \in Whole \cup Merges} \subseteq Places(out)
    /\ \A it \in Work : \A x \in RowsOfItem(it) : \A a \in Attends(it, x) :
         a[1] \in Places(c.q) /\ a[2] \in Places(c.k) /\ a[3] \in Places(c.v)

(* wave_work: a tile before num_unmasked holds only keys that all the      *)
(* wave's rows attend to, and one from num_live on none that any does:     *)
(* masking and DMA-only blocks never change a result.                      *)
MasksRight ==
  Launched => \A it \in Work, w \in 0 .. NumWaves - 1 :
    LET row0 == chunk_rows(it, w, pack, rows).row0
        rs == {r \in row0 .. row0 + rows - 1 : 0 <= r /\ r < it.sq}
        TileKeys(t) == (it.tile_lo + t) * KvTile .. (it.tile_lo + t) * KvTile + KvTile - 1
        Seen(r) == IF causal THEN Least(it.skv, r + it.skv - it.sq + 1) ELSE it.skv
    IN \A t \in 0 .. it.tile_hi - it.tile_lo - 1, r \in rs :
         /\ t < num_unmasked(it, row0, causal) => \A key \in TileKeys(t) : key < Seen(r)
         /\ t >= num_live(it, row0, rows, causal) => \A key \in TileKeys(t) : key >= Seen(r)

(* "arguments were checked": what the entries admit the C API takes, but   *)
(* for a scale that is 0 as a float, pages past its 32 bits or with rows   *)
(* closer than a head's, and a list past INT_MAX bytes.                    *)
KernelsTakeAdmitted ==
  entered # None /\ entered.status = "kernel" =>
    \/ c.scale = "tiny"
    \/ c.entry = "paged" /\ ~(\A x \in {<<c.k, Last(c.k.size)>>, <<c.v, Last(c.v.size)>>} :
                                 PageFits(Strides(x[1], Pages), c.k.size[2], x[2]))
    \/ c.entry = "paged" /\ \E i \in DOMAIN c.page_starts.val :
         c.page_starts.val[i] * c.k.size[2] + c.seqlens_k.val[i] > IntMax

(* Lists heaviest first: the planner's keeps a unit on one XCD, and the    *)
(* GPU's holds each entry once whatever the order of its lanes' atomics    *)
(* (HostPlan, ListVarlen).                                                 *)
ListsInOrder == Host!OrderKeepsLocality /\ Dev!EntriesOnce /\ Dev!HeaviestFirst
AnyCuInBounds == Dev!AnyCuInBounds
=============================================================================
