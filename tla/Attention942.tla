---------------------------- MODULE Attention942 ----------------------------
(***************************************************************************)
(* The gfx942 attention kernel (csrc/gfx942/attention_kernel.hip,          *)
(* attention_forward) and its two callers: dense launches (forward), and   *)
(* LiteAttention (moonmath_amd/lite.py), which feeds each call the blocks  *)
(* the last one kept.                                                      *)
(*                                                                         *)
(* One CTA walks a sequence of K blocks.  Each step has two halves: in the *)
(* first A computes while B streams K, in the second B computes; a plain   *)
(* barrier splits them and one that waits for B's loads ends them.  In a   *)
(* lite call each wave's softmax votes on its block, in A's case half a    *)
(* step before B's, and thread 0 encodes the votes of the step before.     *)
(***************************************************************************)
EXTENDS LiteLists, Entry942, Lanes942, Rows942

CONSTANTS GroupA, GroupB,
          Wave0,       \* the wave of thread 0, in A
          MaxBlocks,   \* bound on K blocks
          MaxCalls,    \* bound on LiteAttention calls
          MustDos,     \* the must-do lists given: sequences of <<start, end>>
          Calls        \* the direct calls tried: see Entry942

ASSUME WavesAssumption == GroupA \cap GroupB = {} /\ Wave0 \in GroupA /\ GroupB # {}
ASSUME BoundsAssumption == MaxBlocks \in Nat \ {0} /\ MaxCalls \in Nat
ASSUME CallsAssumption ==                    \* of two entry points; a tensor has a shape
  \A a \in Calls :
    /\ a.op \in {"forward", "forward_lite"}
    /\ \A t \in {a.q, a.k} : t # Absent942 => t.shape \in Seq(Nat)

(* "Walked monotonically in lstep order": neither end of a range is before  *)
(* that of the one before.                                                 *)
ASSUME MustDosAssumption ==
  \A must \in MustDos :
    /\ must \in Seq(Int \X Int)
    /\ \A i, j \in 1 .. Len(must) : i < j => must[i][1] <= must[j][1] /\ must[i][2] <= must[j][2]

Waves == GroupA \cup GroupB
Ring == 0 .. 1                               \* K's double buffer and VerdictRing
NoBlock == -1
Mixed == -2                                  \* what two blocks' data make
Of(blocks) == IF Cardinality(blocks) = 1 THEN CHOOSE b \in blocks : TRUE ELSE Mixed

VARIABLES
  attn,     \* the LiteAttention object and one row of its two lists
  launch,   \* a call's launch, while one of its CTAs is chosen
  cta,      \* the CTA's call: [lite, walk, closes, dir, must]
  pc,       \* per wave: where it is
  step,     \* per wave: the step it is in, -1 before the loop
  dma,      \* per B wave: K blocks in flight
  k,        \* per B wave: the block in its rows of each half of lds_k
  vote,     \* per wave: its slots of the verdict ring
  reg,      \* per wave: what its registers hold, by block
  said,     \* history: per step, the waves that voted skip
  rec       \* thread 0's registers: the emitter, and the must-do cursor

vars == <<attn, launch, cta, pc, step, dma, k, vote, reg, said, rec>>
kernel == <<pc, step, dma, k, vote, reg, said, rec>>

NoLaunch == [plan |-> 0]
NoCall == [lite |-> FALSE, walk |-> <<>>, closes |-> <<>>, dir |-> Asc, must |-> <<>>]

(* The block scores and probs are of, and those in the row sum and in O.   *)
NoReg == [scores |-> NoBlock, probs |-> NoBlock, sum |-> <<>>, o |-> <<>>]

NoK == [w \in GroupB |-> [b \in Ring |-> NoBlock]]
NoVotes(left) == [w \in Waves |-> [b \in Ring |-> left]]
NoRec == [list |-> NoRecord, md |-> 0]

Init ==
  /\ attn = [rows |-> <<>>, nkb |-> 0, phase |-> 0, calls |-> 0, done |-> 0]
  /\ launch = NoLaunch /\ cta = NoCall
  /\ pc = [w \in Waves |-> "idle"] /\ step = [w \in Waves |-> 0]
  /\ dma = [w \in GroupB |-> <<>>]
  /\ k = NoK
  /\ vote = NoVotes(FALSE)
  /\ reg = [w \in Waves |-> NoReg] /\ said = <<>>
  /\ rec = NoRec

Idle == \A w \in Waves : pc[w] = "idle"

Goto(w, place) == pc' = [pc EXCEPT ![w] = place]

-----------------------------------------------------------------------------
(* A CTA starts on its walk.  Where a lite call's votes will be, LDS may   *)
(* hold anything: all keep or all skip here.                               *)
Begin(call) ==
  /\ cta' = call
  /\ pc' = [w \in Waves |-> "prologue"] /\ step' = [w \in Waves |-> -1]
  /\ reg' = [w \in Waves |-> NoReg]
  /\ said' = [i \in 1 .. Len(call.walk) |-> {}]
  /\ rec' = [list |-> NoRecord, md |-> MustDoStart(call.must, call.dir)]
  /\ \E left \in IF call.lite THEN BOOLEAN ELSE {FALSE} : vote' = NoVotes(left)
  /\ UNCHANGED <<dma, k>>

(* LiteAttention._ensure: a first call, a new shape or a reset seeds row 0.*)
Ensured(nkb) ==
  IF attn.rows # <<>> /\ attn.nkb = nkb THEN attn
  ELSE [attn EXCEPT !.rows = <<SeedRow(nkb), <<>>>>, !.nkb = nkb, !.phase = 0, !.done = 0]

(* forward: the roles are flipped, and then the kernel is called.          *)
Flipped(a) == [a EXCEPT !.phase = 1 - @, !.calls = @ + 1]
ReadRow(a) == a.rows[2 - a.phase]
WriteSlot(a) == a.phase + 1
LiteCall(a, must) ==
  LET d == Dir(a.phase) IN
  [lite |-> TRUE, walk |-> Walk(ReadRow(a), d), closes |-> Closes(ReadRow(a), d), dir |-> d,
   must |-> must]

(* A call of forward, or LiteAttention's first of forward_lite, from its   *)
(* arguments to its launch.                                                *)
Launch ==
  /\ Idle /\ launch = NoLaunch /\ attn.calls = 0
  /\ \E a \in Calls :
       /\ Admitted942(a) /\ LiteFits(a) /\ Addressable(Launch942(a))
       /\ launch' = Launch942(a)
  /\ attn' = IF launch'.lite THEN Flipped(Ensured(launch'.plan.nkb)) ELSE attn
  /\ UNCHANGED <<cta, kernel>>

DenseCta(item) ==
  /\ launch # NoLaunch /\ ~launch.lite
  /\ Begin([NoCall EXCEPT !.walk = item.walk])
  /\ launch' = NoLaunch
  /\ UNCHANGED attn

LiteCta(must) ==
  /\ launch # NoLaunch /\ launch.lite
  /\ Begin(LiteCall(attn, must))
  /\ launch' = NoLaunch
  /\ UNCHANGED attn

(* A later call's, its launch like the first's.                            *)
Lite(nkb, must) ==
  /\ Idle /\ launch = NoLaunch /\ attn.calls < MaxCalls
  /\ attn' = Flipped(Ensured(nkb))
  /\ Begin(LiteCall(attn', must))
  /\ UNCHANGED launch

(* A call refused or out of memory before its launch.                      *)
LiteRaises(nkb) ==
  /\ Idle /\ launch = NoLaunch /\ attn.calls < MaxCalls
  /\ attn' = Flipped(Ensured(nkb))
  /\ UNCHANGED <<launch, cta, kernel>>

(* reset_skip_state: the next call seeds again.                            *)
Reset ==
  /\ Idle /\ launch = NoLaunch /\ attn.rows # <<>>
  /\ attn' = [attn EXCEPT !.rows = <<>>, !.nkb = 0, !.phase = 0, !.done = 0]
  /\ UNCHANGED <<launch, cta, kernel>>

-----------------------------------------------------------------------------
Steps == Len(cta.walk)
At(s) == cta.walk[s + 1]                     \* the block of step s
KBuf(s) == s % 2
VoteSlot(s) == s % 2                         \* step & (VerdictRing - 1)

(* direct_lds_k by a B wave.                                               *)
Stream(w, s) == dma' = [dma EXCEPT ![w] = Append(@, [block |-> At(s), buf |-> KBuf(s)])]

Land(w) ==
  /\ dma[w] # <<>>
  /\ k' = [k EXCEPT ![w][Head(dma[w]).buf] = Head(dma[w]).block]
  /\ dma' = [dma EXCEPT ![w] = Tail(@)]
  /\ UNCHANGED <<attn, launch, cta, pc, step, vote, reg, said, rec>>

Prologue(w) ==
  /\ pc[w] = "prologue"
  /\ IF w \in GroupB THEN Stream(w, 0) ELSE UNCHANGED dma
  /\ Goto(w, "drain")
  /\ UNCHANGED <<attn, launch, cta, step, k, vote, reg, said, rec>>

(* What QK reads: A in the first half of a step, B in the second.          *)
Reading(w) == pc[w] = (IF w \in GroupA THEN "half1" ELSE "half2")
qk_phase(r, s) == [r EXCEPT !.scores = Of({k[u][KBuf(s)] : u \in GroupB})]

(* softmax masks step s's block, and a wave that votes to skip it ends here; *)
(* pv_phase of the same asks the wave's own vote before it multiplies.     *)
softmax(r, s, skip) ==
  LET p == Of({r.scores, At(s)}) IN
  IF skip THEN [r EXCEPT !.probs = NoBlock] ELSE [r EXCEPT !.probs = p, !.sum = Append(@, p)]
pv_phase(r, s, skip) ==
  IF cta.lite /\ skip THEN r ELSE [r EXCEPT !.o = Append(@, Of({r.probs, At(s)}))]
PvOf(w, s) == pv_phase(reg[w], s, vote[w][VoteSlot(s)])

(* The vote, in a lite call; the first block is never skipped.             *)
Skips(s) == IF ~cta.lite \/ s = 0 THEN {FALSE} ELSE BOOLEAN
CastVote(w, s, skip) ==
  /\ vote' = [vote EXCEPT ![w][VoteSlot(s)] = skip]
  /\ said' = IF skip THEN [said EXCEPT ![s + 1] = @ \cup {w}] ELSE said
Softmax(w, s) ==
  \E skip \in Skips(s) : CastVote(w, s, skip) /\ reg' = [reg EXCEPT ![w] = softmax(@, s, skip)]

Half1A(w) ==
  /\ pc[w] = "half1" /\ w \in GroupA
  /\ reg' = [reg EXCEPT ![w] = qk_phase(IF step[w] > 0 THEN PvOf(w, step[w] - 1) ELSE @, step[w])]
  /\ Goto(w, "wait_mid")
  /\ UNCHANGED <<attn, launch, cta, step, dma, k, vote, said, rec>>

(* B's softmax of the step before, then the next block's K.                *)
Half1B(w) ==
  /\ pc[w] = "half1" /\ w \in GroupB
  /\ IF step[w] > 0 THEN Softmax(w, step[w] - 1) ELSE UNCHANGED <<vote, reg, said>>
  /\ IF step[w] + 1 < Steps THEN Stream(w, step[w] + 1) ELSE UNCHANGED dma
  /\ Goto(w, "wait_mid")
  /\ UNCHANGED <<attn, launch, cta, step, k, rec>>

Half2A(w) ==
  /\ pc[w] = "half2" /\ w \in GroupA
  /\ Softmax(w, step[w])
  /\ Goto(w, IF w = Wave0 /\ cta.lite /\ step[w] > 0 THEN "record" ELSE "drain")
  /\ UNCHANGED <<attn, launch, cta, step, dma, k, rec>>

Half2B(w) ==
  /\ pc[w] = "half2" /\ w \in GroupB
  /\ reg' = [reg EXCEPT ![w] = qk_phase(IF step[w] > 0 THEN PvOf(w, step[w] - 1) ELSE @, step[w])]
  /\ Goto(w, "drain")
  /\ UNCHANGED <<attn, launch, cta, step, dma, k, vote, said, rec>>

(* vote and record, of step s: all waves voted skip and nothing pins it.   *)
Recorded(s, closes) ==
  LET md == MustDoCursor(cta.must, rec.md, At(s), cta.dir)
      skip == (\A w \in Waves : vote[w][VoteSlot(s)]) /\ ~Forced(cta.must, md, At(s))
  IN [list |-> Record(rec.list, At(s), skip, closes, cta.dir), md |-> md]

RecordVotes(w) ==
  /\ pc[w] = "record"
  /\ rec' = Recorded(step[w] - 1, cta.closes[step[w]])
  /\ Goto(w, "drain")
  /\ UNCHANGED <<attn, launch, cta, step, dma, k, vote, reg, said>>

(* The end of a step, and of the prologue: wait_vmcnt0, lds_barrier.       *)
ArriveEndNoWait(w) ==                        \* mutant: without the wait
  /\ pc[w] = "drain"
  /\ Goto(w, "wait_end")
  /\ UNCHANGED <<attn, launch, cta, step, dma, k, vote, reg, said, rec>>

ArriveEnd(w) ==
  /\ pc[w] = "drain"
  /\ w \in GroupB => dma[w] = <<>>
  /\ Goto(w, "wait_end")
  /\ UNCHANGED <<attn, launch, cta, step, dma, k, vote, reg, said, rec>>

(* After the loop B owes its last softmax, all their last pv, and a lite   *)
(* call a barrier.                                                         *)
Epilogue(w) ==
  /\ pc[w] = "epilogue"
  /\ IF w \in GroupA THEN reg' = [reg EXCEPT ![w] = PvOf(w, Steps - 1)] /\ UNCHANGED <<vote, said>>
     ELSE \E skip \in Skips(Steps - 1) :
            /\ CastVote(w, Steps - 1, skip)
            /\ reg' = [reg EXCEPT ![w] = pv_phase(softmax(@, Steps - 1, skip), Steps - 1, skip)]
  /\ Goto(w, IF cta.lite THEN "wait_last" ELSE "store")
  /\ UNCHANGED <<attn, launch, cta, step, dma, k, rec>>

(* Thread 0 finishes the row.                                              *)
Finish(w) ==
  /\ pc[w] = "flush"
  /\ rec' = Recorded(Steps - 1, TRUE)
  /\ attn' = [attn EXCEPT !.rows[WriteSlot(attn)] = rec'.list.out, !.done = @ + 1]
  /\ Goto(w, "store")
  /\ UNCHANGED <<launch, cta, step, dma, k, vote, reg, said>>

(* A wave stores its rows and ends, and with the last one the CTA.         *)
Store(w) ==
  /\ pc[w] = "store"
  /\ Goto(w, "idle")
  /\ reg' = [reg EXCEPT ![w] = NoReg] /\ step' = [step EXCEPT ![w] = 0]
  /\ IF \A u \in Waves \ {w} : pc[u] = "idle"
     THEN cta' = NoCall /\ said' = <<>> /\ rec' = NoRec /\ k' = NoK /\ vote' = NoVotes(FALSE)
     ELSE UNCHANGED <<cta, said, rec, k, vote>>
  /\ UNCHANGED <<attn, launch, dma>>

AtBarrier == {"wait_mid", "wait_end", "wait_last"}

AfterBarrier(w) ==
  CASE pc[w] = "wait_mid" -> <<"half2", step[w]>>
    [] pc[w] = "wait_end" -> <<IF step[w] + 1 < Steps THEN "half1" ELSE "epilogue", step[w] + 1>>
    [] pc[w] = "wait_last" -> <<IF w = Wave0 THEN "flush" ELSE "store", step[w]>>
    [] OTHER -> <<pc[w], step[w]>>

(* s_barrier counts the waves that have not ended.                        *)
Release ==
  /\ \A w \in Waves : pc[w] \in AtBarrier \cup {"idle"}
  /\ \E w \in Waves : pc[w] \in AtBarrier
  /\ pc' = [w \in Waves |-> AfterBarrier(w)[1]]
  /\ step' = [w \in Waves |-> AfterBarrier(w)[2]]
  /\ UNCHANGED <<attn, launch, cta, dma, k, vote, reg, said, rec>>

WaveStep(w) ==
  \/ Prologue(w) \/ Half1A(w) \/ Half1B(w) \/ Half2A(w) \/ Half2B(w)
  \/ RecordVotes(w) \/ ArriveEnd(w) \/ Epilogue(w) \/ Finish(w) \/ Store(w)

Next ==
  \/ Launch
  \/ launch # NoLaunch /\ ~launch.lite /\ \E x \in Items(launch.plan) : DenseCta(x[3])
  \/ \E must \in MustDos : LiteCta(must)
  \/ \E nkb \in 1 .. MaxBlocks, must \in MustDos : Lite(nkb, must)
  \/ \E nkb \in 1 .. MaxBlocks : LiteRaises(nkb)
  \/ Reset
  \/ \E w \in GroupB : Land(w)
  \/ \E w \in Waves : WaveStep(w)
  \/ Release

Spec == Init /\ [][Next]_vars
-----------------------------------------------------------------------------
(* QK multiplies the K of its own step's block in every wave's rows, while *)
(* B streams the next one into the other half of lds_k; and over its walk a *)
(* wave's row sum and O take the blocks it has not voted to skip, in order,*)
(* each block's P with its own V, masked as itself: though A's softmax is  *)
(* half a step ahead of B's and both put PV off to the next step.          *)
Taken(w, walk, skips, n) ==                  \* of the first n steps
  LET taken[i \in 0 .. Len(walk)] ==
        IF i = 0 THEN <<>>
        ELSE IF w \in skips[i] THEN taken[i - 1] ELSE Append(taken[i - 1], walk[i])
  IN taken[n]

ReadsOwnK ==
  \A w \in Waves : Reading(w) => \A u \in GroupB : k[u][KBuf(step[w])] = At(step[w])

AttendsItsWalk ==
  /\ ReadsOwnK
  /\ \A w \in Waves : pc[w] = "store" =>
       LET taken == Taken(w, cta.walk, said, Steps) IN reg[w].sum = taken /\ reg[w].o = taken

(* "A K-block is marked skippable iff ..." every wave voted to skip it and *)
(* no must-do range pins it: read back by the next call, in the other      *)
(* direction, the row thread 0 writes walks exactly the other blocks, it   *)
(* fits its slot of the list, and plan_lite_order counts it right.         *)
Pinned(b) == \E r \in ToSet(cta.must) : r[1] <= b /\ b < r[2]
Dropped ==                                   \* by all waves or by none
  [i \in 1 .. Steps |-> IF said[i] = Waves /\ ~Pinned(At(i - 1)) THEN Waves ELSE {}]
KeptBlocks == Taken(Wave0, cta.walk, Dropped, Steps)

NextRowKeepsVotes ==
  pc[Wave0] = "flush" =>
    LET row == Recorded(Steps - 1, TRUE).list.out IN
      /\ Walk(row, -cta.dir) = Reverse(KeptBlocks)
      /\ Len(row) <= attn.nkb + 1
      /\ kept(row, -cta.dir) = Len(KeptBlocks)

(* Every kv block of every q block is walked by exactly one CTA of a dense *)
(* launch, and a stranded q block's merge reads exactly its own parts,     *)
(* which the scratch has room for.                                         *)
EachBlockOnce(l) ==
  LET p == l.plan IN
  /\ \A wg \in 0 .. p.nqb * p.bh - 1, b \in 0 .. p.nkb - 1 :
       Cardinality({x \in Items(p) : x[3].wg = wg /\ b \in ToSet(x[3].walk)}) = 1
  /\ \A t \in 0 .. p.tail - 1 :
       Merged(p, t) = {c \in 0 .. p.parts - 1 : PartWg(p, c) = p.prefix + t}
  /\ p.parts <= MaxParts

Split(l) == l.plan.prefix .. l.plan.prefix + l.plan.tail - 1

(* A launch is the attention of its tensors: each row of the output is     *)
(* stored once, from its own row of Q, over its own head's keys, each once.*)
(* Before any launch: K, V, P and the parts' layouts agree lane by lane; a *)
(* row's sums hold each key taken at its weight, under any scores, split   *)
(* or not; and a lite launch's order runs each workgroup once.             *)
KernelSound ==
  /\ SoundBuilds = {"dense", "lite"}
  /\ ExactModes = {"dense", "split", "lite"}
  /\ SoundOrders = 1 .. MaxOrdered

LaunchIsAttention ==
  IF launch = NoLaunch THEN Idle /\ attn.calls = 0 => KernelSound
  ELSE /\ launch.lite \/ EachBlockOnce(launch)
       /\ StoredOnce(launch, (0 .. launch.plan.nqb * launch.plan.bh - 1) \ Split(launch), Split(launch))
       /\ KeysAreTheHeads(launch)
       /\ launch.ordered => launch.slots = launch.plan.nqb * launch.plan.bh

(* "The first step (compute-all seed) is exact full attention": the first  *)
(* call that gets to run after a seed walks every K block.                 *)
FirstCallExact ==
  cta.lite /\ attn.done = 0 /\ ~Idle => ToSet(cta.walk) = 0 .. attn.nkb - 1
=============================================================================
