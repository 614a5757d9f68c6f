------------------------------ MODULE MoeKernel ------------------------------
(***************************************************************************)
(* A call of one of the gfx942 MoE kernels, from its Torch entry point     *)
(* (csrc/gfx942/mxfp4_moe_api.cpp) to one workgroup's waves                *)
(* (mxfp4_moe_gateup.hip, mxfp4_moe_down.hip).                             *)
(*                                                                         *)
(* The kernels place every wait by hand: a wave's loads and stores retire  *)
(* in order, and "vmcnt(n)" waits until n are left.  A wave runs a program *)
(* of loads, waits, writes to LDS, products and barriers, in parts that    *)
(* follow one another.  A register with a load in flight may hold anything,*)
(* so a load that the wave has not waited for reads as Junk.  A value is   *)
(* the number of the K step it holds.                                      *)
(***************************************************************************)
EXTENDS MoeGrid, MoeDequant, MoeLanes

CONSTANTS Calls,    \* the calls made: records of arguments
          Scales,   \* the E8M0 bytes decoded
          Loads     \* the loads planned for: <<slots, experts, blocks, columns, CUs>>

VARIABLES
  call,     \* the arguments
  place,    \* "load" (of the weights), "entry", then "raised", "nothing" (no kernel) or "running"
  steps,    \* the column steps of the workgroup
  at,       \* per wave: the part of its program and the instruction in it
  issued,   \* per wave: its memory operations so far
  landed,   \* per wave: those it has waited for
  load,     \* per wave and register: the last load to it, and which operation ended it
  lds,      \* per slot and wave: the A rows the wave put there
  gate,     \* per wave: the gate sums it left in LDS
  sum       \* per wave: the products <<A, B>> in its accumulators

vars == <<call, place, steps, at, issued, landed, load, lds, gate, sum>>

Junk == -1
Slots == 0 .. 2               \* of A in LDS: gateup's slabs, down's batches
MaxWaves == 2 * NumWaves
WaveIds == 0 .. MaxWaves - 1
Registers == {"A0", "A1"} \cup {"B0", "B1", "B2", "B3", "B4", "B5"}
AReg == <<"A0", "A1">>
BReg == <<"B0", "B1", "B2", "B3", "B4", "B5">>

(* The launch of an admitted call.                                         *)
NtOf(c) == IF c.kernel = "gateup" THEN GateUpNt(c.bm, c.situ, c.N) ELSE c.nt
Job(c) == [c EXCEPT !.nt = NtOf(c)]

KSteps == call.K \div 128                   \* gateup's slabs
Nt == NtOf(call)
WavesOf == IF call.kernel = "gateup" THEN NumWaves ELSE DownWaves(call.bm)
Waves == 0 .. WavesOf - 1

-----------------------------------------------------------------------------
(* check_common, gateup_op and down_op: what they let through.             *)
CheckCommon(c) ==
  /\ c.A.dtype = "bf16" /\ c.C.dtype = "bf16"
  /\ c.B.dtype = "u8" /\ c.Bs.dtype = "u8"
  /\ \A x \in {c.sorted_ids, c.expert_ids, c.padded} : x.dtype = "i32"
  /\ c.A.cuda /\ c.padded.cuda
  /\ Len(c.B.size) = 4 /\ c.B.size[4] = 16 /\ Len(c.Bs.size) = 3
  /\ Len(c.A.size) = 2 /\ Len(c.C.size) = 2

gateup_tile_ok(bm) == bm \in {1, 2, 3}
down_tile_ok(bm) == bm \in {1, 2, 4}
down_k_ok(K) == K % 128 = 0 /\ K \div 128 \in DownKSteps

gateup_op(c) ==
  /\ CheckCommon(c)
  /\ gateup_tile_ok(c.bm)
  /\ c.mul_routed_weight => c.topk_weights
  /\ c.B.size[2] = c.K \div 32
  /\ c.B.size[3] = IF c.situ THEN 2 * c.N ELSE c.N

down_op(c) ==
  /\ CheckCommon(c)
  /\ down_tile_ok(c.bm) /\ c.nt \in {1, 2} /\ down_k_ok(c.K)
  /\ c.B.size[2] = c.K \div 32 /\ c.B.size[3] = c.N
  /\ c.nt = 2 => c.C.unit /\ c.Bs.unit /\ c.N % 2 = 0

Admits(c) == IF c.kernel = "gateup" THEN gateup_op(c) ELSE down_op(c)

(* The kernels that are built; the launchers do nothing for others.        *)
Built(c) ==
  IF c.kernel = "gateup" THEN c.bm \in {1, 2, 3}
  ELSE c.bm \in {1, 2, 4} /\ c.K \div 128 \in DownKSteps /\ (c.bm = 4 => c.K \div 128 = 3)

(* What the caller owes: rows aligned to the tile's height, room and an    *)
(* expert for each block, an even N where two columns are stored as one    *)
(* ("Requires ... at NT=2 an even N", which the entry checks only of nt),  *)
(* and for gateup a K it supports ("nslabs is even").                      *)
Tensors == [dtype : STRING, cuda : BOOLEAN, unit : BOOLEAN, size : Seq(Nat)]
Arguments ==
  [kernel : {"gateup", "down"}, bm : Nat, nt : Int, n_steps : Int, N : Nat, K : Nat, situ : BOOLEAN,
   valid : Nat, stride_cm : Nat \ {0}, blocks : Nat, sorted : Seq(Nat), experts : Seq(Int),
   topk_weights : BOOLEAN, mul_routed_weight : BOOLEAN, A : Tensors, B : Tensors, Bs : Tensors,
   C : Tensors, sorted_ids : Tensors, expert_ids : Tensors, padded : Tensors]

ASSUME ScalesAssumption == Scales \subseteq Nat     \* bytes
ASSUME LoadsAssumption == Loads \subseteq Nat \X Nat \X Nat \X (Nat \ {0}) \X Nat

ASSUME CallsAssumption ==
  \A c \in Calls :
    /\ c \in Arguments
    /\ Admits(c) /\ Built(c) =>
         /\ Len(c.sorted) % Rows(c) = 0
         /\ Len(c.sorted) <= c.blocks * Rows(c) /\ Len(c.sorted) <= Len(c.experts) * Rows(c)
         /\ c.N <= c.stride_cm
         /\ c.kernel = "down" /\ nt_for(c.bm, c.nt) = 2 => c.N % 2 = 0
         /\ c.kernel = "gateup" => moe_gateup_supports_k(c.K)

-----------------------------------------------------------------------------
(* Programs.  An instruction names its operation and what it takes.        *)
Load(r, val, ops) == [op |-> "load", reg |-> r, val |-> val, ops |-> ops]
Wait(n) == [op |-> "wait", left |-> n]
WriteA(r, slot) == [op |-> "write_a", reg |-> r, slot |-> slot]
Product(r, slots, val) == [op |-> "mfma", reg |-> r, slots |-> slots, val |-> val]
Store(step, ops) == [op |-> "store", step |-> step, ops |-> ops]
Do(op) == [op |-> op]

(* A part of a program: a turn of a loop, or what is between loops.        *)
Part(name, i, ks) == [name |-> name, i |-> i, ks |-> ks]
End == Part("end", 0, 0)

(* gateup, in memory operations: A granules a thread, B's tiles and scales.*)
Grans == call.bm
B_OPS == Nt * 2
SLAB_OPS == Grans + B_OPS
Early == call.bm = 1

A(slab) == AReg[(slab % 2) + 1]
B(slab) == BReg[(slab % 2) + 1]
issue_a(slab) == Load(A(slab), slab, Grans)
issue_b(slab) == Load(B(slab), slab, B_OPS)

(* Mutant: the second slab's A issued ahead of the first's B.              *)
PrimeOutOfOrder ==
  <<issue_a(0), issue_a(1), issue_b(0), issue_b(1), Wait(B_OPS + SLAB_OPS), WriteA(A(0), 0), Do("barrier")>>

Prime ==
  <<issue_a(0), issue_b(0), issue_a(1), issue_b(1), Wait(B_OPS + SLAB_OPS), WriteA(A(0), 0), Do("barrier")>>

(* slab_body: multiply slab i, publish the next one's A, refill the slot   *)
(* for the one after; a 16-row tile refills A a body early.                *)
slab_body(i) ==
  LET multiply == Product(B(i), {i % 2}, i)
      publish == WriteA(A(i + 1), (i + 1) % 2)
  IN IF Early
     THEN <<Wait(SLAB_OPS), issue_a(i + 2), multiply, Wait(B_OPS + Grans), publish, issue_b(i + 2), Do("barrier")>>
     ELSE <<Wait(SLAB_OPS), multiply, Wait(B_OPS), publish, issue_a(i + 2), issue_b(i + 2), Do("barrier")>>

(* The gate half of the waves hands its sums to the up half through LDS.   *)
IsGate(w) == w < WavesPerProj(call.situ)

GateUpCode(w, p) ==
  CASE p.name = "prime" -> Prime
    [] p.name = "slab" -> slab_body(p.i)
    [] p.name = "drain" -> <<Wait(0), IF call.situ THEN Do("barrier") ELSE Store(0, 1)>>
    [] p.name = "gate" -> IF IsGate(w) THEN <<Do("gate"), Do("barrier")>> ELSE <<Do("barrier")>>
    [] p.name = "glu" -> <<Do("glu"), Store(0, 1)>>

Slabs == 2 * (KSteps \div 2)
SlabOrDrain(i) == Part(IF i < Slabs THEN "slab" ELSE "drain", i, 0)
GateUpAfter(w, p) ==
  CASE p.name = "prime" -> SlabOrDrain(0)
    [] p.name = "slab" -> SlabOrDrain(p.i + 1)
    [] p.name = "drain" -> IF call.situ THEN Part("gate", 0, 0) ELSE End
    [] p.name = "gate" -> IF IsGate(w) THEN End ELSE Part("glu", 0, 0)
    [] p.name = "glu" -> End

(* down: A staged in batches, the ring primed behind the last one.         *)
SLOT_OPS == nt_for(call.bm, Nt) + 1
RING_OPS == KSteps * SLOT_OPS
GransPerThread == (KSteps * call.bm) \div (IF call.bm >= 4 THEN 2 ELSE 1)
PerBatch ==
  IF GransPerThread % 4 = 0 THEN 4 ELSE IF GransPerThread % 3 = 0 THEN 3 ELSE 2
Batches == GransPerThread \div PerBatch

Slot(ks) == BReg[ks + 1]
issue(step, ks) == Load(Slot(ks), step * KSteps + ks, SLOT_OPS)
batch(b) ==
  IF b < Batches - 1 THEN <<Load("A0", b, PerBatch), Wait(0), WriteA("A0", b)>>
  ELSE <<Load("A0", b, PerBatch)>>

(* One ks of a column step: the last step refills with itself, to keep the *)
(* waits' count.                                                           *)
Refill(step) == IF step + 1 < steps THEN step + 1 ELSE step
Column(step, ks) ==
  <<Wait(RING_OPS - SLOT_OPS), Product(Slot(ks), 0 .. Batches - 1, ks), issue(Refill(step), ks)>>

DownCode(p) ==
  CASE p.name = "batch" -> batch(p.i)
    [] p.name = "ring" -> <<issue(0, p.ks)>>
    [] p.name = "staged" -> <<Wait(RING_OPS), WriteA("A0", Batches - 1), Do("barrier")>>
    [] p.name = "clear" -> <<Do("clear")>>
    [] p.name = "column" -> Column(p.i, p.ks)
    [] p.name = "store" -> <<Store(p.i, 4 * call.bm)>>
    [] p.name = "drain" -> <<Wait(0)>>

DownAfter(p) ==
  CASE p.name = "batch" -> IF p.i < Batches - 1 THEN Part("batch", p.i + 1, 0) ELSE Part("ring", 0, 0)
    [] p.name = "ring" -> IF p.ks + 1 < KSteps THEN Part("ring", 0, p.ks + 1) ELSE Part("staged", 0, 0)
    [] p.name = "staged" -> Part("clear", 0, 0)
    [] p.name = "clear" -> Part("column", p.i, 0)
    [] p.name = "column" -> IF p.ks + 1 < KSteps THEN Part("column", p.i, p.ks + 1) ELSE Part("store", p.i, 0)
    [] p.name = "store" -> IF p.i + 1 < steps THEN Part("clear", p.i + 1, 0) ELSE Part("drain", 0, 0)
    [] p.name = "drain" -> End

First == Part(IF call.kernel = "gateup" THEN "prime" ELSE "batch", 0, 0)
Code(w, p) == IF call.kernel = "gateup" THEN GateUpCode(w, p) ELSE DownCode(p)
After(w, p) == IF call.kernel = "gateup" THEN GateUpAfter(w, p) ELSE DownAfter(p)

-----------------------------------------------------------------------------
Start(p) == [part |-> p, n |-> 1]
NoCall == [kernel |-> "none"]
NoSums == [w \in WaveIds |-> <<>>]

Init ==
  /\ call = NoCall /\ place = "load" /\ steps = 0
  /\ at = [w \in WaveIds |-> Start(End)]
  /\ issued = [w \in WaveIds |-> 0] /\ landed = issued
  /\ load = [w \in WaveIds |-> [r \in Registers |-> [val |-> Junk, last |-> 0]]]
  /\ lds = [s \in Slots |-> [w \in WaveIds |-> Junk]]
  /\ gate = NoSums /\ sum = NoSums

memory == <<issued, landed, load>>
kernel == <<steps, at, memory, lds, gate, sum>>

Enter ==
  /\ place = "load"
  /\ call' \in Calls /\ place' = "entry"
  /\ UNCHANGED kernel

Raise ==
  /\ place = "entry" /\ ~Admits(call)
  /\ place' = "raised"
  /\ UNCHANGED <<call, kernel>>

LaunchNothing ==
  /\ place = "entry" /\ Admits(call) /\ ~Built(call)
  /\ place' = "nothing"
  /\ UNCHANGED <<call, kernel>>

(* One workgroup of the launch that has work.                              *)
Launch(cta) ==
  /\ place = "entry" /\ Admits(call) /\ Built(call)
  /\ Works(Job(call), cta)
  /\ steps' = Cardinality(Begins(Job(call), cta))
  /\ at' = [w \in WaveIds |-> Start(IF steps' > 0 /\ w \in Waves THEN First ELSE End)]
  /\ place' = "running"
  /\ UNCHANGED <<call, memory, lds, gate, sum>>

-----------------------------------------------------------------------------
(* What a wave reads in a register, and in A's rows of some slots of LDS.  *)
Held(w, r) == IF load[w][r].last <= landed[w] THEN load[w][r].val ELSE Junk

ARows(slots) ==
  IF call.kernel = "gateup"
  THEN LET in == {lds[s][w] : s \in slots, w \in Waves} IN
       IF Cardinality(in) = 1 THEN CHOOSE x \in in : TRUE ELSE Junk
  ELSE IF \A s \in slots, w \in Waves : lds[s][w] = s THEN 0 ELSE Junk

Now(w) == Code(w, at[w].part)[at[w].n]
At(w, op) == at[w].part # End /\ Now(w).op = op
Following(w) ==
  IF at[w].n < Len(Code(w, at[w].part)) THEN [at[w] EXCEPT !.n = @ + 1] ELSE Start(After(w, at[w].part))
Step(w) == at' = [at EXCEPT ![w] = Following(w)]

Issue(w) ==
  /\ At(w, "load")
  /\ issued' = [issued EXCEPT ![w] = @ + Now(w).ops]
  /\ load' = [load EXCEPT ![w][Now(w).reg] = [val |-> Now(w).val, last |-> issued[w] + Now(w).ops]]
  /\ Step(w)
  /\ UNCHANGED <<call, place, steps, landed, lds, gate, sum>>

(* wait_a, wait_b, wait_vmcnt: all but the newest have landed.             *)
wait_vmcnt(w) ==
  /\ At(w, "wait")
  /\ landed' = [landed EXCEPT ![w] = Max({@, issued[w] - Now(w).left})]
  /\ Step(w)
  /\ UNCHANGED <<call, place, steps, issued, load, lds, gate, sum>>

(* A's rows to LDS, over what is left of a gate exchange.                  *)
Publish(w) ==
  /\ At(w, "write_a")
  /\ lds' = [lds EXCEPT ![Now(w).slot][w] = Held(w, Now(w).reg)]
  /\ gate' = NoSums
  /\ Step(w)
  /\ UNCHANGED <<call, place, steps, memory, sum>>

Multiply(w) ==
  /\ At(w, "mfma")
  /\ LET a == ARows(Now(w).slots)
         part == IF call.kernel = "down" /\ a # Junk THEN Now(w).val ELSE a
     IN sum' = [sum EXCEPT ![w] = Append(@, <<part, Held(w, Now(w).reg)>>)]
  /\ Step(w)
  /\ UNCHANGED <<call, place, steps, memory, lds, gate>>

Clear(w) ==
  /\ At(w, "clear")
  /\ sum' = [sum EXCEPT ![w] = <<>>]
  /\ Step(w)
  /\ UNCHANGED <<call, place, steps, memory, lds, gate>>

(* The gate buffer lies over A's slabs.                                    *)
PublishGate(w) ==
  /\ At(w, "gate")
  /\ gate' = [gate EXCEPT ![w] = sum[w]]
  /\ lds' = [s \in Slots |-> [x \in WaveIds |-> Junk]]
  /\ Step(w)
  /\ UNCHANGED <<call, place, steps, memory, sum>>

Partner(w) == w - WavesPerProj(call.situ)
TakeGate(w) ==
  /\ At(w, "glu")
  /\ sum' = [sum EXCEPT ![w] = IF gate[Partner(w)] = @ THEN @ ELSE <<>>]
  /\ Step(w)
  /\ UNCHANGED <<call, place, steps, memory, lds, gate>>

(* C's stores queue up behind the loads.                                   *)
StoreC(w) ==
  /\ At(w, "store")
  /\ issued' = [issued EXCEPT ![w] = @ + Now(w).ops]
  /\ Step(w)
  /\ UNCHANGED <<call, place, steps, landed, load, lds, gate, sum>>

(* lds_barrier and __syncthreads.                                          *)
Barrier ==
  /\ \A w \in Waves : At(w, "barrier")
  /\ at' = [w \in WaveIds |-> IF w \in Waves THEN Following(w) ELSE at[w]]
  /\ UNCHANGED <<call, place, steps, memory, lds, gate, sum>>

Run(w) ==
  \/ Issue(w) \/ wait_vmcnt(w) \/ Publish(w) \/ Multiply(w) \/ Clear(w)
  \/ PublishGate(w) \/ TakeGate(w) \/ StoreC(w)

Done == place \notin {"load", "entry"} /\ (\A w \in WaveIds : at[w].part = End) /\ UNCHANGED vars

Next ==
  \/ Enter \/ Raise \/ LaunchNothing
  \/ place = "entry" /\ \E cta \in Ctas(Job(call)) : Launch(cta)
  \/ \E w \in WaveIds : Run(w)
  \/ place = "running" /\ Barrier
  \/ Done

Spec == Init /\ [][Next]_vars
-----------------------------------------------------------------------------
(* A wave stores the sum over all of K, each A slab once, in order, with   *)
(* the B slab and scales of the same step of K (and of the chunk's same    *)
(* column step), and the up half of a GLU multiplies it with a gate sum    *)
(* as complete: no hand-placed wait is one operation short, no slab of A   *)
(* is overwritten under a reader, and no refill lands in what is read.     *)
(* And a slab's product is the product: the kernel's lanes stage, read,    *)
(* decode and store the same rows, columns and k.                          *)
FullSum(w) ==
  [i \in 1 .. KSteps |->
    <<i - 1, IF call.kernel = "gateup" THEN i - 1 ELSE Now(w).step * KSteps + i - 1>>]

ShapeOf ==
  IF call.kernel = "gateup" THEN Shape("gateup", call.bm, Nt, 1, call.situ)
  ELSE Shape("down", call.bm, nt_for(call.bm, Nt), KSteps, FALSE)

StoresFullSum ==
  \A w \in WaveIds : At(w, "store") => sum[w] = FullSum(w) /\ ShapeOf \in SoundShapes

(* Every column of every row that a call owes is written by exactly one    *)
(* lane of one workgroup, a padding row or a row of an expert elsewhere by *)
(* none; and where C and a row fit the offsets, a store lands on its own   *)
(* row and column or, for a padding row, nowhere.                          *)
Fits(job) == (job.valid + 1) * job.stride_cm * 2 <= OffsetRange

EveryOutputOnce ==
  place = "entry" /\ Admits(call) /\ Built(call) =>
    LET job == Job(call) IN
    \A m \in 0 .. live_m(job) - 1, n \in 0 .. job.N - 1 :
      LET by == Writers(job, m, n) IN
      /\ Cardinality(by) = (IF job.experts[m + 1] >= 0 THEN 1 ELSE 0)
      /\ Fits(job) => \A x \in by, r \in 1 .. Rows(job) :
           LET slot == job.sorted[m * Rows(job) + r]
               first == FirstColumn(job, x[2][1], x[2][2])
           IN Lands(job, slot, x[2][1], x[2][2]) =
                (IF slot < job.valid THEN {(slot * job.stride_cm + first) * 2} ELSE {})

(* The weights a lane multiplies with its eight A elements are the eight   *)
(* the checkpoint meant, in k order: the stock layout repacked, unpacked by*)
(* two table lookups with the scale folded in.                             *)
Nibbles(q) == [m \in 1 .. 8 |-> (q + 5 * m) % 16]
DequantExact ==
  place = "load" =>
    \A e \in Scales, q \in 0 .. 15 :
      InRange(e) => Decoded(Nibbles(q), e) = Meant(Nibbles(q), e)

(* Whatever the planners answer for a load, the entry point admits and a   *)
(* kernel is built for, and the chunk lies within the columns; a down call *)
(* they refuse may go to gateup.                                           *)
Ks == {128 * i : i \in 1 .. 8}
PlansAreBuilt ==
  place = "load" =>
    \A l \in Loads, K \in Ks :
      LET g == moe_gateup_block_m(l[1], l[2])
          d == moe_down_block_m(l[1], l[2], K)
          nt == moe_down_nt(l[1], l[2])
          n == moe_down_n_steps(l[3], l[4], l[5], d, nt)
      IN /\ gateup_tile_ok(g) /\ Built([kernel |-> "gateup", bm |-> g])
         /\ d # 0 => /\ down_tile_ok(d) /\ down_k_ok(K)
                     /\ Built([kernel |-> "down", bm |-> d, K |-> K])
                     /\ n \in 1 .. Ceil(l[4], bn_for(d, nt))
=============================================================================
