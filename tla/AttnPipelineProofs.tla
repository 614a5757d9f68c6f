------------------------- MODULE AttnPipelineProofs -------------------------
(***************************************************************************)
(* Safety of the gfx950 attention K/V pipeline for any number of waves in  *)
(* either group, any number of tiles and any live tiles per wave.          *)
(*                                                                         *)
(* The argument: a wave's place and block determine how many barriers have *)
(* been released (Control), and that number alone determines what its rows *)
(* of the rings hold and which loads it may have in flight (RowsLive,      *)
(* InFlight, Issued).  Both are about one wave; barriers make the number   *)
(* common to all, so a reader of any wave finds its tile in every wave's   *)
(* rows.  With p barriers passed, tiles p - 2 and p - 1 of K and p - 3 and *)
(* p - 2 of V are in use, and only K(p) and V(p - 1) are loading: a ring   *)
(* of three is exactly enough.  The pipeline's walk over the tiles is last.*)
(***************************************************************************)
EXTENDS AttnPipeline, SequenceTheorems, TLAPS

(* The barriers passed, from a wave's place.                               *)
ControlA(w) ==
  LET t == blk[w] IN
  /\ pc[w] \in {"pv", "pv_k", "qk"} => passed = t + 1 /\ t <= numLive[w]
  /\ pc[w] \in {"drain", "wait_tile"} => passed = t + 1
  /\ pc[w] = "softmax" => passed = t + 2 /\ t < numLive[w]
  /\ pc[w] = "dma" => passed = t + 1 /\ numLive[w] < t

ControlB(w) ==
  LET t == blk[w] IN
  /\ pc[w] \in {"pv", "pv_k", "qk"} => passed = t + 2 /\ t <= numLive[w]
  /\ pc[w] \in {"drain", "wait_tile"} => passed = t + 1
  /\ pc[w] = "softmax" => passed = t + 2 /\ t < numLive[w]
  /\ pc[w] = "dma" => passed = t + 2 /\ numLive[w] < t

ControlCommon(w) ==
  LET t == blk[w] IN
  /\ t <= numTiles
  /\ pc[w] \in {"prologue", "settle", "wait_start"} => t = 0 /\ passed = 0
  /\ pc[w] = "frags" => t = 0 /\ passed = 1
  /\ pc[w] \in {"epilogue", "wait_stage"} => passed = numTiles + 2
  /\ pc[w] = "stage" => passed = numTiles + 3
  /\ pc[w] \in {"wait_stage", "stage"} => kind = "whole"
  /\ pc[w] = "end" => \/ kind = "empty"
                      \/ kind = "part" /\ passed = numTiles + 2
                      \/ kind = "whole" /\ passed = numTiles + 3
  /\ kind = "empty" => pc[w] \in {"prologue", "end"} /\ passed = 0 /\ dma[w] = <<>>

Control(w) ==
  /\ ControlCommon(w)
  /\ w \in GroupA => ControlA(w)
  /\ w \in GroupB => ControlB(w)

(* A tile's rows of wave u: loaded, or in flight.                          *)
Fresh(u, ring, n) ==
  \/ Holds(u, ring, n)
  \/ \E i \in 1 .. Len(dma[u]) : dma[u][i] = Load(ring, n)

(* The loads a wave may have in flight once the first barrier is passed.   *)
InFlight(u) ==
  passed >= 1 => \A i \in 1 .. Len(dma[u]) :
                   dma[u][i] \in {Load("K", passed), Load("V", passed - 1)}

(* The tiles in use hold until O is staged.                                *)
RowsLive(u) ==
  /\ passed = 1 => Holds(u, "V", 0)
  /\ passed >= 1 => Holds(u, "K", passed - 1)
  /\ passed >= 2 => Holds(u, "K", passed - 2) /\ Holds(u, "V", passed - 2)
  /\ passed >= 3 => Holds(u, "V", passed - 3)

(* Before the first barrier: the prologue's loads land in order.           *)
Prologued(u) ==
  LET L == PrologueLoads(u) IN
  passed = 0 =>
    /\ pc[u] \in {"prologue", "end"} => dma[u] = <<>>
    /\ pc[u] \in {"settle", "wait_start"} =>
         /\ Len(dma[u]) <= Len(L)
         /\ \A i \in 1 .. Len(dma[u]) : dma[u][i] = L[i + Len(L) - Len(dma[u])]
         /\ \A j \in 1 .. Len(L) - Len(dma[u]) : Holds(u, L[j].ring, L[j].tile)
    /\ pc[u] = "wait_start" => Len(dma[u]) <= StartOutstanding(u)

(* What a wave has already asked for in its current window.                *)
Issued(u) ==
  /\ pc[u] \in {"pv_k", "qk"} \/ (pc[u] \in {"drain", "wait_tile"})
       \/ (u \in GroupB /\ pc[u] \in {"frags", "softmax"})
     => Fresh(u, "K", passed)
  /\ pc[u] \in {"qk", "drain", "wait_tile"} \/ (u \in GroupB /\ pc[u] = "softmax")
     => Fresh(u, "V", passed - 1)
  /\ pc[u] \in {"wait_tile", "wait_stage", "stage"} => dma[u] = <<>>
  /\ pc[u] = "end" /\ kind = "whole" => dma[u] = <<>>
  /\ u \in GroupB /\ pc[u] = "frags" => Fresh(u, "V", passed - 1)

Wave(u) ==
  /\ Control(u)
  /\ InFlight(u)
  /\ passed <= numTiles + 2 => RowsLive(u)
  /\ Prologued(u)
  /\ Issued(u)

(* TypeOK without the bounds that follow from Control.                     *)
Types ==
  /\ kind \in {"whole", "part", "empty"}
  /\ numTiles \in 0 .. MaxTiles
  /\ numLive \in [Waves -> 0 .. numTiles]
  /\ pc \in [Waves -> Places]
  /\ blk \in [Waves -> Nat]
  /\ dma \in [Waves -> Seq([ring : Rings, buf : Buffers, tile : Nat])]
  /\ slab \in [Waves -> [Rings -> [Buffers -> Int]]]
  /\ passed \in Nat

IInv == Types /\ \A w \in Waves : Wave(w)
-----------------------------------------------------------------------------
(* Tiles less than a ring's depth apart take different buffers.            *)
LEMMA BufFacts ==
  /\ \A n \in Nat : BufOf(n) \in Buffers
  /\ \A m, n \in Nat : n < m /\ m < n + TileBufs => BufOf(m) # BufOf(n)
BY DEF BufOf, Buffers, TileBufs

LoadT == [ring : Rings, buf : Buffers, tile : Nat]

(* A load the kernel issues, of a tile that exists, is in LoadSet.         *)
LEMMA LoadType ==
  ASSUME NEW r \in Rings, NEW n \in Nat
  PROVE  Load(r, n) \in LoadT
BY BufFacts DEF Load, LoadT

(* What the invariant says of one wave's types, as facts to cite.          *)
LEMMA WaveTypes ==
  ASSUME Types, NEW w \in Waves
  PROVE  /\ blk[w] \in Nat /\ numTiles \in Nat /\ numLive[w] \in 0 .. numTiles
         /\ pc[w] \in Places /\ dma[w] \in Seq(LoadT)
         /\ slab[w] \in [Rings -> [Buffers -> Int]] /\ passed \in Nat
<1>1. numTiles \in Nat
  BY TilesAssumption DEF Types
<1>2. numLive[w] \in 0 .. numTiles
  BY DEF Types
<1>3. blk[w] \in Nat /\ pc[w] \in Places /\ passed \in Nat
  BY DEF Types
<1>4. dma[w] \in Seq(LoadT) /\ slab[w] \in [Rings -> [Buffers -> Int]]
  BY DEF Types, LoadT
<1> QED
  BY <1>1, <1>2, <1>3, <1>4

(* A step of w leaves what the invariant says of another wave alone.       *)
LEMMA OtherWaves ==
  ASSUME NEW u \in Waves, Wave(u),
         pc'[u] = pc[u], blk'[u] = blk[u], dma'[u] = dma[u], slab'[u] = slab[u],
         UNCHANGED <<passed, item>>
  PROVE  Wave(u)'
<1> USE DEF item, Holds
<1>1. Control(u)'
  BY DEF Wave, Control, ControlCommon, ControlA, ControlB
<1>2. InFlight(u)' /\ Issued(u)'
  BY DEF Wave, InFlight, Issued, Fresh
<1>3. (passed <= numTiles + 2 => RowsLive(u))'
  BY DEF Wave, RowsLive
<1>4. Prologued(u)'
  BY DEF Wave, Prologued
<1> QED
  BY <1>1, <1>2, <1>3, <1>4 DEF Wave

(* The prologue starts with no barrier passed, nothing loaded or read.     *)
LEMMA InitIInv == Init => IInv
<1> SUFFICES ASSUME Init PROVE IInv
  OBVIOUS
<1>1. Types
  BY TilesAssumption DEF Init, Types, Rings, Buffers, NoTile, Places, TileBufs
<1>2. ASSUME NEW w \in Waves PROVE Wave(w)
  <2> USE <1>2 DEF Init
  <2>1. Control(w)
    BY DEF Control, ControlCommon, ControlA, ControlB
  <2>2. InFlight(w) /\ Issued(w) /\ Prologued(w)
    BY DEF InFlight, Issued, Prologued
  <2>3. RowsLive(w)
    BY DEF RowsLive
  <2> QED
    BY <2>1, <2>2, <2>3 DEF Wave
<1> QED
  BY <1>1, <1>2 DEF IInv

(* A step of wave w other than a landing or a barrier's release: it moves  *)
(* w alone and adds to w's loads at most.                                  *)
LEMMA LocalStep ==
  ASSUME IInv, NEW w \in Waves, Types', Wave(w)',
         \A u \in Waves \ {w} : pc'[u] = pc[u] /\ blk'[u] = blk[u] /\ dma'[u] = dma[u]
                                  /\ slab'[u] = slab[u],
         UNCHANGED <<passed, item>>
  PROVE  IInv'
<1>1. ASSUME NEW u \in Waves PROVE Wave(u)'
  <2>1. CASE u = w
    BY <2>1
  <2>2. CASE u # w
    BY <2>2, OtherWaves DEF IInv
  <2> QED
    BY <2>1, <2>2
<1> QED
  BY <1>1 DEF IInv

(* Steps that move w's place or block and nothing else keep the data facts.*)
LEMMA QuietStep ==
  ASSUME IInv, NEW w \in Waves, NEW p \in Places, NEW b \in Nat,
         pc' = [pc EXCEPT ![w] = p], blk' = [blk EXCEPT ![w] = b],
         UNCHANGED <<item, dma, slab, passed>>,
         Control(w)', Prologued(w)', Issued(w)'
  PROVE  IInv'
<1> USE DEF IInv, item
<1>1. Types'
  BY DEF Types
<1>2. InFlight(w)' /\ (passed <= numTiles + 2 => RowsLive(w))'
  BY DEF Wave, InFlight, RowsLive, Holds
<1>3. Wave(w)'
  BY <1>2 DEF Wave
<1> QED
  BY <1>1, <1>3, LocalStep DEF Types

(* An empty item's wave returns before the prologue's DMA.                 *)
LEMMA SkipEmptyInv == ASSUME IInv, NEW w \in Waves, SkipEmpty(w) PROVE IInv'
<1> USE DEF SkipEmpty, Goto, item
<1>1. Types /\ Wave(w) /\ blk[w] \in Nat /\ blk' = [blk EXCEPT ![w] = blk[w]]
  BY DEF IInv, Types
<1>2. pc'[w] = "end"
  BY <1>1 DEF Types
<1>3. Control(w)'
  BY <1>1, <1>2 DEF Types, Wave, Control, ControlCommon, ControlA, ControlB
<1>4. Prologued(w)' /\ Issued(w)'
  BY <1>1, <1>2 DEF Types, Wave, Control, ControlCommon, Prologued, Issued
<1> QED
  BY <1>1, <1>3, <1>4, QuietStep DEF Places

(* start wait: only B's K(1) may still be in flight at the barrier.        *)
LEMMA ArriveStartInv == ASSUME IInv, NEW w \in Waves, ArriveStart(w) PROVE IInv'
<1> USE DEF ArriveStart, Goto, item
<1>1. Types /\ Wave(w) /\ blk[w] \in Nat /\ blk' = [blk EXCEPT ![w] = blk[w]]
  BY DEF IInv, Types
<1>2. pc'[w] = "wait_start"
  BY <1>1 DEF Types
<1>3. Control(w)'
  BY <1>1, <1>2 DEF Types, Wave, Control, ControlCommon, ControlA, ControlB
<1>4. Prologued(w)'
  BY <1>1, <1>2 DEF Types, Wave, Prologued, StartOutstanding, PrologueLoads, Holds
<1>5. Issued(w)'
  BY <1>1, <1>2 DEF Types, Wave, Issued
<1> QED
  BY <1>1, <1>3, <1>4, <1>5, QuietStep DEF Places, AtBarrier

(* Block 0's fragments read V(0), visible since the start barrier.         *)
LEMMA FirstFragsInv == ASSUME IInv, NEW w \in Waves, FirstFrags(w) PROVE IInv'
<1> USE DEF FirstFrags, Goto, item
<1>1. Types /\ Wave(w) /\ blk[w] \in Nat /\ blk' = [blk EXCEPT ![w] = blk[w]]
  BY DEF IInv, Types
<1>2. pc'[w] = IF w \in GroupA THEN "pv" ELSE "drain"
  BY <1>1 DEF Types
<1>3. Control(w)'
  BY <1>1, <1>2, GroupsAssumption
     DEF Types, Wave, Control, ControlCommon, ControlA, ControlB
<1>4. Prologued(w)'
  BY <1>1, <1>2 DEF Types, Wave, Control, ControlCommon, Prologued
<1>5. Issued(w)'
  BY <1>1, <1>2, GroupsAssumption DEF Types, Wave, Issued, Fresh, Waves, Holds
<1> QED
  BY <1>1, <1>2, <1>3, <1>4, <1>5, QuietStep DEF Places, Reading

(* The end of A's block leads to its tile barrier.                         *)
LEMMA BlockEndAInv == ASSUME IInv, NEW w \in Waves, BlockEndA(w) PROVE IInv'
<1> USE DEF BlockEndA, Goto, item
<1>1. Types /\ Wave(w) /\ blk[w] \in Nat /\ blk' = [blk EXCEPT ![w] = blk[w]]
  BY DEF IInv, Types
<1>2. pc'[w] = "drain"
  BY <1>1 DEF Types
<1>3. Control(w)'
  BY <1>1, <1>2, GroupsAssumption
     DEF Types, Wave, Control, ControlCommon, ControlA, ControlB
<1>4. Prologued(w)'
  BY <1>1, <1>2 DEF Types, Wave, Control, ControlA, Prologued
<1>5. Issued(w)'
  BY <1>1, <1>2, GroupsAssumption DEF Types, Wave, Issued, Fresh, Holds
<1> QED
  BY <1>1, <1>2, <1>3, <1>4, <1>5, QuietStep DEF Places

(* The end of B's block leads to its softmax, a DMA-only block or out.     *)
LEMMA BlockEndBInv == ASSUME IInv, NEW w \in Waves, BlockEndB(w) PROVE IInv'
<1> USE DEF BlockEndB, Goto, item
<1>0. Types /\ Wave(w)
  BY DEF IInv
<1>1. Types /\ Wave(w) /\ blk[w] \in Nat /\ numLive[w] \in 0 .. numTiles /\ numTiles \in Nat
  BY <1>0, WaveTypes
<1>2. passed = blk[w] + 2 /\ blk[w] <= numLive[w]
  BY <1>1 DEF Wave, Control, ControlB
<1>3. PICK p \in {"softmax", "drain", "epilogue"}, b \in {blk[w], blk[w] + 1} :
        /\ pc' = [pc EXCEPT ![w] = p] /\ blk' = [blk EXCEPT ![w] = b]
        /\ p = "softmax" => b = blk[w] /\ b < numLive[w]
        /\ p = "drain" => b = blk[w] + 1 /\ b <= numTiles
        /\ p = "epilogue" => b = blk[w] /\ b = numTiles
  BY <1>1, <1>2 DEF Types
<1>4. pc'[w] = p /\ blk'[w] = b
  BY <1>1, <1>3 DEF Types
<1>5. Control(w)'
  BY <1>1, <1>2, <1>3, <1>4, GroupsAssumption
     DEF Types, Wave, Control, ControlCommon, ControlA, ControlB
<1>6. Prologued(w)'
  BY <1>1, <1>2, <1>4 DEF Types, Prologued
<1>7. Issued(w)'
  BY <1>1, <1>3, <1>4, GroupsAssumption DEF Types, Wave, Issued, Fresh, Holds
<1>8. p \in Places /\ b \in Nat
  BY <1>1, <1>3 DEF Places, Reading
<1> QED
  BY <1>3, <1>5, <1>6, <1>7, <1>8, QuietStep

(* The end of softmax t is the start of block t + 1.                       *)
LEMMA SoftmaxEndInv == ASSUME IInv, NEW w \in Waves, SoftmaxEnd(w) PROVE IInv'
<1> USE DEF SoftmaxEnd, Goto, item
<1>0. Types /\ Wave(w)
  BY DEF IInv
<1>1. Types /\ Wave(w) /\ blk[w] \in Nat /\ numLive[w] \in 0 .. numTiles /\ numTiles \in Nat
  BY <1>0, WaveTypes
<1>2. passed = blk[w] + 2 /\ blk[w] < numLive[w]
  BY <1>1 DEF Wave, Control, ControlA, ControlB, Waves
<1>3. pc'[w] = (IF w \in GroupA THEN "pv" ELSE "drain") /\ blk'[w] = blk[w] + 1
      /\ blk' = [blk EXCEPT ![w] = blk[w] + 1]
  BY <1>1 DEF Types
<1>4. Control(w)'
  BY <1>1, <1>2, <1>3, GroupsAssumption
     DEF Types, Wave, Control, ControlCommon, ControlA, ControlB
<1>5. Prologued(w)'
  BY <1>1, <1>2, <1>3 DEF Types, Prologued
<1>6. Issued(w)'
  BY <1>1, <1>3, GroupsAssumption DEF Types, Wave, Issued, Fresh, Waves, Holds
<1>7. blk[w] + 1 \in Nat /\ (IF w \in GroupA THEN "pv" ELSE "drain") \in Places
  BY <1>1 DEF Places, Reading
<1> QED
  BY <1>3, <1>4, <1>5, <1>6, <1>7, QuietStep

(* tile_barrier: vmcnt(0) leaves nothing in flight.                        *)
LEMMA ArriveTileInv == ASSUME IInv, NEW w \in Waves, ArriveTile(w) PROVE IInv'
<1> USE DEF ArriveTile, Goto, item
<1>1. Types /\ Wave(w) /\ blk[w] \in Nat /\ blk' = [blk EXCEPT ![w] = blk[w]]
  BY DEF IInv, Types
<1>2. pc'[w] = "wait_tile"
  BY <1>1 DEF Types
<1>3. Control(w)'
  BY <1>1, <1>2 DEF Types, Wave, Control, ControlCommon, ControlA, ControlB
<1>4. Prologued(w)'
  BY <1>1, <1>2, WaveTypes DEF Waves, Wave, Control, ControlA, ControlB, Prologued
<1>5. Issued(w)'
  BY <1>1, <1>2 DEF Types, Wave, Issued, Fresh, Holds
<1> QED
  BY <1>1, <1>3, <1>4, <1>5, QuietStep DEF Places, AtBarrier

(* A part's wave ends without staging.                                     *)
LEMMA PartEndInv == ASSUME IInv, NEW w \in Waves, PartEnd(w) PROVE IInv'
<1> USE DEF PartEnd, Goto, item
<1>1. Types /\ Wave(w) /\ blk[w] \in Nat /\ blk' = [blk EXCEPT ![w] = blk[w]]
  BY DEF IInv, Types
<1>2. pc'[w] = "end"
  BY <1>1 DEF Types
<1>3. Control(w)'
  BY <1>1, <1>2 DEF Types, Wave, Control, ControlCommon, ControlA, ControlB
<1>4. Prologued(w)' /\ Issued(w)'
  BY <1>1, <1>2, WaveTypes DEF Wave, Control, ControlCommon, Prologued, Issued
<1> QED
  BY <1>1, <1>3, <1>4, QuietStep DEF Places

(* The staging barrier is reached with the wave's own loads landed.        *)
LEMMA ArriveStageInv == ASSUME IInv, NEW w \in Waves, ArriveStage(w) PROVE IInv'
<1> USE DEF ArriveStage, Goto, item
<1>1. Types /\ Wave(w) /\ blk[w] \in Nat /\ blk' = [blk EXCEPT ![w] = blk[w]]
  BY DEF IInv, Types
<1>2. pc'[w] = "wait_stage"
  BY <1>1 DEF Types
<1>3. Control(w)'
  BY <1>1, <1>2 DEF Types, Wave, Control, ControlCommon, ControlA, ControlB
<1>4. Prologued(w)' /\ Issued(w)'
  BY <1>1, <1>2, WaveTypes DEF Wave, Control, ControlCommon, Prologued, Issued
<1> QED
  BY <1>1, <1>3, <1>4, QuietStep DEF Places, AtBarrier

(* A whole block's wave ends after its stores.                             *)
LEMMA StageEndInv == ASSUME IInv, NEW w \in Waves, StageEnd(w) PROVE IInv'
<1> USE DEF StageEnd, Goto, item
<1>1. Types /\ Wave(w) /\ blk[w] \in Nat /\ blk' = [blk EXCEPT ![w] = blk[w]]
  BY DEF IInv, Types
<1>2. pc'[w] = "end"
  BY <1>1 DEF Types
<1>3. Control(w)'
  BY <1>1, <1>2 DEF Types, Wave, Control, ControlCommon, ControlA, ControlB
<1>4. Prologued(w)' /\ Issued(w)'
  BY <1>1, <1>2, WaveTypes DEF Wave, Control, ControlCommon, Prologued, Issued
<1> QED
  BY <1>1, <1>3, <1>4, QuietStep DEF Places

-----------------------------------------------------------------------------
(* A load that is issued is in flight, and what was in flight still is.    *)
LEMMA IssueOne ==
  ASSUME NEW s \in Seq(LoadT), NEW e \in LoadT
  PROVE  /\ Append(s, e) \in Seq(LoadT)
         /\ Len(Append(s, e)) = Len(s) + 1 /\ Len(s) \in Nat
         /\ \A i \in 1 .. Len(s) : Append(s, e)[i] = s[i]
         /\ Append(s, e)[Len(s) + 1] = e
         /\ \A i \in 1 .. Len(Append(s, e)) :
              Append(s, e)[i] = e \/ (i \in 1 .. Len(s) /\ Append(s, e)[i] = s[i])
<1>1. Append(s, e) \in Seq(LoadT) /\ Len(Append(s, e)) = Len(s) + 1 /\ Len(s) \in Nat
  BY AppendProperties, LenProperties
<1>2. \A i \in 1 .. Len(s) : Append(s, e)[i] = s[i]
  BY AppendProperties
<1>3. Append(s, e)[Len(s) + 1] = e
  BY AppendProperties
<1> QED
  BY <1>1, <1>2, <1>3

(* A step of w that issues one load of its current window.                 *)
LEMMA IssueStep ==
  ASSUME IInv, NEW w \in Waves, NEW r \in Rings, NEW n \in Nat, passed >= 1,
         Load(r, n) \in {Load("K", passed), Load("V", passed - 1)},
         UNCHANGED <<slab, passed>>, dma' = [dma EXCEPT ![w] = Append(@, Load(r, n))]
  PROVE  /\ dma' \in [Waves -> Seq(LoadT)]
         /\ InFlight(w)'
         /\ Fresh(w, r, n)'
         /\ \A q \in Rings, m \in Nat : Fresh(w, q, m) => Fresh(w, q, m)'
<1> DEFINE s == dma[w]
           e == Load(r, n)
<1>1. Types /\ Wave(w) /\ s \in Seq(LoadT) /\ e \in LoadT
  BY LoadType, WaveTypes DEF IInv
<1>2. dma'[w] = Append(s, e)
  BY <1>1 DEF Types
<1>3. dma' \in [Waves -> Seq(LoadT)]
  BY <1>1, IssueOne DEF Types, LoadT
<1>4. InFlight(w)'
  <2>1. \A i \in 1 .. Len(s) : s[i] \in {Load("K", passed), Load("V", passed - 1)}
    BY <1>1 DEF Wave, InFlight
  <2>2. \A i \in 1 .. Len(Append(s, e)) :
          Append(s, e)[i] \in {Load("K", passed), Load("V", passed - 1)}
    BY <1>1, <2>1, IssueOne
  <2> QED
    BY <1>2, <2>2 DEF InFlight
<1>5. Fresh(w, r, n)'
  <2>1. Len(s) + 1 \in 1 .. Len(Append(s, e)) /\ Append(s, e)[Len(s) + 1] = e
    BY <1>1, IssueOne
  <2> QED
    BY <1>2, <2>1 DEF Fresh
<1>6. ASSUME NEW q \in Rings, NEW m \in Nat, Fresh(w, q, m)
      PROVE  Fresh(w, q, m)'
  <2>1. CASE Holds(w, q, m)
    BY <2>1 DEF Fresh, Holds
  <2>2. CASE \E i \in 1 .. Len(s) : s[i] = Load(q, m)
    <3>1. PICK i \in 1 .. Len(s) : s[i] = Load(q, m)
      BY <2>2
    <3>2. i \in 1 .. Len(Append(s, e)) /\ Append(s, e)[i] = Load(q, m)
      BY <1>1, <3>1, IssueOne
    <3> QED
      BY <1>2, <3>2 DEF Fresh
  <2> QED
    BY <1>6, <2>1, <2>2 DEF Fresh
<1> QED
  BY <1>3, <1>4, <1>5, <1>6

(* The prologue issues K(0), V(0) and B's K(1), to different buffers.      *)
LEMMA PrologueInv == ASSUME IInv, NEW w \in Waves, Prologue(w) PROVE IInv'
<1> USE DEF Prologue, Goto, item
<1>1. Types /\ Wave(w)
  BY DEF IInv
<1>2. pc'[w] = "settle" /\ pc' \in [Waves -> Places] /\ dma'[w] = PrologueLoads(w)
  BY <1>1 DEF Types, Places
<1>3. /\ Load("K", 0) \in LoadT /\ Load("V", 0) \in LoadT /\ Load("K", 1) \in LoadT
      /\ PrologueLoads(w) \in Seq(LoadT)
  BY LoadType DEF Rings, PrologueLoads
<1>4. Types'
  BY <1>1, <1>2, <1>3 DEF Types, LoadT
<1>5. Control(w)'
  BY <1>1, <1>2, GroupsAssumption
     DEF Types, Wave, Control, ControlCommon, ControlA, ControlB
<1>6. passed = 0
  BY <1>1 DEF Wave, Control, ControlCommon
<1>7. Prologued(w)'
  <2>1. \A n \in Nat : (1 .. n - n) = {} /\ n <= n /\ \A i \in 1 .. n : i + n - n = i
    OBVIOUS
  <2>2. Len(PrologueLoads(w)) \in Nat
    BY <1>3, LenProperties
  <2>3. \A i \in 1 .. Len(PrologueLoads(w)) :
          i + Len(PrologueLoads(w)) - Len(PrologueLoads(w)) = i
    BY <2>1, <2>2
  <2>4. 1 .. Len(PrologueLoads(w)) - Len(PrologueLoads(w)) = {}
    BY <2>1, <2>2
  <2> HIDE DEF Prologue
  <2> QED
    BY <1>2, <2>2, <2>3, <2>4 DEF Prologued
<1>8. InFlight(w)' /\ Issued(w)' /\ RowsLive(w)'
  BY <1>2, <1>6 DEF InFlight, Issued, RowsLive
<1> QED
  BY <1>1, <1>4, <1>5, <1>7, <1>8, LocalStep DEF Wave, Types

(* In the block, passed is the tile its K loads take, one past its V's.    *)
LEMMA WindowOfBlock ==
  ASSUME Types, NEW w \in Waves, Wave(w), pc[w] \in {"pv", "pv_k", "dma"}
  PROVE  /\ passed = blk[w] + KAhead(w) /\ passed - 1 = blk[w] + VAhead(w)
         /\ passed >= 1 /\ passed <= numTiles + 2
         /\ blk[w] \in Nat /\ passed \in Nat /\ passed - 1 \in Nat /\ numTiles \in Nat
         /\ numLive[w] \in 0 .. numTiles
BY WaveTypes, GroupsAssumption
   DEF Wave, Waves, Control, ControlCommon, ControlA, ControlB, KAhead, VAhead

(* dma_step's K loads take the buffer no wave reads in this window.        *)
LEMMA BlockDmaKInv == ASSUME IInv, NEW w \in Waves, BlockDmaK(w) PROVE IInv'
<1> USE DEF BlockDmaK, Goto, item
<1>1. Types /\ Wave(w)
  BY DEF IInv
<1>2. pc'[w] = "pv_k" /\ pc' \in [Waves -> Places]
  BY <1>1 DEF Types, Places, Reading
<1>3. passed = blk[w] + KAhead(w) /\ passed >= 1 /\ passed \in Nat /\ passed <= numTiles + 2
  BY <1>1, WindowOfBlock
<1>4. /\ dma' \in [Waves -> Seq(LoadT)] /\ InFlight(w)' /\ Fresh(w, "K", passed)'
  BY <1>3, IssueStep DEF Rings
<1>5. Types'
  BY <1>1, <1>2, <1>4 DEF Types, LoadT
<1>6. Control(w)'
  BY <1>1, <1>2, GroupsAssumption
     DEF Types, Wave, Control, ControlCommon, ControlA, ControlB
<1>7. Prologued(w)' /\ Issued(w)'
  BY <1>2, <1>3, <1>4 DEF Prologued, Issued, Fresh, Holds
<1>8. RowsLive(w)'
  BY <1>1, <1>3 DEF Wave, RowsLive, Holds
<1>9. Wave(w)'
  BY <1>4, <1>6, <1>7, <1>8 DEF Wave
<1> QED
  BY <1>1, <1>5, <1>9, LocalStep DEF Types

(* dma_step's V loads take the buffer no wave reads in this window.        *)
LEMMA BlockDmaVInv == ASSUME IInv, NEW w \in Waves, BlockDmaV(w) PROVE IInv'
<1> USE DEF BlockDmaV, Goto, item
<1>1. Types /\ Wave(w)
  BY DEF IInv
<1>2. pc'[w] = "qk" /\ pc' \in [Waves -> Places]
  BY <1>1 DEF Types, Places, Reading
<1>3. /\ passed - 1 = blk[w] + VAhead(w) /\ passed - 1 \in Nat
      /\ passed >= 1 /\ passed \in Nat /\ passed <= numTiles + 2
  BY <1>1, WindowOfBlock
<1>4. /\ dma' \in [Waves -> Seq(LoadT)] /\ InFlight(w)' /\ Fresh(w, "V", passed - 1)'
      /\ \A q \in Rings, m \in Nat : Fresh(w, q, m) => Fresh(w, q, m)'
  BY <1>3, IssueStep DEF Rings
<1>5. Types'
  BY <1>1, <1>2, <1>4 DEF Types, LoadT
<1>6. Control(w)'
  BY <1>1, <1>2, GroupsAssumption
     DEF Types, Wave, Control, ControlCommon, ControlA, ControlB
<1>7. Fresh(w, "K", passed)'
  <2>1. Fresh(w, "K", passed)
    BY <1>1 DEF Wave, Issued
  <2>2. \A m \in Nat : Fresh(w, "K", m) => Fresh(w, "K", m)'
    BY <1>4 DEF Rings
  <2> QED
    BY <1>3, <2>1, <2>2 DEF Fresh, Holds
<1>8. Prologued(w)' /\ Issued(w)'
  BY <1>2, <1>3, <1>4, <1>7 DEF Prologued, Issued, Fresh, Holds
<1>9. RowsLive(w)'
  BY <1>1, <1>3 DEF Wave, RowsLive, Holds
<1>10. Wave(w)'
  BY <1>4, <1>6, <1>8, <1>9 DEF Wave
<1> QED
  BY <1>1, <1>5, <1>10, LocalStep DEF Types

(* t: the loads s, then e and f.                                           *)
IssuedTwo(s, t, e, f) ==
  /\ t \in Seq(LoadT)
  /\ \A i \in 1 .. Len(t) : t[i] \in {e, f} \/ (i \in 1 .. Len(s) /\ t[i] = s[i])
  /\ \E i \in 1 .. Len(t) : t[i] = e
  /\ \E i \in 1 .. Len(t) : t[i] = f

(* A load pair issued in one step, as dma_only_block's K and V are.        *)
LEMMA IssueTwo ==
  ASSUME NEW s \in Seq(LoadT), NEW e \in LoadT, NEW f \in LoadT,
         NEW t, t = Append(Append(s, e), f)
  PROVE  IssuedTwo(s, t, e, f)
<1> DEFINE m == Append(s, e)
<1>0. t = Append(m, f)
  OBVIOUS
<1>1. /\ m \in Seq(LoadT) /\ Len(m) = Len(s) + 1 /\ Len(s) \in Nat /\ m[Len(s) + 1] = e
      /\ \A i \in 1 .. Len(m) : m[i] = e \/ (i \in 1 .. Len(s) /\ m[i] = s[i])
  BY IssueOne
<1> HIDE DEF m
<1>2. /\ t \in Seq(LoadT) /\ Len(t) = Len(m) + 1 /\ Len(m) \in Nat /\ t[Len(m) + 1] = f
      /\ \A i \in 1 .. Len(m) : t[i] = m[i]
      /\ \A i \in 1 .. Len(t) : t[i] = f \/ (i \in 1 .. Len(m) /\ t[i] = m[i])
  BY <1>0, <1>1, IssueOne
<1>3. \A i \in 1 .. Len(t) : t[i] \in {e, f} \/ (i \in 1 .. Len(s) /\ t[i] = s[i])
  BY <1>1, <1>2
<1>4. Len(s) + 1 \in 1 .. Len(t) /\ t[Len(s) + 1] = e
  BY <1>1, <1>2
<1>5. Len(m) + 1 \in 1 .. Len(t) /\ t[Len(m) + 1] = f
  BY <1>1, <1>2
<1> QED
  BY <1>2, <1>3, <1>4, <1>5 DEF IssuedTwo

(* A DMA-only block issues what a computed block would have.               *)
LEMMA DmaOnlyBlockInv == ASSUME IInv, NEW w \in Waves, DmaOnlyBlock(w) PROVE IInv'
<1> USE DEF item
<1> DEFINE s == dma[w]
           e == Load("K", passed)
           f == Load("V", passed - 1)
           t == Append(Append(s, e), f)
<1>1. Types /\ Wave(w) /\ s \in Seq(LoadT)
  BY WaveTypes DEF IInv
<1>2. /\ passed = blk[w] + KAhead(w) /\ passed - 1 = blk[w] + VAhead(w) /\ passed >= 1
      /\ passed \in Nat /\ passed - 1 \in Nat /\ passed <= numTiles + 2
      /\ blk[w] \in Nat /\ numTiles \in Nat /\ numLive[w] \in 0 .. numTiles
  BY <1>1, WindowOfBlock DEF DmaOnlyBlock
<1>3. dma' = [dma EXCEPT ![w] = t] /\ UNCHANGED <<kind, numTiles, numLive, slab, passed>>
  BY <1>2 DEF DmaOnlyBlock
<1>4. /\ t \in Seq(LoadT)
      /\ \A i \in 1 .. Len(t) : t[i] \in {e, f} \/ (i \in 1 .. Len(s) /\ t[i] = s[i])
      /\ \E i \in 1 .. Len(t) : t[i] = e
      /\ \E i \in 1 .. Len(t) : t[i] = f
  <2>1. e \in LoadT /\ f \in LoadT
    BY <1>2, LoadType DEF Rings
  <2>2. t = Append(Append(s, e), f)
    OBVIOUS
  <2> HIDE DEF e, f, t, s
  <2>3. IssuedTwo(s, t, e, f)
    BY <1>1, <2>1, <2>2, IssueTwo
  <2> QED
    BY <2>3 DEF IssuedTwo
<1>5. PICK p \in {"drain", "epilogue"}, b \in {blk[w], blk[w] + 1} :
        /\ pc' = [pc EXCEPT ![w] = p] /\ blk' = [blk EXCEPT ![w] = b]
        /\ p = "drain" /\ w \in GroupA => b = blk[w]
        /\ p = "drain" /\ w \in GroupB => b = blk[w] + 1 /\ b <= numTiles
        /\ p = "epilogue" => w \in GroupB /\ b = blk[w] /\ b >= numTiles
  BY <1>1, <1>2, GroupsAssumption DEF DmaOnlyBlock, Goto, Types
<1>6. pc[w] = "dma" /\ pc'[w] = p /\ blk'[w] = b /\ dma'[w] = t /\ p \in Places /\ b \in Nat
  BY <1>1, <1>2, <1>3, <1>5 DEF DmaOnlyBlock, Types, Places
<1>7. Types'
  <2>1. dma' \in [Waves -> Seq(LoadT)]
    BY <1>1, <1>3, <1>4 DEF Types, LoadT
  <2> QED
    BY <1>1, <1>3, <1>5, <1>6, <2>1 DEF Types, LoadT
<1>8. Control(w)'
  <2>1. kind # "empty" /\ blk[w] <= numTiles
    BY <1>1, <1>6 DEF Wave, Control, ControlCommon
  <2>2. w \in GroupA => passed = blk[w] + 1
    BY <1>2 DEF KAhead
  <2>3. w \in GroupB => passed = blk[w] + 2
    BY <1>2, GroupsAssumption DEF KAhead
  <2>4. b <= numTiles /\ (w \in GroupA \/ w \in GroupB)
    BY <1>2, <1>5, <2>1 DEF Waves
  <2> QED
    BY <1>2, <1>3, <1>5, <1>6, <2>1, <2>2, <2>3, <2>4, GroupsAssumption
       DEF Control, ControlCommon, ControlA, ControlB
<1>9. InFlight(w)'
  <2>1. \A i \in 1 .. Len(s) : s[i] \in {e, f}
    BY <1>1, <1>2 DEF Wave, InFlight
  <2>2. \A i \in 1 .. Len(t) : t[i] \in {e, f}
    BY <1>4, <2>1
  <2> QED
    BY <1>3, <1>6, <2>2 DEF InFlight
<1>10. Fresh(w, "K", passed)' /\ Fresh(w, "V", passed - 1)'
  BY <1>3, <1>4, <1>6 DEF Fresh
<1>11. Prologued(w)' /\ Issued(w)'
  BY <1>2, <1>3, <1>5, <1>6, <1>10 DEF Prologued, Issued
<1>12. RowsLive(w)'
  BY <1>1, <1>2, <1>3 DEF Wave, RowsLive, Holds
<1>13. Wave(w)'
  BY <1>8, <1>9, <1>11, <1>12 DEF Wave
<1> QED
  BY <1>1, <1>3, <1>5, <1>7, <1>13, LocalStep DEF Types

-----------------------------------------------------------------------------
(* A load that lands fills its own buffer and disturbs no other.           *)
LEMMA LandHolds ==
  ASSUME Types, NEW w \in Waves, NEW r \in Rings, NEW n \in Nat,
         slab' = [slab EXCEPT ![w][r][BufOf(n)] = n]
  PROVE  /\ slab' \in [Waves -> [Rings -> [Buffers -> Int]]]
         /\ Holds(w, r, n)'
         /\ \A q \in Rings, m \in Nat :
              Holds(w, q, m) /\ (q # r \/ BufOf(m) # BufOf(n) \/ m = n) => Holds(w, q, m)'
<1>1. BufOf(n) \in Buffers /\ \A m \in Nat : BufOf(m) \in Buffers
  BY BufFacts
<1>2. slab \in [Waves -> [Rings -> [Buffers -> Int]]]
  BY DEF Types
<1>3. slab' \in [Waves -> [Rings -> [Buffers -> Int]]]
  BY <1>1, <1>2
<1>4. slab'[w][r][BufOf(n)] = n
  BY <1>1, <1>2
<1>5. ASSUME NEW q \in Rings, NEW b \in Buffers, q # r \/ b # BufOf(n)
      PROVE  slab'[w][q][b] = slab[w][q][b]
  BY <1>1, <1>2, <1>5
<1>6. ASSUME NEW q \in Rings, NEW m \in Nat, Holds(w, q, m),
             q # r \/ BufOf(m) # BufOf(n) \/ m = n
      PROVE  Holds(w, q, m)'
  <2>1. CASE q # r \/ BufOf(m) # BufOf(n)
    BY <1>1, <1>5, <1>6, <2>1 DEF Holds
  <2>2. CASE q = r /\ m = n
    BY <1>4, <2>2 DEF Holds
  <2> QED
    BY <1>6, <2>1, <2>2, <1>4 DEF Holds
<1> QED
  BY <1>3, <1>4, <1>6 DEF Holds

(* The prologue's loads take different buffers.                            *)
LEMMA PrologueFacts ==
  ASSUME NEW w \in Waves
  PROVE  LET L == PrologueLoads(w) IN
         /\ Len(L) \in Nat /\ StartOutstanding(w) \in Nat
         /\ \A j \in 1 .. Len(L) :
              /\ L[j].ring \in Rings /\ L[j].tile \in Nat
              /\ L[j].buf = BufOf(L[j].tile)
         /\ \A i, j \in 1 .. Len(L) :
              i # j => L[i].ring # L[j].ring \/ BufOf(L[i].tile) # BufOf(L[j].tile)
<1>1. BufOf(0) # BufOf(1)
  BY BufFacts DEF TileBufs
<1>2. CASE w \in GroupA
  BY <1>2 DEF PrologueLoads, StartOutstanding, Load, Rings
<1>3. CASE w \notin GroupA
  BY <1>1, <1>3 DEF PrologueLoads, StartOutstanding, Load, Rings
<1> QED
  BY <1>2, <1>3

(* A load landing out of another wave's step keeps every wave's rows.      *)
LEMMA LandInv == ASSUME IInv, NEW w \in Waves, Land(w) PROVE IInv'
<1> USE DEF item
<1> DEFINE s == dma[w]
           d == Head(s)
<1>1. Types /\ Wave(w) /\ s \in Seq(LoadT) /\ s # <<>>
  BY WaveTypes DEF IInv, Land
<1>2. /\ d = s[1] /\ d \in LoadT /\ Tail(s) \in Seq(LoadT)
      /\ Len(s) \in Nat /\ Len(s) >= 1 /\ Len(Tail(s)) = Len(s) - 1
      /\ \A i \in 1 .. Len(Tail(s)) : Tail(s)[i] = s[i + 1]
  BY <1>1, HeadTailProperties, EmptySeq, LenProperties
<1>3. /\ slab' = [slab EXCEPT ![w][d.ring][d.buf] = d.tile]
      /\ dma' = [dma EXCEPT ![w] = Tail(s)]
      /\ UNCHANGED <<kind, numTiles, numLive, pc, blk, passed>>
  BY DEF Land
<1>4. dma'[w] = Tail(s) /\ dma' \in [Waves -> Seq(LoadT)]
  BY <1>1, <1>2, <1>3 DEF Types, LoadT
<1>5. /\ passed \in Nat /\ numTiles \in Nat /\ blk[w] \in Nat /\ numLive[w] \in 0 .. numTiles
      /\ pc[w] \in Places
  BY <1>1, WaveTypes
<1>6. kind # "empty" /\ pc[w] \notin {"wait_tile", "wait_stage", "stage"}
      /\ ~(pc[w] = "end" /\ kind = "whole")
  BY <1>1 DEF Wave, Control, ControlCommon, Issued
<1>7. Control(w)'
  BY <1>1, <1>3, <1>6 DEF Wave, Control, ControlCommon, ControlA, ControlB
<1>8. Types' /\ InFlight(w)' /\ ((passed <= numTiles + 2 => RowsLive(w)) /\ Prologued(w) /\ Issued(w))'
  <2>1. CASE passed = 0
    <3> PICK L : L = PrologueLoads(w)
      OBVIOUS
    <3> PICK k : k = 1 + Len(L) - Len(s)
      OBVIOUS
    <3>1. pc[w] \in {"settle", "wait_start"}
      BY <1>1, <1>5, <1>6, <2>1, GroupsAssumption
         DEF Wave, Control, ControlCommon, ControlA, ControlB, Prologued,
             Places, Reading, AtBarrier, Waves
    <3>a. /\ Len(L) \in Nat /\ StartOutstanding(w) \in Nat
          /\ \A j \in 1 .. Len(L) :
               /\ L[j].ring \in Rings /\ L[j].tile \in Nat
               /\ L[j].buf = BufOf(L[j].tile)
          /\ \A i, j \in 1 .. Len(L) :
               i # j => L[i].ring # L[j].ring \/ BufOf(L[i].tile) # BufOf(L[j].tile)
      BY PrologueFacts
    <3>2. /\ Len(s) <= Len(L)
          /\ pc[w] = "wait_start" => Len(s) <= StartOutstanding(w)
          /\ \A i \in 1 .. Len(s) : s[i] = L[i + Len(L) - Len(s)]
          /\ \A j \in 1 .. Len(L) - Len(s) : Holds(w, L[j].ring, L[j].tile)
      BY <1>1, <2>1, <3>1 DEF Wave, Prologued
    <3> HIDE DEF s, d
    <3>3. k \in 1 .. Len(L) /\ d = L[k]
      BY <1>2, <3>a, <3>2
    <3>4. L[k].ring \in Rings /\ L[k].tile \in Nat /\ L[k].buf = BufOf(L[k].tile)
      BY <3>3, <3>a
    <3>5. slab' = [slab EXCEPT ![w][L[k].ring][BufOf(L[k].tile)] = L[k].tile]
      BY <1>3, <3>3, <3>4
    <3>6. /\ slab' \in [Waves -> [Rings -> [Buffers -> Int]]]
          /\ Holds(w, L[k].ring, L[k].tile)'
          /\ \A q \in Rings, m \in Nat :
               Holds(w, q, m) /\ (q # L[k].ring \/ BufOf(m) # BufOf(L[k].tile))
                 => Holds(w, q, m)'
      BY <1>1, <3>4, <3>5, LandHolds
    <3>7. \A j \in 1 .. Len(L) - Len(Tail(s)) : Holds(w, L[j].ring, L[j].tile)'
      <4> SUFFICES ASSUME NEW j \in 1 .. Len(L) - Len(Tail(s))
                   PROVE  Holds(w, L[j].ring, L[j].tile)'
        OBVIOUS
      <4>1. j \in 1 .. Len(L) /\ (j = k \/ j \in 1 .. Len(L) - Len(s))
        BY <1>2, <3>a, <3>2
      <4>2. CASE j = k
        BY <3>6, <4>2
      <4>3. CASE j # k
        <5>1. Holds(w, L[j].ring, L[j].tile) /\ L[j].ring \in Rings /\ L[j].tile \in Nat
          BY <3>2, <3>a, <4>1, <4>3
        <5>2. L[j].ring # L[k].ring \/ BufOf(L[j].tile) # BufOf(L[k].tile)
          BY <3>3, <3>a, <4>1, <4>3
        <5> QED
          BY <3>6, <5>1, <5>2
      <4> QED
        BY <4>2, <4>3
    <3>8. \A i \in 1 .. Len(Tail(s)) : Tail(s)[i] = L[i + Len(L) - Len(Tail(s))]
      <4> SUFFICES ASSUME NEW i \in 1 .. Len(Tail(s))
                   PROVE  Tail(s)[i] = L[i + Len(L) - Len(Tail(s))]
        OBVIOUS
      <4>1. i + 1 \in 1 .. Len(s) /\ Tail(s)[i] = s[i + 1]
        BY <1>2
      <4>2. (i + 1) + Len(L) - Len(s) = i + Len(L) - Len(Tail(s))
        BY <1>2, <3>a, <3>2
      <4>3. s[i + 1] = L[(i + 1) + Len(L) - Len(s)]
        BY <3>2, <4>1
      <4> QED
        BY <4>1, <4>2, <4>3
    <3>9. Prologued(w)'
      <4>1. Len(Tail(s)) <= Len(L) /\ (pc[w] = "wait_start" => Len(Tail(s)) <= StartOutstanding(w))
        BY <1>2, <3>a, <3>2
      <4>2. PrologueLoads(w)' = L /\ StartOutstanding(w)' = StartOutstanding(w)
        BY DEF PrologueLoads, StartOutstanding
      <4> QED
        BY <1>3, <1>4, <3>1, <3>7, <3>8, <4>1, <4>2 DEF Prologued, Holds
    <3>10. Types'
      BY <1>1, <1>3, <1>4, <3>6 DEF Types, LoadT
    <3>11. InFlight(w)' /\ RowsLive(w)' /\ Issued(w)'
      BY <1>3, <2>1, <3>1 DEF InFlight, RowsLive, Issued
    <3> QED
      BY <3>9, <3>10, <3>11
  <2>2. CASE passed >= 1
    <3> DEFINE p == passed
    <3>1. d \in {Load("K", p), Load("V", p - 1)}
          /\ \A i \in 1 .. Len(s) : s[i] \in {Load("K", p), Load("V", p - 1)}
      BY <1>1, <1>2, <2>2 DEF Wave, InFlight
    <3>2. PICK r \in Rings, n \in Nat : d = Load(r, n) /\ <<r, n>> \in {<<"K", p>>, <<"V", p - 1>>}
      BY <1>5, <2>2, <3>1 DEF Rings
    <3>3. slab' = [slab EXCEPT ![w][r][BufOf(n)] = n]
      <4> HIDE DEF s, d
      <4>1. d.ring = r /\ d.buf = BufOf(n) /\ d.tile = n
        BY <3>2 DEF Load
      <4> QED
        BY <1>3, <4>1
    <3>4. /\ slab' \in [Waves -> [Rings -> [Buffers -> Int]]]
          /\ Holds(w, r, n)'
          /\ \A q \in Rings, m \in Nat :
               Holds(w, q, m) /\ (q # r \/ BufOf(m) # BufOf(n) \/ m = n) => Holds(w, q, m)'
      BY <1>1, <3>3, LandHolds
    <3>5. Types'
      BY <1>1, <1>3, <1>4, <3>4 DEF Types, LoadT
    <3>6. InFlight(w)'
      <4>1. \A i \in 1 .. Len(Tail(s)) : Tail(s)[i] \in {Load("K", p), Load("V", p - 1)}
        BY <1>2, <3>1
      <4> QED
        BY <1>3, <1>4, <4>1 DEF InFlight
    <3>7. (passed <= numTiles + 2 => RowsLive(w))'
      <4> SUFFICES ASSUME passed <= numTiles + 2 PROVE RowsLive(w)'
        BY <1>3
      <4>1. RowsLive(w)
        BY <1>1 DEF Wave
      <4>2. ASSUME NEW q \in Rings, NEW m \in Nat, Holds(w, q, m),
                   \/ q = "K" /\ m < p /\ p < m + 3
                   \/ q = "V" /\ m < p - 1 /\ p - 1 < m + 3
                   \/ q = "V" /\ m = p - 1
            PROVE  Holds(w, q, m)'
        <5>1. q # r \/ BufOf(m) # BufOf(n) \/ m = n
          BY <1>5, <2>2, <3>2, <4>2, BufFacts DEF TileBufs
        <5> QED
          BY <3>4, <4>2, <5>1
      <4>3. passed = 1 => Holds(w, "V", 0)'
        BY <4>1, <4>2 DEF RowsLive, Rings
      <4>4. Holds(w, "K", passed - 1)'
        <5>1. Holds(w, "K", p - 1) /\ p - 1 \in Nat
          BY <1>5, <2>2, <4>1 DEF RowsLive
        <5>2. Holds(w, "K", p - 1)'
          BY <1>3, <1>5, <4>2, <5>1 DEF Rings
        <5> QED
          BY <1>3, <5>2
      <4>5. ASSUME passed >= 2 PROVE Holds(w, "K", passed - 2)' /\ Holds(w, "V", passed - 2)'
        <5>1. Holds(w, "K", p - 2) /\ Holds(w, "V", p - 2) /\ p - 2 \in Nat
          BY <1>5, <4>1, <4>5 DEF RowsLive
        <5>2. Holds(w, "K", p - 2)' /\ Holds(w, "V", p - 2)'
          BY <1>3, <1>5, <4>2, <5>1 DEF Rings
        <5> QED
          BY <1>3, <5>2
      <4>6. ASSUME passed >= 3 PROVE Holds(w, "V", passed - 3)'
        <5>1. Holds(w, "V", p - 3) /\ p - 3 \in Nat
          BY <1>5, <4>1, <4>6 DEF RowsLive
        <5>2. Holds(w, "V", p - 3)'
          BY <1>3, <1>5, <4>2, <5>1 DEF Rings
        <5> QED
          BY <1>3, <5>2
      <4> QED
        BY <1>3, <4>3, <4>4, <4>5, <4>6 DEF RowsLive, Holds
    <3>8. ASSUME NEW q \in Rings, NEW m \in Nat, <<q, m>> \in {<<"K", p>>, <<"V", p - 1>>},
                 Fresh(w, q, m)
          PROVE  Fresh(w, q, m)'
      <4>1. CASE Holds(w, q, m)
        <5>1. q # r \/ m = n
          BY <3>2, <3>8
        <5> QED
          BY <3>4, <4>1, <5>1 DEF Fresh
      <4>2. CASE \E i \in 1 .. Len(s) : s[i] = Load(q, m)
        <5>1. PICK i \in 1 .. Len(s) : s[i] = Load(q, m)
          BY <4>2
        <5>2. CASE i = 1
          <6>1. Load(q, m) = Load(r, n)
            BY <1>2, <3>2, <5>1, <5>2
          <6>2. q = r /\ m = n
            BY <6>1 DEF Load
          <6> QED
            BY <3>4, <6>2 DEF Fresh
        <5>3. CASE i # 1
          <6>1. i - 1 \in 1 .. Len(Tail(s)) /\ Tail(s)[i - 1] = Load(q, m)
            BY <1>2, <5>1, <5>3
          <6> QED
            BY <1>4, <6>1 DEF Fresh
        <5> QED
          BY <5>2, <5>3
      <4> QED
        BY <3>8, <4>1, <4>2 DEF Fresh
    <3>9. /\ Fresh(w, "K", passed) => Fresh(w, "K", passed)'
          /\ Fresh(w, "V", passed - 1) => Fresh(w, "V", passed - 1)'
      <4>1. Fresh(w, "K", p) => Fresh(w, "K", p)'
        BY <1>3, <1>5, <3>8 DEF Rings
      <4>2. p - 1 \in Nat
        BY <1>5, <2>2
      <4>3. Fresh(w, "V", p - 1) => Fresh(w, "V", p - 1)'
        BY <1>3, <3>8, <4>2 DEF Rings
      <4> QED
        BY <4>1, <4>3
    <3>10. Issued(w)'
      BY <1>1, <1>3, <1>6, <3>9 DEF Wave, Issued, Fresh, Holds
    <3>11. Prologued(w)'
      BY <1>3, <1>5, <2>2 DEF Prologued
    <3> QED
      BY <3>5, <3>6, <3>7, <3>10, <3>11
  <2> QED
    BY <1>5, <2>1, <2>2
<1>9. Wave(w)'
  BY <1>7, <1>8 DEF Wave
<1> QED
  BY <1>1, <1>3, <1>8, <1>9, LocalStep DEF Types

-----------------------------------------------------------------------------
(* Which of the kernel's barriers a wave is at, from the number passed.    *)
LEMMA BarrierPlaces ==
  ASSUME Types, NEW u \in Waves, Wave(u)
  PROVE  /\ pc[u] = "wait_start" => passed = 0 /\ blk[u] = 0
         /\ pc[u] = "wait_tile" => passed = blk[u] + 1 /\ blk[u] <= numTiles
         /\ pc[u] = "wait_stage" => passed = numTiles + 2 /\ kind = "whole"
         /\ pc[u] \in AtBarrier => kind # "empty"
BY WaveTypes, GroupsAssumption
   DEF Wave, Control, ControlCommon, ControlA, ControlB, AtBarrier, Waves

(* No wave has ended while another waits at a barrier.                     *)
LEMMA NoneEnded ==
  ASSUME IInv, NEW u \in Waves, NEW v \in Waves, pc[v] \in AtBarrier
  PROVE  pc[u] # "end"
<1>1. Types /\ Wave(u) /\ Wave(v)
  BY DEF IInv
<1>2. pc[u] = "end" => \/ kind = "empty"
                       \/ kind = "part" /\ passed = numTiles + 2
                       \/ kind = "whole" /\ passed = numTiles + 3
  BY <1>1 DEF Wave, Control, ControlCommon
<1>3. passed \in Nat /\ numTiles \in Nat /\ blk[v] \in Nat
  BY <1>1, WaveTypes
<1> QED
  BY <1>1, <1>2, <1>3, BarrierPlaces DEF AtBarrier

(* The barrier of the start: tile 0 has landed and B's K(1) is under way.  *)
LEMMA ReleaseStart ==
  ASSUME IInv, NEW u \in Waves, pc[u] = "wait_start", pc'[u] = "frags", blk'[u] = blk[u],
         passed' = passed + 1, UNCHANGED <<item, dma, slab>>
  PROVE  Wave(u)'
<1> USE DEF item
<1>1. Types /\ Wave(u) /\ passed = 0 /\ blk[u] = 0 /\ kind # "empty"
  BY BarrierPlaces DEF IInv, AtBarrier
<1>2. numTiles \in Nat /\ dma[u] \in Seq(LoadT) /\ Len(dma[u]) \in Nat
  BY <1>1, WaveTypes, LenProperties
<1>3. /\ Len(dma[u]) <= StartOutstanding(u)
      /\ \A i \in 1 .. Len(dma[u]) :
           dma[u][i] = PrologueLoads(u)[i + Len(PrologueLoads(u)) - Len(dma[u])]
      /\ \A j \in 1 .. Len(PrologueLoads(u)) - Len(dma[u]) :
           Holds(u, PrologueLoads(u)[j].ring, PrologueLoads(u)[j].tile)
  BY <1>1 DEF Wave, Prologued
<1>4. /\ Holds(u, "K", 0) /\ Holds(u, "V", 0)
      /\ \A i \in 1 .. Len(dma[u]) : dma[u][i] = Load("K", 1)
      /\ u \in GroupB => Fresh(u, "K", 1)
  <2>1. CASE u \in GroupA
    <3>1. /\ Len(PrologueLoads(u)) = 2 /\ PrologueLoads(u)[1] = Load("K", 0)
          /\ PrologueLoads(u)[2] = Load("V", 0)
      BY <2>1 DEF PrologueLoads
    <3>2. Len(dma[u]) = 0
      BY <1>2, <1>3, <2>1 DEF StartOutstanding
    <3> QED
      BY <1>2, <1>3, <2>1, <3>1, <3>2, GroupsAssumption DEF Load
  <2>2. CASE u \notin GroupA
    <3>1. /\ Len(PrologueLoads(u)) = 3 /\ PrologueLoads(u)[1] = Load("K", 0)
          /\ PrologueLoads(u)[2] = Load("V", 0) /\ PrologueLoads(u)[3] = Load("K", 1)
      BY <2>2 DEF PrologueLoads
    <3>2. CASE Len(dma[u]) = 0
      BY <1>3, <3>1, <3>2 DEF Load, Fresh
    <3>3. CASE Len(dma[u]) = 1
      BY <1>3, <3>1, <3>3 DEF Load, Fresh
    <3>4. Len(dma[u]) = 0 \/ Len(dma[u]) = 1
      <4>1. StartOutstanding(u) = 1
        BY <2>2 DEF StartOutstanding
      <4>2. \A n \in Nat : n <= 1 => n = 0 \/ n = 1
        OBVIOUS
      <4> QED
        BY <1>2, <1>3, <4>1, <4>2
    <3> QED
      BY <3>2, <3>3, <3>4
  <2> QED
    BY <2>1, <2>2
<1>5. Control(u)'
  BY <1>1, <1>2 DEF Control, ControlCommon, ControlA, ControlB
<1>6. InFlight(u)'
  BY <1>1, <1>4 DEF InFlight
<1>7. RowsLive(u)'
  BY <1>1, <1>4 DEF RowsLive, Holds
<1>8. Prologued(u)' /\ Issued(u)'
  BY <1>1, <1>4 DEF Prologued, Issued, Fresh, Holds
<1> QED
  BY <1>5, <1>6, <1>7, <1>8 DEF Wave

(* A tile barrier: what the window loaded is visible to every wave.        *)
LEMMA ReleaseTile ==
  ASSUME IInv, NEW u \in Waves, pc[u] = "wait_tile",
         pc'[u] = AfterTileBarrier(u)[1], blk'[u] = AfterTileBarrier(u)[2],
         passed' = passed + 1, UNCHANGED <<item, dma, slab>>
  PROVE  Wave(u)'
<1> USE DEF item
<1>1. Types /\ Wave(u) /\ passed = blk[u] + 1 /\ blk[u] <= numTiles /\ kind # "empty"
  BY BarrierPlaces DEF IInv, AtBarrier
<1>2. numTiles \in Nat /\ blk[u] \in Nat /\ numLive[u] \in 0 .. numTiles /\ passed \in Nat
  BY <1>1, WaveTypes
<1>3. dma[u] = <<>> /\ Len(dma[u]) = 0
  BY <1>1 DEF Wave, Issued
<1>4. Holds(u, "K", passed) /\ Holds(u, "V", passed - 1)
  BY <1>1, <1>3 DEF Wave, Issued, Fresh
<1>5. RowsLive(u)
  BY <1>1, <1>2 DEF Wave
<1>6. RowsLive(u)'
  <2>1. passed' # 1 /\ passed' - 1 = passed /\ passed' - 2 = passed - 1
        /\ passed' - 3 = passed - 2 /\ (passed' >= 3 => passed >= 2) /\ passed >= 1
    BY <1>1, <1>2
  <2>2. Holds(u, "K", passed - 1) /\ (passed >= 2 => Holds(u, "V", passed - 2))
    BY <1>5, <2>1 DEF RowsLive
  <2> QED
    BY <1>4, <2>1, <2>2 DEF RowsLive, Holds
<1>7. InFlight(u)' /\ Prologued(u)'
  BY <1>1, <1>2, <1>3 DEF InFlight, Prologued
<1>8. Control(u)' /\ Issued(u)'
  <2>1. CASE u \in GroupA
    <3>1. CASE blk[u] < numLive[u]
      <4>1. pc'[u] = "softmax" /\ blk'[u] = blk[u]
        BY <1>2, <2>1, <3>1, GroupsAssumption DEF AfterTileBarrier
      <4> QED
        BY <1>1, <1>2, <2>1, <3>1, <4>1, GroupsAssumption
           DEF Control, ControlCommon, ControlA, ControlB, Issued
    <3>2. CASE blk[u] >= numLive[u] /\ blk[u] < numTiles
      <4>1. pc'[u] = "dma" /\ blk'[u] = blk[u] + 1
        BY <1>2, <2>1, <3>2, GroupsAssumption DEF AfterTileBarrier
      <4> QED
        BY <1>1, <1>2, <2>1, <3>2, <4>1, GroupsAssumption
           DEF Control, ControlCommon, ControlA, ControlB, Issued
    <3>3. CASE blk[u] >= numLive[u] /\ blk[u] >= numTiles
      <4>1. pc'[u] = "epilogue" /\ blk'[u] = blk[u]
        BY <1>2, <2>1, <3>3, GroupsAssumption DEF AfterTileBarrier
      <4> QED
        BY <1>1, <1>2, <2>1, <3>3, <4>1, GroupsAssumption
           DEF Control, ControlCommon, ControlA, ControlB, Issued
    <3> QED
      BY <1>2, <3>1, <3>2, <3>3
  <2>2. CASE u \in GroupB
    <3>1. CASE blk[u] <= numLive[u]
      <4>1. pc'[u] = "pv" /\ blk'[u] = blk[u]
        BY <2>2, <3>1, GroupsAssumption DEF AfterTileBarrier
      <4> QED
        BY <1>1, <1>2, <2>2, <3>1, <4>1, GroupsAssumption
           DEF Control, ControlCommon, ControlA, ControlB, Issued
    <3>2. CASE blk[u] > numLive[u]
      <4>1. pc'[u] = "dma" /\ blk'[u] = blk[u]
        BY <1>2, <2>2, <3>2, GroupsAssumption DEF AfterTileBarrier
      <4> QED
        BY <1>1, <1>2, <2>2, <3>2, <4>1, GroupsAssumption
           DEF Control, ControlCommon, ControlA, ControlB, Issued
    <3> QED
      BY <1>2, <3>1, <3>2
  <2> QED
    BY <2>1, <2>2 DEF Waves
<1> QED
  BY <1>6, <1>7, <1>8 DEF Wave

(* The last barrier: no load is left to land under the staged O.           *)
LEMMA ReleaseStage ==
  ASSUME IInv, NEW u \in Waves, pc[u] = "wait_stage", pc'[u] = "stage", blk'[u] = blk[u],
         passed' = passed + 1, UNCHANGED <<item, dma, slab>>
  PROVE  Wave(u)'
<1> USE DEF item
<1>1. Types /\ Wave(u) /\ passed = numTiles + 2 /\ kind = "whole"
  BY BarrierPlaces DEF IInv
<1>2. numTiles \in Nat /\ blk[u] \in Nat /\ passed \in Nat
  BY <1>1, WaveTypes
<1>3. dma[u] = <<>> /\ Len(dma[u]) = 0 /\ blk[u] <= numTiles
  BY <1>1 DEF Wave, Issued, Control, ControlCommon
<1>4. Control(u)'
  BY <1>1, <1>2, <1>3 DEF Control, ControlCommon, ControlA, ControlB
<1>5. InFlight(u)' /\ Prologued(u)' /\ Issued(u)'
  BY <1>1, <1>2, <1>3 DEF InFlight, Prologued, Issued
<1>6. ~(passed' <= numTiles' + 2)
  BY <1>1, <1>2
<1> QED
  BY <1>4, <1>5, <1>6 DEF Wave

(* A release moves every wave past one and the same barrier.               *)
LEMMA ReleaseInv == ASSUME IInv, Release PROVE IInv'
<1> USE DEF item
<1>1. Types
  BY DEF IInv
<1>2. \A u \in Waves : pc[u] \in AtBarrier
  BY NoneEnded DEF Release
<1>3. /\ passed' = passed + 1 /\ UNCHANGED <<kind, numTiles, numLive, dma, slab>>
      /\ \A u \in Waves : pc'[u] = AfterBarrier(u)[1] /\ blk'[u] = AfterBarrier(u)[2]
      /\ pc' = [u \in Waves |-> AfterBarrier(u)[1]]
      /\ blk' = [u \in Waves |-> AfterBarrier(u)[2]]
  BY DEF Release
<1>4. ASSUME NEW u \in Waves
      PROVE  Wave(u)' /\ AfterBarrier(u)[1] \in Places /\ AfterBarrier(u)[2] \in Nat
  <2>1. blk[u] \in Nat /\ numLive[u] \in 0 .. numTiles /\ numTiles \in Nat
    BY <1>1, WaveTypes
  <2>2. CASE pc[u] = "wait_start"
    <3>1. AfterBarrier(u) = <<"frags", blk[u]>>
      BY <2>2 DEF AfterBarrier
    <3>2. Wave(u)'
      BY <1>3, <2>2, <3>1, ReleaseStart
    <3> QED
      BY <2>1, <3>1, <3>2 DEF Places, Reading
  <2>3. CASE pc[u] = "wait_tile"
    <3>1. AfterBarrier(u) = AfterTileBarrier(u)
      BY <2>3 DEF AfterBarrier
    <3>2. Wave(u)'
      BY <1>3, <2>3, <3>1, ReleaseTile
    <3>3. AfterTileBarrier(u)[1] \in Places /\ AfterTileBarrier(u)[2] \in Nat
      BY <2>1 DEF AfterTileBarrier, Places, Reading
    <3> QED
      BY <3>1, <3>2, <3>3
  <2>4. CASE pc[u] = "wait_stage"
    <3>1. AfterBarrier(u) = <<"stage", blk[u]>>
      BY <2>4 DEF AfterBarrier
    <3>2. Wave(u)'
      BY <1>3, <2>4, <3>1, ReleaseStage
    <3> QED
      BY <2>1, <3>1, <3>2 DEF Places
  <2> QED
    BY <1>2, <2>2, <2>3, <2>4 DEF AtBarrier
<1>5. pc' \in [Waves -> Places] /\ blk' \in [Waves -> Nat] /\ passed' \in Nat
  BY <1>1, <1>3, <1>4 DEF Types
<1>6. Types'
  BY <1>1, <1>3, <1>5 DEF Types
<1> QED
  BY <1>4, <1>6 DEF IInv

-----------------------------------------------------------------------------
(* Every step of a wave keeps the invariant.                               *)
LEMMA StepInv == ASSUME IInv, NEW w \in Waves, Step(w) PROVE IInv'
BY SkipEmptyInv, PrologueInv, ArriveStartInv, FirstFragsInv, BlockDmaKInv, BlockDmaVInv,
   BlockEndAInv, BlockEndBInv, SoftmaxEndInv, DmaOnlyBlockInv, ArriveTileInv, PartEndInv,
   ArriveStageInv, StageEndInv DEF Step

(* The invariant depends on the variables only.                            *)
LEMMA StutterInv == ASSUME IInv, UNCHANGED vars PROVE IInv'
<1>1. Types'
  BY DEF IInv, vars, Types
<1>2. \A u \in Waves : Wave(u)'
  BY OtherWaves DEF IInv, vars, item
<1> QED
  BY <1>1, <1>2 DEF IInv

(* The invariant is inductive: the kernel's every step keeps it.           *)
LEMMA NextInv == IInv /\ [Next]_vars => IInv'
<1> SUFFICES ASSUME IInv, [Next]_vars PROVE IInv'
  OBVIOUS
<1>1. CASE \E w \in Waves : Land(w)
  BY <1>1, LandInv
<1>2. CASE \E w \in Waves : Step(w)
  BY <1>2, StepInv
<1>3. CASE Release
  BY <1>3, ReleaseInv
<1>4. CASE Retired \/ UNCHANGED vars
  BY <1>4, StutterInv DEF Retired
<1> QED
  BY <1>1, <1>2, <1>3, <1>4 DEF Next

(* The strengthening is inductive: at every point of every run the number  *)
(* of barriers passed fixes each wave's rows and loads in flight.          *)
THEOREM Inductive == Spec => []IInv
BY InitIInv, NextInv, PTL DEF Spec

-----------------------------------------------------------------------------
(* What a wave reads is in use, in the sense of RowsLive.                  *)
LEMMA ReadsAreLive ==
  ASSUME IInv, NEW w \in Waves, NEW x \in Reads(w)
  PROVE  /\ passed \in 1 .. numTiles + 2
         /\ \/ x = <<"V", 0>> /\ passed = 1
            \/ x = <<"K", passed - 1>>
            \/ x \in {<<"K", passed - 2>>, <<"V", passed - 2>>} /\ passed >= 2
            \/ x = <<"V", passed - 3>> /\ passed >= 3
<1> DEFINE t == blk[w]
<1>1. Types /\ Wave(w) /\ (w \in GroupA \/ w \in GroupB)
  BY DEF IInv, Waves
<1>2. t \in Nat /\ numTiles \in Nat /\ numLive[w] \in 0 .. numTiles /\ passed \in Nat
  BY <1>1, WaveTypes
<1>3. CASE pc[w] = "frags"
  <2>1. x = <<"V", 0>> /\ passed = 1
    BY <1>1, <1>3 DEF Reads, Wave, Control, ControlCommon, PvTile
  <2> QED
    BY <1>2, <2>1
<1>4. CASE pc[w] \in {"pv", "pv_k"}
  <2>1. x = <<"V", PvTile(t)>>
    BY <1>4 DEF Reads
  <2>2. (w \in GroupA => passed = t + 1) /\ (w \in GroupB => passed = t + 2) /\ t <= numLive[w]
    BY <1>1, <1>4 DEF Wave, Control, ControlA, ControlB
  <2> QED
    BY <1>1, <1>2, <2>1, <2>2 DEF PvTile
<1>5. CASE pc[w] = "qk"
  <2>1. /\ w \in GroupA => x \in {<<"V", PvTile(t)>>, <<"K", t>>}
        /\ w \in GroupB => x \in {<<"V", PvTile(t)>>, <<"K", t>>, <<"V", t>>}
    BY <1>5, GroupsAssumption DEF Reads
  <2>2. (w \in GroupA => passed = t + 1) /\ (w \in GroupB => passed = t + 2) /\ t <= numLive[w]
    BY <1>1, <1>5 DEF Wave, Control, ControlA, ControlB
  <2> QED
    BY <1>1, <1>2, <2>1, <2>2 DEF PvTile
<1>6. CASE pc[w] = "softmax"
  <2>1. w \in GroupA /\ x = <<"V", t>>
    BY <1>6 DEF Reads
  <2>2. passed = t + 2 /\ t < numLive[w]
    BY <1>1, <1>6, <2>1 DEF Wave, Control, ControlA
  <2> QED
    BY <1>2, <2>1, <2>2
<1>7. pc[w] \in {"frags", "pv", "pv_k", "qk", "softmax"}
  BY DEF Reads
<1> QED
  BY <1>3, <1>4, <1>5, <1>6, <1>7

(* A wave reads the tile its block names: RowsLive, at its block.          *)
LEMMA ImpliesReadsOwnTile == IInv => ReadsOwnTile
<1> SUFFICES ASSUME IInv, NEW w \in Waves, NEW x \in Reads(w), NEW u \in Waves
             PROVE  Holds(u, x[1], x[2])
  BY DEF ReadsOwnTile
<1>1. /\ passed \in 1 .. numTiles + 2
      /\ \/ x = <<"V", 0>> /\ passed = 1
         \/ x = <<"K", passed - 1>>
         \/ x \in {<<"K", passed - 2>>, <<"V", passed - 2>>} /\ passed >= 2
         \/ x = <<"V", passed - 3>> /\ passed >= 3
  BY ReadsAreLive
<1>2. RowsLive(u)
  BY <1>1, TilesAssumption DEF IInv, Wave, Types
<1> QED
  BY <1>1, <1>2 DEF RowsLive

(* What is in flight is past what any wave reads: InFlight, RowsLive.      *)
LEMMA ImpliesReadAlone == IInv => ReadAlone
<1> SUFFICES ASSUME IInv, NEW w \in Waves, NEW x \in Reads(w), NEW u \in Waves,
                    NEW i \in 1 .. Len(dma[u]),
                    dma[u][i].ring = x[1], dma[u][i].buf = BufOf(x[2])
             PROVE  dma[u][i].tile = x[2]
  BY DEF ReadAlone
<1>1. /\ passed \in 1 .. numTiles + 2
      /\ \/ x = <<"V", 0>> /\ passed = 1
         \/ x = <<"K", passed - 1>>
         \/ x \in {<<"K", passed - 2>>, <<"V", passed - 2>>} /\ passed >= 2
         \/ x = <<"V", passed - 3>> /\ passed >= 3
  BY ReadsAreLive
<1>2. dma[u][i] \in {Load("K", passed), Load("V", passed - 1)}
  BY <1>1, TilesAssumption DEF IInv, Wave, InFlight, Types
<1>3. passed \in Nat /\ passed - 1 \in Nat
  BY <1>1, TilesAssumption DEF IInv, Types
<1>4. /\ BufOf(passed) # BufOf(passed - 1)
      /\ passed >= 2 => /\ BufOf(passed) # BufOf(passed - 2)
                        /\ BufOf(passed - 1) # BufOf(passed - 2)
      /\ passed >= 3 => BufOf(passed - 1) # BufOf(passed - 3)
  BY <1>3, BufFacts DEF TileBufs
<1>5. CASE dma[u][i] = Load("K", passed)
  <2>1. x[1] = "K" /\ BufOf(x[2]) = BufOf(passed)
    BY <1>5 DEF Load
  <2> QED
    BY <1>1, <1>4, <2>1
<1>6. CASE dma[u][i] = Load("V", passed - 1)
  <2>1. x[1] = "V" /\ BufOf(x[2]) = BufOf(passed - 1) /\ dma[u][i].tile = passed - 1
    BY <1>6 DEF Load
  <2> QED
    BY <1>1, <1>4, <2>1
<1> QED
  BY <1>2, <1>5, <1>6

(* Staging starts past the last barrier, when nothing is read or loading.  *)
LEMMA ImpliesStageAlone == IInv => StageAlone
<1> SUFFICES ASSUME IInv, NEW v \in Waves, pc[v] = "stage", NEW u \in Waves
             PROVE  Reads(u) = {} /\ dma[u] = <<>>
  BY DEF StageAlone
<1>1. Types /\ Wave(u) /\ Wave(v)
  BY DEF IInv
<1>2. kind = "whole" /\ passed = numTiles + 3
  BY <1>1 DEF Wave, Control, ControlCommon
<1>3. blk[u] \in Nat /\ numTiles \in Nat /\ numLive[u] \in 0 .. numTiles /\ passed \in Nat
      /\ pc[u] \in Places /\ blk[u] <= numTiles
  BY <1>1, WaveTypes DEF Wave, Control, ControlCommon
<1>4. pc[u] \in {"stage", "end"}
  BY <1>1, <1>2, <1>3
     DEF Wave, Waves, Control, ControlCommon, ControlA, ControlB, Places, Reading, AtBarrier
<1>5. dma[u] = <<>>
  BY <1>1, <1>2, <1>4 DEF Wave, Issued
<1> QED
  BY <1>4, <1>5 DEF Reads

LEMMA ImpliesNoDmaUnderRead == IInv => NoDmaUnderRead
BY ImpliesReadAlone, ImpliesStageAlone DEF NoDmaUnderRead

(* The number of barriers passed names the barrier a wave waits at.        *)
LEMMA ImpliesSameBarrier == IInv => SameBarrier
<1> SUFFICES ASSUME IInv, NEW u \in Waves, NEW w \in Waves,
                    pc[u] \in AtBarrier, pc[w] \in AtBarrier
             PROVE  pc[u] = pc[w] /\ (pc[u] = "wait_tile" => blk[u] = blk[w])
  BY DEF SameBarrier
<1>1. Types /\ Wave(u) /\ Wave(w)
  BY DEF IInv
<1>2. /\ blk[u] \in Nat /\ blk[w] \in Nat /\ numTiles \in Nat /\ passed \in Nat
  BY <1>1, WaveTypes
<1> QED
  BY <1>1, <1>2, BarrierPlaces DEF AtBarrier

-----------------------------------------------------------------------------
(* DMA runs at most two tiles past the last, so every load and every slab  *)
(* stays within Tiles.                                                     *)
LEMMA DmaBounds == IInv => dma \in [Waves -> Seq(LoadSet)]
<1> SUFFICES ASSUME IInv, NEW u \in Waves PROVE dma[u] \in Seq(LoadSet)
  BY DEF IInv, Types
<1>1. Types /\ Wave(u) /\ dma[u] \in Seq(LoadT) /\ passed \in Nat /\ numTiles \in Nat
      /\ numTiles <= MaxTiles /\ MaxTiles \in Nat /\ pc[u] \in Places
  <2>1. Types /\ Wave(u)
    BY DEF IInv
  <2>2. numTiles <= MaxTiles /\ MaxTiles \in Nat
    BY <2>1, TilesAssumption DEF Types
  <2> QED
    BY <2>1, <2>2, WaveTypes
<1>2. Len(dma[u]) \in Nat /\ dma[u] \in [1 .. Len(dma[u]) -> LoadT]
  BY <1>1, LenProperties
<1>3. passed <= numTiles + 3 /\ (passed = numTiles + 3 => dma[u] = <<>>)
  <2>1. blk[u] \in Nat /\ numLive[u] \in 0 .. numTiles /\ blk[u] <= numTiles
    BY <1>1, WaveTypes DEF Wave, Control, ControlCommon
  <2>2. CASE pc[u] \in {"stage", "end"}
    BY <1>1, <2>2 DEF Wave, Control, ControlCommon, Issued
  <2>3. CASE pc[u] \notin {"stage", "end"}
    BY <1>1, <2>1, <2>3
       DEF Wave, Waves, Control, ControlCommon, ControlA, ControlB, Places, Reading, AtBarrier
  <2> QED
    BY <2>2, <2>3
<1>4. ASSUME NEW i \in 1 .. Len(dma[u]) PROVE dma[u][i] \in LoadSet
  <2>1. dma[u][i] \in LoadT
    BY <1>2, <1>4
  <2>2. dma[u][i].tile \in Tiles
    <3>1. CASE passed = 0
      <4>1. \A j \in 1 .. Len(PrologueLoads(u)) : PrologueLoads(u)[j].tile \in {0, 1}
        BY DEF PrologueLoads, Load
      <4>2. pc[u] \in {"settle", "wait_start"}
        BY <1>1, <1>2, <1>4, <3>1, WaveTypes
           DEF Wave, Waves, Control, ControlCommon, ControlA, ControlB, Prologued, Places,
               Reading, AtBarrier
      <4>3. /\ Len(dma[u]) <= Len(PrologueLoads(u)) /\ Len(PrologueLoads(u)) \in Nat
            /\ dma[u][i] = PrologueLoads(u)[i + Len(PrologueLoads(u)) - Len(dma[u])]
        BY <1>1, <1>4, <3>1, <4>2, PrologueFacts DEF Wave, Prologued
      <4>4. i + Len(PrologueLoads(u)) - Len(dma[u]) \in 1 .. Len(PrologueLoads(u))
        BY <1>2, <1>4, <4>3
      <4>5. dma[u][i].tile \in {0, 1}
        BY <4>1, <4>3, <4>4
      <4> QED
        BY <1>1, <4>5 DEF Tiles
    <3>2. CASE passed >= 1
      <4>1. dma[u][i] \in {Load("K", passed), Load("V", passed - 1)}
        BY <1>1, <1>4, <3>2 DEF Wave, InFlight
      <4>2. dma[u][i].tile \in {passed, passed - 1}
        BY <4>1 DEF Load
      <4>3. passed <= numTiles + 2
        BY <1>1, <1>2, <1>3, <1>4
      <4> QED
        BY <1>1, <3>2, <4>2, <4>3 DEF Tiles
    <3> QED
      BY <1>1, <3>1, <3>2
  <2> QED
    BY <2>1, <2>2 DEF LoadT, LoadSet
<1> QED
  BY <1>2, <1>4, SeqDef

SlabOK == slab \in [Waves -> [Rings -> [Buffers -> Tiles \cup {NoTile}]]]

(* Nothing is loaded at first.                                             *)
LEMMA InitSlab == Init => SlabOK
BY DEF Init, SlabOK

(* A slab only ever holds the tile of a load that was issued.              *)
LEMMA NextSlab == IInv /\ SlabOK /\ [Next]_vars => SlabOK'
<1> SUFFICES ASSUME IInv, SlabOK, [Next]_vars PROVE SlabOK'
  OBVIOUS
<1>1. ASSUME NEW w \in Waves, Land(w) PROVE SlabOK'
  <2> DEFINE d == Head(dma[w])
  <2>1. d \in LoadSet
    BY <1>1, DmaBounds, HeadTailProperties DEF Land
  <2>2. slab' = [slab EXCEPT ![w][d.ring][d.buf] = d.tile]
    BY <1>1 DEF Land
  <2> HIDE DEF d
  <2>3. d.ring \in Rings /\ d.buf \in Buffers /\ d.tile \in Tiles
    BY <2>1 DEF LoadSet
  <2> QED
    BY <2>2, <2>3 DEF SlabOK
<1>2. CASE slab' = slab
  BY <1>2 DEF SlabOK
<1>3. (\E w \in Waves : Land(w)) \/ slab' = slab
  BY DEF Next, vars, Step, Release, Retired, SkipEmpty, Prologue, ArriveStart, FirstFrags,
         BlockDmaK, BlockDmaV, BlockEndA, BlockEndB, SoftmaxEnd, DmaOnlyBlock, ArriveTile,
         PartEnd, ArriveStage, StageEnd
<1> QED
  BY <1>1, <1>2, <1>3

(* The types follow from the invariant and the slabs' type.                *)
LEMMA ImpliesTypeOK == IInv /\ SlabOK => TypeOK
<1> SUFFICES ASSUME IInv, SlabOK PROVE TypeOK
  OBVIOUS
<1>1. Types /\ \A w \in Waves : blk[w] <= numTiles
  BY DEF IInv, Wave, Control, ControlCommon
<1>2. blk \in [Waves -> 0 .. MaxTiles]
  BY <1>1, TilesAssumption DEF Types
<1> QED
  BY <1>1, <1>2, DmaBounds DEF Types, TypeOK, SlabOK

(* Type correctness: no block passes num_tiles, and no load or slab names  *)
(* a tile more than two past it, for every number of waves and tiles.      *)
THEOREM TypeCorrect == Spec => []TypeOK
BY InitSlab, NextSlab, ImpliesTypeOK, Inductive, PTL DEF Spec

(* Every fragment a wave reads in its PV and QK steps is of the tile its   *)
(* block names, in the rows every wave loaded.                             *)
THEOREM ReadsCorrect == Spec => []ReadsOwnTile
BY Inductive, ImpliesReadsOwnTile, PTL

(* No load is in flight to a buffer that is being read, other than the     *)
(* reload of V(0): three tile buffers are enough for the half-tile stagger.*)
(* And when a wave stages O over the rings, no wave reads them and no load *)
(* is left to land in them.                                                *)
THEOREM NoOverwrite == Spec => []NoDmaUnderRead
BY Inductive, ImpliesNoDmaUnderRead, PTL

(* Waves at a barrier are at the same one, whatever each one's live tiles. *)
THEOREM BarriersAgree == Spec => []SameBarrier
BY Inductive, ImpliesSameBarrier, PTL
-----------------------------------------------------------------------------
(* The pipeline of AttnPipeline implements the walk over the tiles of      *)
(* TileWalk, for every number of waves and tiles: each step of the kernel  *)
(* is a step of the walk, or leaves it alone.                              *)

(* What a step of the walk does for one wave, whose place and data are     *)
(* WalkPos and WalkSeen: begin a block, end it, pass a masked tile, stay.  *)
Moves(w) ==
  \/ /\ kind # "empty" /\ WalkSeen(w) = {}
     /\ WalkPos(w) <= numLive[w] /\ \A u \in Waves : WalkPos(u) >= WalkPos(w) - 1
     /\ WalkSeen(w)' = TheWalk!BlockData(WalkPos(w)) /\ WalkPos(w)' = WalkPos(w)
  \/ /\ WalkSeen(w) # {}
     /\ WalkSeen(w)' = {} /\ WalkPos(w)' = WalkPos(w) + 1
  \/ /\ kind # "empty" /\ numLive[w] < WalkPos(w) /\ WalkPos(w) <= numTiles
     /\ \A u \in Waves : WalkPos(u) >= WalkPos(w) - 1
     /\ WalkSeen(w)' = WalkSeen(w) /\ WalkPos(w)' = WalkPos(w) + 1
  \/ WalkPos(w)' = WalkPos(w) /\ WalkSeen(w)' = WalkSeen(w)

(* A step that is such for every wave is a step of the walk.               *)
LEMMA WalkStep ==
  ASSUME UNCHANGED item, \A w \in Waves : Moves(w)
  PROVE  TheWalk!Next
<1>1. UNCHANGED <<kind, numTiles, numLive>>
  BY DEF item
<1>2. \A w \in Waves : TheWalk!Begin(w) \/ TheWalk!End(w) \/ TheWalk!Pass(w) \/ TheWalk!Stay(w)
  <2> SUFFICES ASSUME NEW w \in Waves
      PROVE  TheWalk!Begin(w) \/ TheWalk!End(w) \/ TheWalk!Pass(w) \/ TheWalk!Stay(w)
    OBVIOUS
  <2>1. Moves(w)
    OBVIOUS
  <2> QED
   BY <2>1 DEF Moves, TheWalk!Begin, TheWalk!End, TheWalk!Pass, TheWalk!Stay, TheWalk!Together, TheWalk!NotComputing
<1> QED
  BY <1>1, <1>2 DEF TheWalk!Next, TheWalk!item

(* The kernel starts where the walk does.                                  *)
LEMMA WalkInit == Init => TheWalk!Init
  BY TilesAssumption DEF Init, TheWalk!Init, WalkPos, WalkSeen, TheWalk!NotComputing, AfterBlockA, AfterBlockB, AfterLoop

-----------------------------------------------------------------------------
(* A wave's step moves no other wave.                                      *)
LEMMA OnlyMover ==
  ASSUME Types, NEW u \in Waves, NEW w \in Waves, u # w, Step(u)
  PROVE  pc'[w] = pc[w] /\ blk'[w] = blk[w] /\ UNCHANGED <<item, slab>>
<1> USE DEF Types, Goto
<1>1. CASE SkipEmpty(u) \/ Prologue(u) \/ ArriveStart(u) \/ FirstFrags(u) \/ BlockDmaK(u)
           \/ BlockDmaV(u) \/ BlockEndA(u)
  BY <1>1 DEF SkipEmpty, Prologue, ArriveStart, FirstFrags, BlockDmaK, BlockDmaV, BlockEndA
<1>2. CASE BlockEndB(u) \/ SoftmaxEnd(u) \/ DmaOnlyBlock(u)
  BY <1>2 DEF BlockEndB, SoftmaxEnd, DmaOnlyBlock
<1>3. CASE ArriveTile(u) \/ PartEnd(u) \/ ArriveStage(u) \/ StageEnd(u)
  BY <1>3 DEF ArriveTile, PartEnd, ArriveStage, StageEnd
<1> QED
  BY <1>1, <1>2, <1>3 DEF Step

(* A wave past its loop has been through the item's last tile.             *)
PastLoop(w) == kind # "empty" /\ pc[w] \in AfterLoop => blk[w] = numTiles
LoopsDone == \A w \in Waves : PastLoop(w)

(* LoopsDone holds at the start and is kept.                               *)
LEMMA InitLoops == Init => LoopsDone
BY DEF Init, LoopsDone, PastLoop, AfterLoop

LEMMA NextLoops == IInv /\ LoopsDone /\ [Next]_vars => LoopsDone'
<1> SUFFICES ASSUME IInv, LoopsDone, [Next]_vars, NEW w \in Waves PROVE PastLoop(w)'
  BY DEF LoopsDone
<1>1. Types /\ Wave(w) /\ PastLoop(w)
  BY DEF IInv, LoopsDone
<1>2. blk[w] \in Nat /\ numTiles \in Nat /\ numLive[w] \in 0 .. numTiles /\ blk[w] <= numTiles
  BY <1>1, WaveTypes DEF Wave, Control, ControlCommon
<1>3. CASE pc'[w] = pc[w] /\ blk'[w] = blk[w] /\ UNCHANGED item
  BY <1>1, <1>3 DEF PastLoop, item
<1>4. CASE Step(w)
  <2> USE DEF Types, Goto, PastLoop, AfterLoop, item
  <2>1. CASE SkipEmpty(w) \/ Prologue(w) \/ ArriveStart(w) \/ FirstFrags(w) \/ BlockDmaK(w)
             \/ BlockDmaV(w) \/ BlockEndA(w) \/ SoftmaxEnd(w) \/ ArriveTile(w)
    BY <1>1, <2>1 DEF SkipEmpty, Prologue, ArriveStart, FirstFrags, BlockDmaK, BlockDmaV,
                      BlockEndA, SoftmaxEnd, ArriveTile
  <2>2. CASE BlockEndB(w) \/ DmaOnlyBlock(w)
    BY <1>1, <1>2, <2>2 DEF BlockEndB, DmaOnlyBlock
  <2>3. CASE PartEnd(w) \/ ArriveStage(w) \/ StageEnd(w)
    BY <1>1, <2>3 DEF PartEnd, ArriveStage, StageEnd
  <2> QED
    BY <1>4, <2>1, <2>2, <2>3 DEF Step
<1>5. CASE Release
  <2>1. /\ pc[w] \in AtBarrier /\ UNCHANGED item
        /\ pc'[w] = AfterBarrier(w)[1] /\ blk'[w] = AfterBarrier(w)[2]
    BY <1>5, NoneEnded DEF Release
  <2>2. CASE pc[w] = "wait_tile"
    BY <1>2, <2>1, <2>2 DEF AfterBarrier, AfterTileBarrier, PastLoop, AfterLoop, item
  <2>3. CASE pc[w] \in {"wait_start", "wait_stage"}
    BY <1>1, <2>1, <2>3 DEF AfterBarrier, PastLoop, AfterLoop, item
  <2> QED
    BY <2>1, <2>2, <2>3 DEF AtBarrier
<1>6. CASE (\E u \in Waves : Land(u)) \/ Retired \/ UNCHANGED vars
  <2>1. pc' = pc /\ blk' = blk /\ UNCHANGED item
    BY <1>6 DEF Land, Retired, vars, item
  <2> QED
    BY <1>3, <2>1
<1>7. CASE \E u \in Waves \ {w} : Step(u)
  <2>1. PICK u \in Waves \ {w} : Step(u)
    BY <1>7
  <2>2. pc'[w] = pc[w] /\ blk'[w] = blk[w] /\ UNCHANGED item
    BY <1>1, <2>1, OnlyMover
  <2> QED
    BY <1>3, <2>2
<1> QED
  BY <1>4, <1>5, <1>6, <1>7 DEF Next

-----------------------------------------------------------------------------
(* What a wave computes from is the tiles its block names, in every wave's *)
(* rows: all of ReadsOwnTile the walk has to know.                         *)
BlocksSeen ==
  \A w \in Waves : WalkSeen(w) = IF pc[w] = "qk" THEN TheWalk!BlockData(blk[w]) ELSE {}

LEMMA SeenIsItsBlock == IInv => BlocksSeen
<1> SUFFICES ASSUME IInv, NEW w \in Waves
    PROVE  WalkSeen(w) = IF pc[w] = "qk" THEN TheWalk!BlockData(blk[w]) ELSE {}
  BY DEF BlocksSeen
<1>1. CASE pc[w] = "qk"
  <2>1. <<"V", PvTile(blk[w])>> \in Reads(w) /\ <<"K", blk[w]>> \in Reads(w)
    BY <1>1, GroupsAssumption DEF Reads, Waves
  <2>2. \A u \in Waves : Holds(u, "V", PvTile(blk[w])) /\ Holds(u, "K", blk[w])
    BY <2>1, ImpliesReadsOwnTile DEF ReadsOwnTile
  <2>3. /\ DataOf("V", PvTile(blk[w])) = {<<"V", PvTile(blk[w])>>}
        /\ DataOf("K", blk[w]) = {<<"K", blk[w]>>}
    BY <2>2 DEF Holds, DataOf
  <2> QED
    BY <1>1, <2>3 DEF WalkSeen, TheWalk!BlockData, PvTile
<1> QED
  BY <1>1 DEF WalkSeen

(* The same, before and after a step.                                      *)
LEMMA SeenAround ==
  ASSUME IInv, IInv', NEW w \in Waves
  PROVE  /\ WalkSeen(w) = IF pc[w] = "qk" THEN TheWalk!BlockData(blk[w]) ELSE {}
         /\ WalkSeen(w)' = IF pc'[w] = "qk" THEN TheWalk!BlockData(blk'[w]) ELSE {}
<1>1. BlocksSeen'
  BY SeenIsItsBlock, PTL
<1>2. (WalkSeen(w) = IF pc[w] = "qk" THEN TheWalk!BlockData(blk[w]) ELSE {})'
  BY <1>1 DEF BlocksSeen
<1> QED
  BY <1>2, SeenIsItsBlock DEF BlocksSeen, TheWalk!BlockData

(* No wave is more than a block ahead of another: with p barriers passed   *)
(* A's are in block p - 1 or through it, B's in block p - 2 or through it. *)
LEMMA WalksTogether ==
  ASSUME IInv, LoopsDone, NEW w \in Waves, NEW u \in Waves,
         pc[w] \in {"pv_k", "dma"}
  PROVE  /\ WalkPos(w) = blk[w] /\ kind # "empty"
         /\ WalkPos(u) >= blk[w] - 1
<1>1. Types /\ Wave(u) /\ Wave(w) /\ PastLoop(u)
  BY DEF IInv, LoopsDone
<1>2. /\ blk[u] \in Nat /\ blk[w] \in Nat /\ numTiles \in Nat /\ passed \in Nat
      /\ pc[u] \in Places /\ numLive[u] \in 0 .. numTiles /\ numLive[w] \in 0 .. numTiles
  BY <1>1, WaveTypes
<1>3. kind # "empty" /\ blk[w] <= numTiles /\ WalkPos(w) = blk[w]
  BY <1>1 DEF Wave, Control, ControlCommon, WalkPos, AfterLoop, AfterBlockA, AfterBlockB
<1>4. /\ w \in GroupA => passed = blk[w] + 1
      /\ w \in GroupB => passed = blk[w] + 2
  BY <1>1 DEF Wave, Control, ControlA, ControlB
<1>5. CASE pc[u] \in AfterLoop
  BY <1>1, <1>2, <1>3, <1>5 DEF WalkPos, PastLoop, AfterLoop
<1>6. CASE pc[u] \in {"prologue", "settle", "wait_start", "frags"}
  BY <1>1, <1>2, <1>4, <1>6
     DEF Waves, Wave, Control, ControlCommon, WalkPos, AfterLoop, AfterBlockA, AfterBlockB
<1>7. CASE u \in GroupA /\ pc[u] \in {"pv", "pv_k", "qk", "dma", "drain", "wait_tile", "softmax"}
  BY <1>1, <1>2, <1>3, <1>4, <1>7
     DEF Waves, Wave, Control, ControlA, WalkPos, AfterLoop, AfterBlockA
<1>8. CASE u \in GroupB /\ pc[u] \in {"pv", "pv_k", "qk", "dma", "drain", "wait_tile", "softmax"}
  BY <1>1, <1>2, <1>3, <1>4, <1>8, GroupsAssumption
     DEF Waves, Wave, Control, ControlB, WalkPos, AfterLoop, AfterBlockB
<1> QED
  BY <1>2, <1>3, <1>5, <1>6, <1>7, <1>8
     DEF Waves, Places, Reading, AtBarrier, AfterLoop

-----------------------------------------------------------------------------
(* A wave whose place in the walk does not change stays.                   *)
LEMMA StaysPut ==
  ASSUME IInv, IInv', NEW w \in Waves, WalkPos(w)' = WalkPos(w),
         pc[w] = "qk" <=> pc'[w] = "qk", pc[w] = "qk" => blk'[w] = blk[w]
  PROVE  Moves(w)
<1> QED
  BY SeenAround DEF Moves

(* One wave's step is a step of the walk for it: the block's V loads begin *)
(* the walk's block, the block's end ends it, and a DMA-only block passes  *)
(* a tile.                                                                 *)
LEMMA MoverMoves ==
  ASSUME IInv, IInv', LoopsDone, NEW w \in Waves, Step(w)
  PROVE  Moves(w)
<1>1. /\ Types /\ Wave(w)
      /\ blk[w] \in Nat /\ numTiles \in Nat /\ numLive[w] \in 0 .. numTiles
  BY WaveTypes DEF IInv
<1>2. /\ WalkSeen(w) = IF pc[w] = "qk" THEN TheWalk!BlockData(blk[w]) ELSE {}
      /\ WalkSeen(w)' = IF pc'[w] = "qk" THEN TheWalk!BlockData(blk'[w]) ELSE {}
  BY SeenAround
<1>3. /\ pc[w] \in {"pv_k", "qk", "dma", "frags", "softmax", "drain", "epilogue"} => kind # "empty"
      /\ blk[w] <= numTiles
  BY <1>1 DEF Wave, Control, ControlCommon
<1>4. w \in GroupA <=> w \notin GroupB
  BY GroupsAssumption DEF Waves
<1> USE DEF Types, Goto, item, WalkPos, AfterLoop, AfterBlockA, AfterBlockB
<1>5. CASE SkipEmpty(w) \/ Prologue(w) \/ ArriveStart(w) \/ FirstFrags(w) \/ BlockDmaK(w)
             \/ ArriveTile(w)
  <2>1. WalkPos(w)' = WalkPos(w) /\ pc[w] # "qk" /\ pc'[w] # "qk"
    BY <1>1, <1>3, <1>4, <1>5 DEF SkipEmpty, Prologue, ArriveStart, FirstFrags, BlockDmaK, ArriveTile
  <2> QED
    BY <2>1, StaysPut
<1>6. CASE SoftmaxEnd(w) \/ PartEnd(w) \/ ArriveStage(w) \/ StageEnd(w)
  <2>1. WalkPos(w)' = WalkPos(w) /\ pc[w] # "qk" /\ pc'[w] # "qk"
    BY <1>1, <1>3, <1>4, <1>6 DEF SoftmaxEnd, PartEnd, ArriveStage, StageEnd
  <2> QED
    BY <2>1, StaysPut
<1>7. CASE BlockDmaV(w)
  <2>1. /\ pc[w] = "pv_k" /\ pc'[w] = "qk" /\ blk' = blk /\ UNCHANGED item
    BY <1>1, <1>7 DEF BlockDmaV
  <2>2. /\ kind # "empty" /\ WalkPos(w) = blk[w] /\ \A u \in Waves : WalkPos(u) >= WalkPos(w) - 1
    BY <2>1, WalksTogether
  <2>3. blk[w] <= numLive[w]
    BY <1>1, <2>1 DEF Waves, Wave, Control, ControlA, ControlB
  <2>4. WalkPos(w)' = blk[w]
    BY <2>1
  <2>5. WalkSeen(w) = {} /\ WalkSeen(w)' = TheWalk!BlockData(blk[w])
    BY <1>2, <2>1
  <2> QED
    BY <2>2, <2>3, <2>4, <2>5 DEF Moves
<1>8. CASE BlockEndA(w) \/ BlockEndB(w)
  <2>1. /\ pc[w] = "qk" /\ pc'[w] # "qk" /\ WalkPos(w) = blk[w] /\ WalkPos(w)' = blk[w] + 1
    BY <1>1, <1>3, <1>4, <1>8 DEF BlockEndA, BlockEndB
  <2>2. WalkSeen(w) # {} /\ WalkSeen(w)' = {}
    BY <1>2, <2>1 DEF TheWalk!BlockData
  <2> QED
    BY <2>1, <2>2 DEF Moves
<1>9. CASE DmaOnlyBlock(w)
  <2>1. pc[w] = "dma" /\ pc'[w] # "qk" /\ WalkPos(w)' = blk[w] + 1
    BY <1>1, <1>3, <1>4, <1>9 DEF DmaOnlyBlock
  <2>2. /\ kind # "empty" /\ WalkPos(w) = blk[w] /\ \A u \in Waves : WalkPos(u) >= WalkPos(w) - 1
    BY <2>1, WalksTogether
  <2>3. numLive[w] < blk[w]
    BY <1>1, <2>1 DEF Waves, Wave, Control, ControlA, ControlB
  <2>4. WalkSeen(w)' = WalkSeen(w)
    BY <1>2, <2>1
  <2> QED
    BY <1>3, <2>1, <2>2, <2>3, <2>4 DEF Moves
<1> QED
  BY <1>5, <1>6, <1>7, <1>8, <1>9 DEF Step

(* A barrier's release moves no wave in the walk.                          *)
LEMMA ReleaseStays ==
  ASSUME IInv, IInv', Release, NEW w \in Waves
  PROVE  Moves(w)
<1>1. /\ Types /\ Wave(w) /\ pc[w] \in AtBarrier /\ UNCHANGED item
      /\ pc'[w] = AfterBarrier(w)[1] /\ blk'[w] = AfterBarrier(w)[2]
  BY NoneEnded DEF Release, IInv
<1>2. blk[w] \in Nat /\ numTiles \in Nat /\ numLive[w] \in 0 .. numTiles
  BY <1>1, WaveTypes
<1>3. kind # "empty" /\ (w \in GroupA <=> w \notin GroupB)
  BY <1>1, BarrierPlaces, GroupsAssumption DEF Waves
<1>4. WalkPos(w)' = WalkPos(w) /\ pc'[w] # "qk"
  <2> USE DEF WalkPos, AfterLoop, AfterBlockA, AfterBlockB, item
  <2>1. CASE pc[w] = "wait_tile"
    BY <1>1, <1>2, <1>3, <2>1 DEF AfterBarrier, AfterTileBarrier
  <2>2. CASE pc[w] \in {"wait_start", "wait_stage"}
    BY <1>1, <1>3, <2>2 DEF AfterBarrier
  <2> QED
    BY <1>1, <2>1, <2>2 DEF AtBarrier
<1> QED
  BY <1>1, <1>4, StaysPut DEF AtBarrier

(* Every step of the kernel is a step of the walk.                         *)
LEMMA NextWalks == IInv /\ IInv' /\ LoopsDone /\ [Next]_vars => TheWalk!Next
<1> SUFFICES ASSUME IInv, IInv', LoopsDone, [Next]_vars PROVE TheWalk!Next
  OBVIOUS
<1>1. ASSUME NEW w \in Waves, pc'[w] = pc[w], blk'[w] = blk[w], UNCHANGED item PROVE Moves(w)
  BY <1>1, StaysPut DEF WalkPos, item
<1>2. CASE \E u \in Waves : Step(u)
  <2>1. PICK u \in Waves : Step(u)
    BY <1>2
  <2>2. UNCHANGED item
    BY <2>1 DEF Step, item, SkipEmpty, Prologue, ArriveStart, FirstFrags, BlockDmaK, BlockDmaV,
             BlockEndA, BlockEndB, SoftmaxEnd, DmaOnlyBlock, ArriveTile, PartEnd, ArriveStage,
             StageEnd
  <2>3. ASSUME NEW w \in Waves PROVE Moves(w)
    <3>1. CASE w = u
      BY <2>1, <3>1, MoverMoves
    <3>2. CASE w # u
      BY <1>1, <2>1, <3>2, OnlyMover DEF IInv
    <3> QED
      BY <3>1, <3>2
  <2> QED
    BY <2>2, <2>3, WalkStep
<1>3. CASE Release
  BY <1>3, ReleaseStays, WalkStep DEF Release
<1>4. CASE (\E u \in Waves : Land(u)) \/ Retired \/ UNCHANGED vars
  <2>1. pc' = pc /\ blk' = blk /\ UNCHANGED item
    BY <1>4 DEF Land, Retired, vars, item
  <2>2. \A w \in Waves : Moves(w)
    BY <1>1, <2>1
  <2> QED
    BY <2>1, <2>2, WalkStep
<1> QED
  BY <1>2, <1>3, <1>4 DEF Next

(* The pipeline implements the walk over the tiles: whatever the order of  *)
(* loads, waves and barriers, every wave takes the blocks of its live      *)
(* tiles in order, each from exactly its own K and V tiles in every wave's *)
(* rows, passes the masked ones, and none runs more than a block ahead.    *)
THEOREM Walks == Spec => ImplementsWalk
<1>1. IInv /\ LoopsDone /\ [Next]_vars => LoopsDone'
  BY NextLoops
<1> QED
  BY <1>1, InitLoops, InitIInv, NextInv, WalkInit, NextWalks, PTL
     DEF Spec, ImplementsWalk, TheWalk!Walk
=============================================================================
